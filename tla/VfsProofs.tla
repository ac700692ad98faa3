------------------------------ MODULE VfsProofs ------------------------------
(***************************************************************************)
(* Proofs about the virtual file system with tmpfs: for every size of the  *)
(* heap and of a node, every path and every text, however callers open,    *)
(* seek, write and create.                                                 *)
(***************************************************************************)
EXTENDS Vfs, PathNames, KHeapProofs, SequenceTheorems, WellFoundedInduction

Node == [name : Seq(Char), len : Nat \ {0}, off : Nat, blk : Nat \ {0}]

\* Offsets lie inside the files, and no file is longer than what the heap ever
\* granted: the size asked of krealloc does not wrap around.
FilesFit(ns, h) == \A i \in 1 .. Len(ns) : ns[i].off <= ns[i].len /\ ns[i].len <= h.bytes

\* Nodes and the buffer are different blocks of the heap.
BlocksApart(ns, h, b) ==
    /\ b # NULL => b \in DOMAIN h.blocks
    /\ \A i \in 1 .. Len(ns) : ns[i].blk \in DOMAIN h.blocks /\ ns[i].blk # b

\* The buffer begins with the text of the file and the EOF.
Holds(b, t) == /\ Len(t) < Len(b)
               /\ \A i \in 1 .. Len(t) : b[i] = t[i]
               /\ b[Len(t) + 1] = EOF

Whole == children # NULL /\ tidy =>
            /\ nodes[children].len = Len(text[children]) + 1
            /\ Holds(bytes, text[children])

IInv == /\ WellFormed(heap)
        /\ nodes \in Seq(Node) /\ bytes \in Seq(Char)
        /\ children \in {NULL} \cup Names /\ handles \subseteq Names
        /\ text \in Seq(Seq(Char)) /\ DOMAIN text = Names /\ tidy \in BOOLEAN
        /\ pool \in [mapped : Nat, at : Nat]
        /\ status \in {"boot", "up", "panic", "halted", "lost"}
        /\ slot \in Nat
        /\ FilesFit(nodes, heap)
        /\ BlocksApart(nodes, heap, slot)
        /\ nodes # <<>> => slot # NULL
        /\ slot # NULL => Len(bytes) = heap.blocks[slot].size
        /\ Whole
-----------------------------------------------------------------------------
\* Every set of numbers has a smallest: what Min returns.
LEMMA MinProperties ==
  ASSUME NEW T, T \subseteq Nat, T # {}
  PROVE  Min(T) \in T /\ \A y \in T : Min(T) <= y
<1>1. PICK x \in T : \A y \in T : ~ (<<y, x>> \in OpToRel(<, Nat))
  BY WFMin, NatLessThanWellFounded, Zenon
<1>2. \A y \in T : ~ (y < x)
  BY <1>1, Zenon DEF OpToRel
<1>3. \A y \in T : x <= y
  BY <1>2
<1> QED BY <1>3 DEF Min

\* What is in a buffer that no caller wrote.
LEMMA Characters == EOF \in Char /\ JUNK \in Char
BY DEF Char

\* The names that parse_path takes out of a path are names.
LEMMA FileNameIsName ==
  ASSUME NEW path \in Seq(Char), NEW m, parse_path(path, m).kind = "file"
  PROVE  parse_path(path, m).file \in Seq(Char)
<1> DEFINE p == Tail(path)
<1>1. path # <<>>
  BY DEF parse_path, Failure
<1>2. p \in Seq(Char) /\ Len(p) \in Nat
  BY <1>1
<1>3. parse_path(path, m).file = FileName(p) /\ p # <<>>
  BY DEF parse_path, Failure
<1> HIDE DEF p
<1>4. Len(p) \in 1 .. Len(p)
  BY <1>2, <1>3
<1>5. Stop(p) \in 1 .. Len(p)
  <2> DEFINE T == {k \in 1 .. Len(p) : p[k] = Slash} \cup {Len(p)}
  <2>1. T \subseteq Nat /\ T # {} /\ T \subseteq 1 .. Len(p)
    BY <1>2, <1>4
  <2> HIDE DEF T
  <2>2. Min(T) \in T
    BY <2>1, MinProperties
  <2> QED BY <2>1, <2>2 DEF Stop, T
<1>6. \A i \in Stop(p) + 1 .. Len(p) : p[i] \in Char
  BY <1>2, <1>5
<1>7. SubSeq(p, Stop(p) + 1, Len(p)) \in Seq(Char)
  BY <1>2, <1>5, <1>6
<1> QED BY <1>3, <1>7 DEF FileName

LEMMA InitEstablishesIInv == Init => IInv
<1> SUFFICES ASSUME Init PROVE IInv
  OBVIOUS
<1>1. /\ heap = create_heap /\ slot = 0 /\ bytes = <<>> /\ pool = [mapped |-> 0, at |-> 0]
      /\ children = 0 /\ nodes = <<>> /\ handles = {} /\ text = <<>> /\ tidy = TRUE
      /\ status = "boot"
  BY DEF Init, NULL
<1>2. WellFormed(heap)
  BY <1>1, CreatedIsWellFormed
<1>3. nodes \in Seq(Node) /\ bytes \in Seq(Char) /\ text \in Seq(Seq(Char)) /\ DOMAIN text = {}
  BY <1>1
<1>4. Names = {}
  BY <1>1 DEF Names
<1> QED BY <1>1, <1>2, <1>3, <1>4 DEF IInv, Whole, FilesFit, BlocksApart, NULL, Names

\* Where nothing but the status changes, and for callers that come and go.
LEMMA QuietStepIsSafe ==
  ASSUME IInv, UNCHANGED <<mem, nodes, tree, hist>>, handles' \subseteq Names,
         status' \in {"boot", "up", "panic", "halted", "lost"}
  PROVE  IInv'
BY DEF IInv, Whole, Names, mem, tree, hist

\* fclose and fseek: the offset of one file moves inside the file.
LEMMA SeekIsSafe ==
  ASSUME IInv, NEW f \in handles, NEW o \in 0 .. nodes[f].len,
         nodes' = [nodes EXCEPT ![f].off = o],
         handles' \subseteq handles,
         UNCHANGED <<mem, tree, hist, status>>
  PROVE  IInv'
<1>1. /\ f \in 1 .. Len(nodes) /\ nodes \in Seq(Node)
  BY DEF IInv, Names
<1>2. nodes[f] \in Node /\ \A i \in 1 .. Len(nodes) : nodes[i] \in Node
  BY <1>1
<1>3. o \in Nat /\ o <= nodes[f].len
  BY <1>2 DEF Node
<1>4. [nodes[f] EXCEPT !.off = o] \in Node
  BY <1>2, <1>3 DEF Node
<1>5. /\ nodes' \in Seq(Node) /\ Len(nodes') = Len(nodes)
      /\ \A i \in 1 .. Len(nodes) :
            nodes'[i] = IF i = f THEN [nodes[i] EXCEPT !.off = o] ELSE nodes[i]
  BY <1>1, <1>4
<1>6. \A i \in 1 .. Len(nodes) : /\ nodes'[i].len = nodes[i].len
                                 /\ nodes'[i].blk = nodes[i].blk
                                 /\ nodes'[i].off = IF i = f THEN o ELSE nodes[i].off
  <2> SUFFICES ASSUME NEW i \in 1 .. Len(nodes)
               PROVE  /\ nodes'[i].len = nodes[i].len
                      /\ nodes'[i].blk = nodes[i].blk
                      /\ nodes'[i].off = IF i = f THEN o ELSE nodes[i].off
    OBVIOUS
  <2>1. CASE i = f
    <3>1. nodes'[i] = [nodes[i] EXCEPT !.off = o] /\ nodes[i] \in Node
      BY <1>2, <1>5, <2>1
    <3> QED BY <3>1, <2>1 DEF Node
  <2>2. CASE i # f
    BY <2>2, <1>5
  <2> QED BY <2>1, <2>2
<1>7. UNCHANGED <<heap, slot, bytes, mounted, pool, children, text, tidy, status, Names>>
  BY <1>5 DEF mem, tree, hist, Names
<1>8. FilesFit(nodes, heap)'
  BY <1>3, <1>5, <1>6, <1>7 DEF IInv, FilesFit
<1>9. BlocksApart(nodes, heap, slot)'
  BY <1>5, <1>6, <1>7 DEF IInv, BlocksApart
<1>10. Whole'
  BY <1>6, <1>7 DEF IInv, Whole, Names
<1>11. nodes' # <<>> => nodes # <<>>
  BY <1>1, <1>5
<1> QED BY <1>5, <1>7, <1>8, <1>9, <1>10, <1>11 DEF IInv

\* A heap that only grew still has every node and the buffer.
LEMMA GrowthIsSafe ==
  ASSUME IInv, NEW h, WellFormed(h), Extends(h, heap), h.bytes >= heap.bytes
  PROVE  /\ FilesFit(nodes, h) /\ BlocksApart(nodes, h, slot)
         /\ slot # NULL => Len(bytes) = h.blocks[slot].size
<1>1. h.bytes \in Nat /\ heap.bytes \in Nat
  BY BlockType DEF IInv, WellFormed
<1>2. \A i \in 1 .. Len(nodes) : nodes[i] \in Node
  BY DEF IInv
<1>3. \A i \in 1 .. Len(nodes) : nodes[i].len \in Nat /\ nodes[i].len <= heap.bytes
  BY <1>2 DEF IInv, FilesFit, Node
<1>4. FilesFit(nodes, h)
  BY <1>1, <1>3 DEF IInv, FilesFit
<1> QED BY <1>4 DEF IInv, BlocksApart, Extends

LEMMA MountIsSafe ==
  ASSUME IInv, fs_init
  PROVE  IInv'
<1>1. /\ UNCHANGED <<slot, bytes, children, nodes, handles, hist, got>>
      /\ status' \in {"panic", "halted", "up"}
  BY DEF fs_init
<1>2. CASE NULL \in {ForRoot.ptr, ForBase.ptr, ForChild.ptr}
  BY <1>1, <1>2, QuietStepIsSafe DEF fs_init, mem, tree, IInv
<1>3. CASE NULL \notin {ForRoot.ptr, ForBase.ptr, ForChild.ptr}
  <2> DEFINE a == ForRoot.heap
             b == ForBase.heap
             c == ForChild.heap
  <2>1. NodeSize \in Nat /\ HeapSize + NodeSize < Word /\ WellFormed(heap)
    BY VfsAssumption DEF IInv
  <2>2. WellFormed(a) /\ Extends(a, heap) /\ a.bytes = heap.bytes + NodeSize
    BY <1>3, <2>1, TryProperties DEF ForRoot
  <2>3. WellFormed(b) /\ Extends(b, a) /\ b.bytes = a.bytes + NodeSize
    BY <1>3, <2>1, <2>2, TryProperties DEF ForBase
  <2>4. WellFormed(c) /\ Extends(c, b) /\ c.bytes = b.bytes + NodeSize
    BY <1>3, <2>1, <2>3, TryProperties DEF ForChild
  <2> HIDE DEF a, b, c
  <2>5. heap.bytes \in Nat
    BY <2>1, BlockType DEF WellFormed
  <2>6. Extends(c, heap) /\ c.bytes >= heap.bytes
    BY <2>1, <2>2, <2>3, <2>4, <2>5 DEF Extends
  <2>7. /\ FilesFit(nodes, c) /\ BlocksApart(nodes, c, slot)
        /\ slot # NULL => Len(bytes) = c.blocks[slot].size
    BY <2>4, <2>6, GrowthIsSafe
  <2>8. heap' = c
    BY <1>3 DEF fs_init, c
  <2>9. pool' \in [mapped : Nat, at : Nat]
    <3>1. PICK f \in PoolFrames : pool' = [mapped |-> f[1], at |-> f[3]]
      BY <1>3 DEF fs_init
    <3>2. f[1] \in Nat /\ f[3] \in Nat
      BY DEF PoolFrames
    <3> QED BY <3>1, <3>2
  <2>10. UNCHANGED <<slot, bytes, children, nodes, handles, text, tidy, Names>>
    BY <1>1 DEF hist, Names
  <2>11. Whole'
    BY <2>10 DEF IInv, Whole
  <2> QED BY <1>1, <2>4, <2>7, <2>8, <2>9, <2>10, <2>11 DEF IInv
<1> QED BY <1>2, <1>3

\* fcreate: the new file is whole, and its node and buffer are new blocks.
LEMMA AddFileIsSafe ==
  ASSUME IInv, NEW name \in Seq(Char), AddFile(name), NULL \notin {ForByte.ptr, ForNode.ptr},
         UNCHANGED <<mounted, pool, handles, status>>
  PROVE  IInv'
<1> DEFINE n == Len(nodes)
           g == ForByte.heap
           h == ForNode.heap
           c == ForByte.ptr
           d == ForNode.ptr
<1>1. /\ heap' = h /\ slot' = c /\ bytes' = <<EOF>>
      /\ children' = Len(nodes') /\ text' = Append(text, <<>>) /\ tidy' = TRUE
  BY DEF AddFile
<1>2. PICK x \in NameFound(name) :
         nodes' = Append(nodes, [name |-> x, len |-> 1, off |-> 0, blk |-> d])
  BY DEF AddFile
<1>3. x \in Seq(Char)
  <2>2. WildName \in Seq(Char)
    BY Characters DEF WildName
  <2>3. x = name \/ x = WildName
    BY DEF NameFound
  <2> QED BY <2>2, <2>3
<1>4. WellFormed(heap) /\ NodeSize \in Nat \ {0} /\ HeapSize + NodeSize < Word /\ HeapSize + 1 < Word
  BY VfsAssumption DEF IInv
<1>5. /\ WellFormed(g) /\ Extends(g, heap) /\ g.bytes = heap.bytes + 1
      /\ c \in DOMAIN g.blocks /\ c \notin DOMAIN heap.blocks /\ g.blocks[c].size = 1
      /\ c \in Nat
  BY <1>4, TryProperties DEF ForByte
<1>6. /\ WellFormed(h) /\ Extends(h, g) /\ h.bytes = g.bytes + NodeSize
      /\ d \in DOMAIN h.blocks /\ d \notin DOMAIN g.blocks
      /\ d \in Nat
  BY <1>4, <1>5, TryProperties DEF ForNode
<1>7. c # NULL /\ d # NULL
  OBVIOUS
<1> DEFINE f == [name |-> x, len |-> 1, off |-> 0, blk |-> d]
<1>8. f \in Node /\ f.len = 1 /\ f.off = 0 /\ f.blk = d
  BY <1>3, <1>6, <1>7 DEF Node, NULL
<1>9. nodes' = Append(nodes, f)
  BY <1>2
<1> HIDE DEF g, h, c, d, f
<1>10. heap.bytes \in Nat
  BY <1>4, BlockType DEF WellFormed
<1>11. /\ Extends(h, heap) /\ h.bytes >= heap.bytes /\ h.bytes >= 1
       /\ c \in DOMAIN h.blocks /\ h.blocks[c].size = 1 /\ c # d
       /\ d \notin DOMAIN heap.blocks
  BY <1>4, <1>5, <1>6, <1>10 DEF Extends
<1>12. FilesFit(nodes, h) /\ BlocksApart(nodes, h, slot)
  BY <1>6, <1>11, GrowthIsSafe
<1>13. /\ nodes \in Seq(Node) /\ n \in Nat
       /\ nodes' \in Seq(Node) /\ Len(nodes') = n + 1
       /\ nodes'[n + 1] = f /\ \A i \in 1 .. n : nodes'[i] = nodes[i]
       /\ \A i \in 1 .. n + 1 : i \in 1 .. n \/ i = n + 1
  BY <1>8, <1>9 DEF IInv
<1>14. /\ text \in Seq(Seq(Char)) /\ Len(text) = n
  BY <1>13 DEF IInv, Names
<1>15. /\ text' \in Seq(Seq(Char)) /\ DOMAIN text' = 1 .. n + 1 /\ text'[n + 1] = <<>>
  BY <1>1, <1>13, <1>14
<1>16. FilesFit(nodes, heap)'
  <2>1. \A i \in 1 .. n : nodes'[i].off <= nodes'[i].len /\ nodes'[i].len <= h.bytes
    BY <1>12, <1>13 DEF FilesFit
  <2>2. nodes'[n + 1].off <= nodes'[n + 1].len /\ nodes'[n + 1].len <= h.bytes
    BY <1>8, <1>11, <1>13
  <2> HIDE DEF n
  <2> QED BY <1>1, <1>13, <2>1, <2>2 DEF FilesFit
<1>17. BlocksApart(nodes, heap, slot)'
  <2>1. \A i \in 1 .. n : nodes'[i].blk \in DOMAIN heap.blocks
    BY <1>13 DEF IInv, BlocksApart
  <2>2. \A i \in 1 .. n : nodes'[i].blk \in DOMAIN h.blocks /\ nodes'[i].blk # c
    BY <2>1, <1>5, <1>11 DEF Extends
  <2>3. nodes'[n + 1].blk \in DOMAIN h.blocks /\ nodes'[n + 1].blk # c
    BY <1>6, <1>8, <1>11, <1>13
  <2> HIDE DEF n
  <2> QED BY <1>1, <1>11, <1>13, <2>2, <2>3 DEF BlocksApart
<1>18. Whole'
  <2>1. children' = n + 1 /\ nodes'[n + 1].len = 1 /\ text'[n + 1] = <<>>
    BY <1>1, <1>8, <1>13, <1>15
  <2>2. Holds(<<EOF>>, <<>>)
    BY DEF Holds
  <2>3. Holds(bytes', text'[children'])
    BY <1>1, <2>1, <2>2
  <2>4. nodes'[children'].len = Len(text'[children']) + 1
    BY <2>1
  <2> QED BY <2>3, <2>4 DEF Whole
<1>19. Len(bytes') = 1 /\ bytes' \in Seq(Char)
  BY <1>1, Characters
<1>20. handles' \subseteq Names' /\ Names' = 1 .. n + 1 /\ children' \in Names'
  BY <1>1, <1>13 DEF IInv, Names
<1> QED BY <1>1, <1>5, <1>6, <1>7, <1>11, <1>13, <1>15, <1>16, <1>17, <1>18, <1>19, <1>20 DEF IInv

\* The size asked of krealloc does not wrap around.
LEMMA RoomIsBounded ==
  ASSUME IInv, NEW f \in handles, NEW t \in Texts
  PROVE  Room(f, t) \in Nat /\ HeapSize + Room(f, t) < Word
<1>1. nodes[f] \in Node /\ f \in 1 .. Len(nodes)
  BY DEF IInv, Names
<1>2. nodes[f].len \in Nat /\ nodes[f].len <= heap.bytes
  BY <1>1 DEF IInv, FilesFit, Node
<1>3. heap.bytes \in Nat /\ heap.bytes <= HeapSize
  BY BlockType DEF IInv, WellFormed
<1>4. Len(t) \in Nat /\ 2 * HeapSize + Len(t) + 1 < Word
  BY VfsAssumption
<1> DEFINE l == nodes[f].len
           m == Len(t)
<1>5. Room(f, t) = l + m + 1
  BY DEF Room
<1>6. l \in Nat /\ m \in Nat /\ l <= HeapSize /\ 2 * HeapSize + m + 1 < Word
  BY <1>2, <1>3, <1>4, SizeAssumption
<1> HIDE DEF l, m
<1> QED BY <1>5, <1>6, SizeAssumption

\* What fwrite leaves in the buffer of a file that it appends to at the EOF.
LEMMA AppendedHolds ==
  ASSUME IInv, NEW f \in handles, NEW t \in Texts, NEW u \in Seq(Char),
         nodes[f].len = Len(u) + 1, nodes[f].off = nodes[f].len - 1,
         Holds(bytes, u)
  PROVE  Holds(Overlay(f, t), u \o t)
<1> DEFINE l == Len(u)
           m == Len(t)
           b == Overlay(f, t)
           v == u \o t
<1>1. t \in Seq(Char) /\ l \in Nat /\ m \in Nat
  BY VfsAssumption
<1>2. /\ v \in Seq(Char) /\ Len(v) = l + m
      /\ \A i \in 1 .. l : v[i] = u[i]
      /\ \A i \in l + 1 .. l + m : v[i] = t[i - l]
  BY <1>1
<1>3. bytes \in Seq(Char) /\ l < Len(bytes) /\ \A i \in 1 .. l : bytes[i] = u[i]
  BY DEF IInv, Holds
<1>4. nodes[f].len = l + 1 /\ nodes[f].off = l
  BY <1>1
<1>5. Room(f, t) = l + m + 2
  BY <1>1, <1>4 DEF Room
<1>6. b = [i \in 1 .. l + m + 2 |->
             IF i = l + m + 1 THEN EOF
             ELSE IF i - l \in DOMAIN t THEN t[i - l]
             ELSE IF i \in DOMAIN bytes THEN bytes[i] ELSE JUNK]
  BY <1>1, <1>4, <1>5 DEF Overlay
<1>7. DOMAIN t = 1 .. m /\ \A i \in 1 .. l : i \in DOMAIN bytes
  BY <1>1, <1>3
<1> HIDE DEF b, v, l, m
<1>8. Len(b) = l + m + 2
  BY <1>1, <1>6
<1>9. \A i \in 1 .. l : b[i] = v[i]
  <2> SUFFICES ASSUME NEW i \in 1 .. l PROVE b[i] = v[i]
    OBVIOUS
  <2>1. i \in 1 .. l + m + 2 /\ i # l + m + 1 /\ i - l \notin 1 .. m
    BY <1>1
  <2>2. b[i] = bytes[i]
    BY <2>1, <1>6, <1>7
  <2> QED BY <2>2, <1>2, <1>3
<1>10. \A i \in l + 1 .. l + m : b[i] = v[i]
  <2> SUFFICES ASSUME NEW i \in l + 1 .. l + m PROVE b[i] = v[i]
    OBVIOUS
  <2>1. i \in 1 .. l + m + 2 /\ i # l + m + 1 /\ i - l \in 1 .. m
    BY <1>1
  <2>2. b[i] = t[i - l]
    BY <2>1, <1>6, <1>7
  <2> QED BY <2>2, <1>2
<1>11. b[l + m + 1] = EOF
  <2>1. l + m + 1 \in 1 .. l + m + 2
    BY <1>1
  <2> QED BY <2>1, <1>6
<1>12. \A i \in 1 .. l + m : i \in 1 .. l \/ i \in l + 1 .. l + m
  BY <1>1
<1>13. Len(v) < Len(b) /\ b[Len(v) + 1] = EOF
  BY <1>1, <1>2, <1>8, <1>11
<1>14. \A i \in 1 .. Len(v) : b[i] = v[i]
  <2>1. \A i \in 1 .. l + m : b[i] = v[i]
    BY <1>9, <1>10, <1>12, Zenon
  <2> QED BY <1>2, <2>1
<1>15. Holds(b, v)
  BY <1>13, <1>14, Zenon DEF Holds
<1> QED BY <1>15 DEF b, v

\* fwrite: the buffer is a new block of the size asked for, and the old one is
\* freed, which frees nothing that is in use.
LEMMA WriteIsSafe ==
  ASSUME IInv, NEW f \in handles, NEW t \in Texts, fwrite(f, t)
  PROVE  IInv'
<1> DEFINE r == Room(f, t)
           g == Try(heap, r).heap
           c == Try(heap, r).ptr
           m == Len(t)
<1>1. UNCHANGED <<mounted, pool, children, handles>>
  BY DEF fwrite, tree
<1>2. CASE c = NULL
  BY <1>1, <1>2, QuietStepIsSafe DEF fwrite, mem, tree, hist, IInv
<1>3. CASE c # NULL
  <2>1. /\ status' = (IF Fits(f, t) THEN "up" ELSE "overrun")
        /\ heap' = kfree(g, slot) /\ slot' = c /\ bytes' = Overlay(f, t)
        /\ nodes' = [nodes EXCEPT ![f].off = @ + m, ![f].len = @ + m]
        /\ text' = [text EXCEPT ![f] = @ \o t]
        /\ tidy' = (tidy /\ f = children /\ nodes[f].off = nodes[f].len - 1)
    BY <1>3 DEF fwrite
  <2>2. /\ WellFormed(heap) /\ r \in Nat /\ HeapSize + r < Word
        /\ nodes \in Seq(Node) /\ f \in 1 .. Len(nodes)
        /\ m \in Nat /\ t \in Seq(Char)
    BY RoomIsBounded, VfsAssumption DEF IInv, Names
  <2>3. /\ WellFormed(g) /\ Extends(g, heap) /\ g.bytes = heap.bytes + r
        /\ c \in DOMAIN g.blocks /\ c \notin DOMAIN heap.blocks /\ g.blocks[c].size = r
        /\ c \in Nat
    BY <1>3, <2>2, TryProperties
  <2>4. nodes[f] \in Node /\ \A i \in 1 .. Len(nodes) : nodes[i] \in Node
    BY <2>2
  <2>5. /\ nodes[f].len \in Nat \ {0} /\ nodes[f].off \in Nat
        /\ nodes[f].off <= nodes[f].len
        /\ r = nodes[f].len + m + 1
    BY <2>2, <2>4 DEF Node, IInv, FilesFit, Room
  <2>6. Fits(f, t)
    <3> DEFINE o == nodes[f].off
               l == nodes[f].len
    <3>1. o \in Nat /\ l \in Nat /\ m \in Nat /\ o <= l
      BY <2>2, <2>5
    <3>2. Fits(f, t) <=> o + m <= l + m + 1
      BY DEF Fits, Room
    <3> HIDE DEF o, l, m
    <3> QED BY <3>1, <3>2
  <2> DEFINE x == [nodes[f] EXCEPT !.off = @ + m, !.len = @ + m]
  <2>7. /\ x \in Node /\ x.len = nodes[f].len + m /\ x.off = nodes[f].off + m
        /\ x.blk = nodes[f].blk
    <3> HIDE DEF m
    <3>1. nodes[f].off + m \in Nat /\ nodes[f].len + m \in Nat \ {0}
      BY <2>2, <2>5
    <3>2. x = [nodes[f] EXCEPT !.off = nodes[f].off + m, !.len = nodes[f].len + m]
      OBVIOUS
    <3> HIDE DEF x
    <3> QED BY <3>1, <3>2, <2>4 DEF Node
  <2>8. /\ nodes' \in Seq(Node) /\ Len(nodes') = Len(nodes)
        /\ \A i \in 1 .. Len(nodes) : nodes'[i] = IF i = f THEN x ELSE nodes[i]
    <3>1. nodes' = [nodes EXCEPT ![f] = x]
      BY <2>1, <2>2, <2>4 DEF Node
    <3> HIDE DEF x
    <3> QED BY <3>1, <2>2, <2>7
  <2> HIDE DEF x, g, c
  <2>9. slot # NULL /\ slot \in DOMAIN heap.blocks /\ slot \in DOMAIN g.blocks
    <3>1. nodes # <<>>
      BY <2>2
    <3> QED BY <3>1, <2>3 DEF IInv, BlocksApart, Extends
  <2>10. WellFormed(heap') /\ heap'.blocks = g.blocks /\ heap'.bytes = g.bytes
    BY <2>1, <2>3, <2>9, KfreeProperties
  <2>11. heap.bytes \in Nat /\ g.bytes >= heap.bytes /\ g.bytes >= r
    <3>1. heap.bytes \in Nat
      BY <2>2, BlockType DEF WellFormed
    <3> HIDE DEF r
    <3> QED BY <3>1, <2>2, <2>3
  <2>12. FilesFit(nodes, g) /\ BlocksApart(nodes, g, slot)
    BY <2>3, <2>11, GrowthIsSafe
  <2>13. FilesFit(nodes, heap)'
    <3>1. x.off <= x.len /\ x.len <= g.bytes
      <4> DEFINE o == nodes[f].off
                 l == nodes[f].len
                 b == g.bytes
      <4>1. o \in Nat /\ l \in Nat /\ m \in Nat /\ o <= l
        BY <2>2, <2>5
      <4>2. b \in Nat /\ b >= l + m + 1
        <5>1. WellFormed(g)
          BY <2>3
        <5> QED BY <2>5, <2>11, <5>1, BlockType DEF WellFormed
      <4>3. x.off = o + m /\ x.len = l + m
        BY <2>7
      <4> HIDE DEF m, x, o, l, b
      <4>4. x.off <= x.len /\ x.len <= b
        BY <4>1, <4>2, <4>3
      <4> QED BY <4>4 DEF b
    <3>2. \A i \in 1 .. Len(nodes) : nodes'[i].off <= nodes'[i].len /\ nodes'[i].len <= g.bytes
      BY <3>1, <2>8, <2>12 DEF FilesFit
    <3> QED BY <3>2, <2>8, <2>10 DEF FilesFit
  <2>14. BlocksApart(nodes, heap, slot)'
    <3>1. \A i \in 1 .. Len(nodes) : nodes'[i].blk = nodes[i].blk
      BY <2>7, <2>8
    <3>2. \A i \in 1 .. Len(nodes) : nodes[i].blk \in DOMAIN heap.blocks
      BY DEF IInv, BlocksApart
    <3>3. \A i \in 1 .. Len(nodes) : nodes[i].blk \in DOMAIN g.blocks /\ nodes[i].blk # c
      BY <3>2, <2>3 DEF Extends
    <3> QED BY <3>1, <3>3, <2>1, <2>3, <2>8, <2>10 DEF BlocksApart
  <2>15. bytes' \in Seq(Char) /\ Len(bytes') = r
    <3>1. \A i \in DOMAIN bytes : bytes[i] \in Char
      BY DEF IInv
    <3>2. \A i \in DOMAIN t : t[i] \in Char
      BY <2>2
    <3>3. EOF \in Char /\ JUNK \in Char
      BY Characters
    <3>4. DOMAIN bytes' = 1 .. r /\ \A i \in 1 .. r : bytes'[i] \in Char
      BY <3>1, <3>2, <3>3, <2>1 DEF Overlay
    <3>5. bytes' = [i \in 1 .. r |-> bytes'[i]]
      BY <2>1 DEF Overlay
    <3> HIDE DEF r
    <3> QED BY <3>4, <3>5, <2>2
  <2>16. /\ text \in Seq(Seq(Char)) /\ Len(text) = Len(nodes) /\ f \in 1 .. Len(text)
         /\ text[f] \in Seq(Char) /\ text[f] \o t \in Seq(Char)
    BY <2>2 DEF IInv, Names
  <2>17. text' \in Seq(Seq(Char)) /\ DOMAIN text' = Names' /\ text'[f] = text[f] \o t
    BY <2>1, <2>8, <2>16 DEF Names
  <2>18. Whole'
    <3> SUFFICES ASSUME children' # NULL, tidy'
                 PROVE  /\ nodes'[f].len = Len(text'[f]) + 1
                        /\ Holds(bytes', text'[f])
      BY <1>1, <2>1 DEF Whole
    <3>1. tidy /\ f = children /\ nodes[f].off = nodes[f].len - 1 /\ children # NULL
      BY <1>1, <2>1
    <3>2. nodes[f].len = Len(text[f]) + 1 /\ Holds(bytes, text[f])
      BY <3>1 DEF IInv, Whole
    <3>3. Holds(bytes', text[f] \o t)
      BY <3>1, <3>2, <2>1, <2>16, AppendedHolds
    <3>4. Len(text[f] \o t) = Len(text[f]) + m /\ Len(text[f]) \in Nat
      BY <2>16, <2>2
    <3>5. nodes'[f].len = Len(text[f]) + 1 + m
      BY <3>2, <2>2, <2>7, <2>8
    <3>6. m \in Nat /\ text'[f] = text[f] \o t
      BY <2>2, <2>17
    <3> HIDE DEF m
    <3> DEFINE k == Len(text[f])
    <3>7. nodes'[f].len = k + 1 + m /\ Len(text'[f]) = k + m /\ k \in Nat
      BY <3>4, <3>5, <3>6
    <3> HIDE DEF k
    <3>8. nodes'[f].len = Len(text'[f]) + 1
      BY <3>6, <3>7
    <3> QED BY <3>3, <3>6, <3>8
  <2>19. Names' = Names /\ tidy' \in BOOLEAN
    BY <2>1, <2>8 DEF Names, IInv
  <2> QED BY <1>1, <1>3, <2>1, <2>3, <2>6, <2>8, <2>10, <2>13, <2>14, <2>15, <2>17, <2>18, <2>19
          DEF IInv, c
<1> QED BY <1>2, <1>3

LEMMA StepPreservesIInv ==
  ASSUME IInv, [Next]_vars
  PROVE  IInv'
<1>1. CASE fs_init
  BY <1>1, MountIsSafe
<1>2. ASSUME NEW p \in Paths, fopen(p)
      PROVE  IInv'
  <2>1. handles' \subseteq Names /\ UNCHANGED <<mem, nodes, tree, hist>>
        /\ status' \in {"up", "lost"}
    BY <1>2 DEF fopen, Unassigned, locate_file, IInv
  <2> QED BY <2>1, QuietStepIsSafe
<1>3. ASSUME NEW p \in Paths, fcreate(p)
      PROVE  IInv'
  <2> DEFINE r == parse_path(p, mounted)
  <2>1. CASE r.kind = "file" /\ NULL \notin {ForByte.ptr, ForNode.ptr} /\ AddFile(r.file)
             /\ UNCHANGED <<status, mounted, pool, handles, got>>
    <3>1. r.file \in Seq(Char)
      BY <2>1, FileNameIsName, VfsAssumption
    <3> QED BY <2>1, <3>1, AddFileIsSafe
  <2>2. CASE /\ status' = "halted" /\ UNCHANGED <<mem, children, nodes, hist>>
             /\ UNCHANGED <<mounted, pool, handles, got>>
    BY <2>2, QuietStepIsSafe DEF tree, IInv
  <2>3. CASE Unassigned
    BY <2>3, QuietStepIsSafe DEF Unassigned, IInv
  <2> QED BY <1>3, <2>1, <2>2, <2>3 DEF fcreate
<1>4. ASSUME NEW f \in handles
      PROVE  /\ nodes[f].len \in Nat \ {0}
             /\ \A o \in 0 .. nodes[f].len : fseek_set(f, o) => IInv'
             /\ fclose(f) => IInv'
             /\ fseek_end(f) => IInv'
  <2>1. nodes[f] \in Node
    BY DEF IInv, Names
  <2>2. nodes[f].len \in Nat \ {0}
    BY <2>1 DEF Node
  <2>3. 0 \in 0 .. nodes[f].len /\ nodes[f].len - 1 \in 0 .. nodes[f].len
    BY <2>2
  <2>4. ASSUME NEW o \in 0 .. nodes[f].len, fseek_set(f, o)
        PROVE  IInv'
    BY <2>4, SeekIsSafe DEF fseek_set
  <2>5. ASSUME fclose(f) PROVE IInv'
    <3>1. handles' \subseteq handles /\ nodes' = [nodes EXCEPT ![f].off = 0]
          /\ UNCHANGED <<mem, tree, hist, status>>
      BY <2>5 DEF fclose
    <3> QED BY <3>1, <2>3, SeekIsSafe
  <2>6. ASSUME fseek_end(f) PROVE IInv'
    <3>1. handles' \subseteq handles /\ nodes' = [nodes EXCEPT ![f].off = nodes[f].len - 1]
          /\ UNCHANGED <<mem, tree, hist, status>>
      BY <2>6 DEF fseek_end
    <3> QED BY <3>1, <2>3, SeekIsSafe
  <2> QED BY <2>2, <2>4, <2>5, <2>6
<1>5. ASSUME NEW f \in handles, NEW t \in Texts, fwrite(f, t)
      PROVE  IInv'
  BY <1>5, WriteIsSafe
<1>6. ASSUME NEW f \in handles, NEW n \in Lens, fread(f, n)
      PROVE  IInv'
  BY <1>6, QuietStepIsSafe DEF fread, IInv
<1>7. CASE UNCHANGED vars
  BY <1>7, QuietStepIsSafe DEF vars, IInv
<1> QED BY <1>1, <1>2, <1>3, <1>4, <1>5, <1>6, <1>7 DEF Next

THEOREM InvariantHolds == Spec => []IInv
<1>1. Init => IInv
  BY InitEstablishesIInv
<1>2. IInv /\ [Next]_vars => IInv'
  BY StepPreservesIInv
<1> QED BY <1>1, <1>2, PTL DEF Spec
-----------------------------------------------------------------------------
\* The variables keep their types; in particular no file is ever empty, so that
\* seeking to its end stays inside it.
THEOREM TypeCorrect == Spec => []TypeOK
<1>1. IInv => TypeOK
  <2> SUFFICES ASSUME IInv PROVE TypeOK
    OBVIOUS
  <2>1. slot \in {NULL} \cup DOMAIN heap.blocks
    BY DEF IInv, BlocksApart
  <2> QED BY <2>1 DEF IInv, TypeOK, Node, WellFormed
<1> QED BY <1>1, InvariantHolds, PTL

\* No write of a caller that seeks inside its file leaves the buffer it asked
\* for, through however old a handle.
THEOREM WritesFit == Spec => []NoOverrun
<1>1. IInv => NoOverrun
  BY DEF IInv, NoOverrun
<1> QED BY <1>1, InvariantHolds, PTL

\* The buffer that all files share is no node's memory and is as long as the
\* heap believes: krealloc's freed blocks are never handed out again.
THEOREM BufferStaysPrivate == Spec => []BufferIsPrivate
<1>1. IInv => BufferIsPrivate
  BY DEF IInv, BufferIsPrivate, BlocksApart, WellFormed, AllUsed, Names
<1> QED BY <1>1, InvariantHolds, PTL

\* A file that was only appended to at its EOF reads back as what was written.
THEOREM AppendsReadBack == Spec => []AppendedReadsBack
<1>1. IInv => AppendedReadsBack
  <2> SUFFICES ASSUME IInv, children # NULL, tidy
               PROVE  SubSeq(bytes, 1, nodes[children].len) = Append(text[children], EOF)
    BY DEF AppendedReadsBack
  <2> DEFINE u == text[children]
             k == Len(u)
  <2>1. children \in 1 .. Len(text) /\ u \in Seq(Char) /\ bytes \in Seq(Char) /\ k \in Nat
    BY DEF IInv, Names
  <2>2. nodes[children].len = k + 1 /\ k < Len(bytes) /\ bytes[k + 1] = EOF
        /\ \A i \in 1 .. k : bytes[i] = u[i]
    BY DEF IInv, Whole, Holds
  <2> HIDE DEF u
  <2>3. /\ Append(u, EOF) \in Seq(Char) /\ Len(Append(u, EOF)) = k + 1
        /\ \A i \in 1 .. k : Append(u, EOF)[i] = u[i]
        /\ Append(u, EOF)[k + 1] = EOF
    BY <2>1, Characters
  <2> HIDE DEF k
  <2>4. /\ SubSeq(bytes, 1, k + 1) \in Seq(Char) /\ Len(SubSeq(bytes, 1, k + 1)) = k + 1
        /\ \A i \in 1 .. k + 1 : SubSeq(bytes, 1, k + 1)[i] = bytes[i]
    BY <2>1, <2>2
  <2>5. \A i \in 1 .. k + 1 : i \in 1 .. k \/ i = k + 1
    BY <2>1
  <2>6. \A i \in 1 .. k + 1 : SubSeq(bytes, 1, k + 1)[i] = Append(u, EOF)[i]
    BY <2>2, <2>3, <2>4, <2>5
  <2>7. SubSeq(bytes, 1, k + 1) = Append(u, EOF)
    BY <2>3, <2>4, <2>6
  <2> QED BY <2>2, <2>7 DEF u
<1> QED BY <1>1, InvariantHolds, PTL
-----------------------------------------------------------------------------
(* Paths                                                                   *)

Within(p, c) == c \in {p[i] : i \in 1 .. Len(p)}

Parts(z, f, g, C) ==
    /\ z \in Seq(C) /\ Len(z) = Len(f) + Len(g) + 2
    /\ z[1] = Slash /\ z[Len(f) + 2] = Slash
    /\ \A i \in 1 .. Len(f) : z[i + 1] = f[i]
    /\ \A i \in 1 .. Len(g) : z[Len(f) + 2 + i] = g[i]

\* Where the parts of a file's path are.
LEMMA PathParts ==
  ASSUME NEW C, Slash \in C, NEW f \in Seq(C), NEW g \in Seq(C)
  PROVE  Parts(FilePath(f, g), f, g, C)
<1> DEFINE s == <<Slash>>
           a == s \o f
           b == a \o s
           d == b \o g
<1>1. s \in Seq(C) /\ Len(s) = 1 /\ s[1] = Slash
  OBVIOUS
<1>2. Len(f) \in Nat /\ Len(g) \in Nat
  OBVIOUS
<1> HIDE DEF s
<1>3. /\ a \in Seq(C) /\ Len(a) = 1 + Len(f)
      /\ \A i \in 1 .. 1 + Len(f) : a[i] = IF i <= 1 THEN s[i] ELSE f[i - 1]
  <2>1. /\ a \in Seq(C) /\ Len(a) = Len(s) + Len(f)
        /\ \A i \in 1 .. Len(s) + Len(f) : a[i] = IF i <= Len(s) THEN s[i] ELSE f[i - Len(s)]
    BY <1>1, ConcatProperties, Zenon
  <2> QED BY <1>1, <2>1, Zenon
<1> HIDE DEF a
<1>4. /\ b \in Seq(C) /\ Len(b) = (1 + Len(f)) + 1
      /\ \A i \in 1 .. (1 + Len(f)) + 1 : b[i] = IF i <= 1 + Len(f) THEN a[i] ELSE s[i - (1 + Len(f))]
  <2>1. /\ b \in Seq(C) /\ Len(b) = Len(a) + Len(s)
        /\ \A i \in 1 .. Len(a) + Len(s) : b[i] = IF i <= Len(a) THEN a[i] ELSE s[i - Len(a)]
    BY <1>1, <1>3, ConcatProperties, Zenon
  <2> QED BY <1>1, <1>3, <2>1, Zenon
<1> HIDE DEF b
<1>5. /\ d \in Seq(C) /\ Len(d) = ((1 + Len(f)) + 1) + Len(g)
      /\ \A i \in 1 .. ((1 + Len(f)) + 1) + Len(g) :
             d[i] = IF i <= (1 + Len(f)) + 1 THEN b[i] ELSE g[i - ((1 + Len(f)) + 1)]
  <2>1. /\ d \in Seq(C) /\ Len(d) = Len(b) + Len(g)
        /\ \A i \in 1 .. Len(b) + Len(g) : d[i] = IF i <= Len(b) THEN b[i] ELSE g[i - Len(b)]
    <3>1. b \in Seq(C)
      BY <1>4
    <3> QED BY <3>1, ConcatProperties
  <2> QED BY <1>4, <2>1, Zenon
<1> HIDE DEF d
<1>6. Len(d) = Len(f) + Len(g) + 2
  BY <1>2, <1>5
<1>7. d[1] = Slash
  BY <1>1, <1>2, <1>3, <1>4, <1>5
<1>8. d[Len(f) + 2] = Slash
  <2>1. d[Len(f) + 2] = b[Len(f) + 2]
    BY <1>2, <1>5
  <2>2. b[Len(f) + 2] = s[1]
    BY <1>2, <1>4
  <2> QED BY <1>1, <2>1, <2>2
<1>9. \A i \in 1 .. Len(f) : d[i + 1] = f[i]
  <2> TAKE i \in 1 .. Len(f)
  <2>1. d[i + 1] = b[i + 1]
    BY <1>2, <1>5
  <2>2. b[i + 1] = a[i + 1]
    BY <1>2, <1>4
  <2>3. a[i + 1] = f[i]
    <3>1. i + 1 \in 1 .. 1 + Len(f) /\ ~ (i + 1 <= 1) /\ (i + 1) - 1 = i
      BY <1>2
    <3>2. a[i + 1] = f[(i + 1) - 1]
      BY <1>3, <3>1, Zenon
    <3> QED BY <3>1, <3>2
  <2> QED BY <2>1, <2>2, <2>3
<1>10. \A i \in 1 .. Len(g) : d[Len(f) + 2 + i] = g[i]
  <2> TAKE i \in 1 .. Len(g)
  <2>1. /\ Len(f) + 2 + i \in 1 .. ((1 + Len(f)) + 1) + Len(g)
        /\ ~ (Len(f) + 2 + i <= (1 + Len(f)) + 1)
        /\ (Len(f) + 2 + i) - ((1 + Len(f)) + 1) = i
    BY <1>2
  <2>2. d[Len(f) + 2 + i] = g[(Len(f) + 2 + i) - ((1 + Len(f)) + 1)]
    BY <1>5, <2>1, Zenon
  <2> QED BY <2>1, <2>2
<1>11. FilePath(f, g) = d
  BY DEF FilePath, d, b, a, s
<1>12. Parts(d, f, g, C)
  BY <1>5, <1>6, <1>7, <1>8, <1>9, <1>10 DEF Parts
<1> QED BY <1>11, <1>12

\* The first loop stops at the first slash, or at the end.
LEMMA StopIsFirstSlash ==
  ASSUME NEW C, NEW p \in Seq(C), p # <<>>
  PROVE  /\ Stop(p) \in 1 .. Len(p) /\ Len(p) \in Nat \ {0}
         /\ Stop(p) < Len(p) => p[Stop(p)] = Slash
         /\ \A i \in 1 .. Len(p) : p[i] = Slash => Stop(p) <= i
<1> DEFINE T == {k \in 1 .. Len(p) : p[k] = Slash} \cup {Len(p)}
<1>1. Len(p) \in Nat \ {0}
  OBVIOUS
<1>2. T \subseteq 1 .. Len(p) /\ T # {} /\ T \subseteq Nat
  BY <1>1
<1>3. Min(T) \in T /\ \A y \in T : Min(T) <= y
  BY <1>2, MinProperties
<1>4. Stop(p) = Min(T)
  BY DEF Stop
<1> HIDE DEF Stop
<1> QED BY <1>1, <1>2, <1>3, <1>4

\* What becomes of a path without its first slash.
Parsed(p, m) ==
    IF Stop(p) > MaxName THEN Failure
    ELSE IF Stop(p) >= Len(p) THEN [kind |-> "folder", folder |-> FolderName(p)]
    ELSE IF \/ FolderName(p) \notin m \/ Within(FileName(p), Slash)
            \/ Len(FileName(p)) > MaxName
         THEN Failure
         ELSE [kind |-> "file", folder |-> FolderName(p), file |-> FileName(p)]

\* What parse_path does with a path that is more than a slash.
LEMMA ParsedPath ==
  ASSUME NEW C, NEW path \in Seq(C), NEW m, NEW p, path # <<>>, Head(path) = Slash,
         p = Tail(path), p # <<>>
  PROVE  parse_path(path, m) = Parsed(p, m)
<1>1. p \in Seq(C)
  OBVIOUS
<1>2. Stop(p) \in Nat /\ Len(p) \in Nat /\ MaxName \in Nat
  <2>1. Stop(p) \in 1 .. Len(p) /\ Len(p) \in Nat \ {0}
    BY <1>1, StopIsFirstSlash
  <2> QED BY <2>1, NameAssumption
<1> DEFINE st == Stop(p)
           fo == FolderName(p)
           fi == FileName(p)
           wi == Slash \in {fi[k] : k \in 1 .. Len(fi)}
           lo == Len(fi) > MaxName
<1>3. wi <=> Within(fi, Slash)
  BY DEF Within
<1>4. parse_path(path, m) =
        CASE p = <<>> -> [kind |-> "unset"]
          [] p # <<>> /\ st > MaxName -> Failure
          [] p # <<>> /\ st <= MaxName /\ st >= Len(p) -> [kind |-> "folder", folder |-> fo]
          [] OTHER -> IF fo \notin m \/ wi \/ lo THEN Failure
                      ELSE [kind |-> "file", folder |-> fo, file |-> fi]
  BY DEF parse_path
<1> HIDE DEF st, fo, fi, wi, lo
<1>5. st \in Nat
  BY <1>2 DEF st
<1>6. parse_path(path, m) =
        IF st > MaxName THEN Failure
        ELSE IF st >= Len(p) THEN [kind |-> "folder", folder |-> fo]
        ELSE IF fo \notin m \/ wi \/ lo THEN Failure
        ELSE [kind |-> "file", folder |-> fo, file |-> fi]
  BY <1>2, <1>4, <1>5
<1>7. parse_path(path, m) =
        IF Stop(p) > MaxName THEN Failure
        ELSE IF Stop(p) >= Len(p) THEN [kind |-> "folder", folder |-> FolderName(p)]
        ELSE IF \/ FolderName(p) \notin m \/ Within(FileName(p), Slash)
                \/ Len(FileName(p)) > MaxName
             THEN Failure
             ELSE [kind |-> "file", folder |-> FolderName(p), file |-> FileName(p)]
  BY <1>3, <1>6, Zenon DEF st, fo, fi, wi, lo
<1> QED BY <1>7 DEF Parsed

IsPiece(z, p, a, w) == Len(z) = w /\ \A i \in 1 .. w : z[i] = p[a + i - 1]

\* A piece of a sequence, place by place.
LEMMA PieceOf ==
  ASSUME NEW C, NEW p \in Seq(C), NEW a \in 1 .. Len(p) + 1, NEW b \in 0 .. Len(p),
         NEW z, z = SubSeq(p, a, b), NEW w \in Nat, w = b - a + 1
  PROVE  z \in Seq(C) /\ IsPiece(z, p, a, w)
<1>1. a \in Int /\ b \in Int /\ Len(p) \in Nat
  OBVIOUS
<1>2. \A i \in a .. b : p[i] \in C
  <2> TAKE i \in a .. b
  <2>1. i \in 1 .. Len(p)
    BY <1>1
  <2> QED BY <2>1
<1>3. /\ SubSeq(p, a, b) \in Seq(C)
      /\ Len(SubSeq(p, a, b)) = IF a <= b THEN b - a + 1 ELSE 0
      /\ \A i \in 1 .. b - a + 1 : SubSeq(p, a, b)[i] = p[a + i - 1]
  BY <1>1, <1>2, SubSeqProperties
<1>4. Len(z) = w
  BY <1>1, <1>3
<1> QED BY <1>3, <1>4 DEF IsPiece

\* The parts into which parse_path cuts a path.
LEMMA PathIsJoined ==
  ASSUME NEW C, Slash \in C, NEW path \in Seq(C), NEW p, path # <<>>, Head(path) = Slash,
         p = Tail(path), p # <<>>, Stop(p) < Len(p)
  PROVE  /\ path = FilePath(FolderName(p), FileName(p))
         /\ FolderName(p) \in Seq(C) /\ FileName(p) \in Seq(C)
         /\ Len(FolderName(p)) = Stop(p) - 1 /\ Len(FileName(p)) = Len(p) - Stop(p)
         /\ ~ Within(FolderName(p), Slash)
<1>0. PICK k, n, f, g : k = Stop(p) /\ n = Len(p) /\ f = FolderName(p) /\ g = FileName(p)
  OBVIOUS
<1>1. p \in Seq(C) /\ Len(path) = n + 1 /\ \A i \in 1 .. n : p[i] = path[i + 1]
  BY <1>0
<1>2. /\ k \in 1 .. n /\ n \in Nat \ {0} /\ p[k] = Slash
      /\ \A i \in 1 .. n : p[i] = Slash => k <= i
  <2>1. /\ Stop(p) \in 1 .. Len(p) /\ Len(p) \in Nat \ {0}
        /\ Stop(p) < Len(p) => p[Stop(p)] = Slash
        /\ \A i \in 1 .. Len(p) : p[i] = Slash => Stop(p) <= i
    BY <1>1, StopIsFirstSlash
  <2> QED BY <1>0, <2>1
<1>3. path[1] = Slash
  OBVIOUS
<1>4. k \in Nat /\ k >= 1 /\ k < n /\ n \in Nat
  BY <1>0, <1>2
<1>5. f \in Seq(C) /\ Len(f) = k - 1 /\ \A i \in 1 .. k - 1 : f[i] = p[i]
  <2>1. 1 \in 1 .. Len(p) + 1 /\ k - 1 \in 0 .. Len(p) /\ k - 1 \in Nat
        /\ k - 1 = (k - 1) - 1 + 1
    BY <1>0, <1>4
  <2>2. f = SubSeq(p, 1, k - 1)
    BY <1>0 DEF FolderName
  <2>3. /\ f \in Seq(C) /\ Len(f) = k - 1
        /\ \A i \in 1 .. k - 1 : f[i] = p[1 + i - 1]
    <3>1. f \in Seq(C) /\ IsPiece(f, p, 1, k - 1)
      BY <1>1, <2>1, <2>2, PieceOf
    <3> QED BY <3>1 DEF IsPiece
  <2>4. \A i \in 1 .. k - 1 : 1 + i - 1 = i
    BY <1>4
  <2> QED BY <2>3, <2>4
<1>6. g \in Seq(C) /\ Len(g) = n - k /\ \A i \in 1 .. n - k : g[i] = p[k + i]
  <2>1. k + 1 \in 1 .. Len(p) + 1 /\ n \in 0 .. Len(p) /\ n - k \in Nat
        /\ n - k = n - (k + 1) + 1
    BY <1>0, <1>4
  <2>2. g = SubSeq(p, k + 1, n)
    BY <1>0 DEF FileName
  <2>3. /\ g \in Seq(C) /\ Len(g) = n - k
        /\ \A i \in 1 .. n - k : g[i] = p[(k + 1) + i - 1]
    <3>1. g \in Seq(C) /\ IsPiece(g, p, k + 1, n - k)
      BY <1>1, <2>1, <2>2, PieceOf
    <3> QED BY <3>1 DEF IsPiece
  <2>4. \A i \in 1 .. n - k : (k + 1) + i - 1 = k + i
    BY <1>4
  <2> QED BY <2>3, <2>4
<1>7. path = FilePath(f, g)
  <2>0. PICK z : z = FilePath(f, g)
    OBVIOUS
  <2>1. /\ z \in Seq(C) /\ Len(z) = Len(f) + Len(g) + 2 /\ z[1] = Slash /\ z[Len(f) + 2] = Slash
        /\ \A i \in 1 .. Len(f) : z[i + 1] = f[i]
        /\ \A i \in 1 .. Len(g) : z[Len(f) + 2 + i] = g[i]
    <3>1. Slash \in C /\ f \in Seq(C) /\ g \in Seq(C)
      BY <1>5, <1>6
    <3>2. Parts(z, f, g, C)
      BY <2>0, <3>1, PathParts
    <3> QED BY <3>2 DEF Parts
  <2>2. Len(z) = n + 1 /\ Len(path) = n + 1
    BY <1>1, <1>4, <1>5, <1>6, <2>1, <1>0
  <2>3. \A i \in 1 .. n + 1 : path[i] = z[i]
    <3> TAKE i \in 1 .. n + 1
    <3>1. CASE i = 1
      BY <1>3, <2>1, <3>1
    <3>2. CASE i > 1
      <4> DEFINE j == i - 1
      <4>1. j \in 1 .. n /\ i = j + 1
        BY <1>4, <3>2
      <4> HIDE DEF j
      <4>2. path[i] = p[j]
        BY <1>1, <4>1, <1>0
      <4>3. CASE j < k
        <5>1. j \in 1 .. k - 1 /\ j \in 1 .. Len(f)
          BY <1>4, <1>5, <4>1, <4>3
        <5>2. z[j + 1] = f[j] /\ f[j] = p[j]
          BY <1>5, <2>1, <5>1
        <5> QED BY <4>1, <4>2, <5>2
      <4>4. CASE j = k
        <5>1. i = Len(f) + 2
          BY <1>4, <1>5, <4>1, <4>4
        <5> QED BY <1>2, <2>1, <4>2, <4>4, <5>1
      <4>5. CASE j > k
        <5> DEFINE q == j - k
        <5>1. q \in 1 .. n - k /\ j = k + q /\ i = Len(f) + 2 + q /\ q \in 1 .. Len(g)
          BY <1>4, <1>5, <1>6, <4>1, <4>5
        <5> HIDE DEF q
        <5>2. z[Len(f) + 2 + q] = g[q] /\ g[q] = p[k + q]
          BY <1>6, <2>1, <5>1
        <5> QED BY <4>2, <5>1, <5>2
      <4> QED BY <1>4, <4>1, <4>3, <4>4, <4>5
    <3> QED BY <1>4, <3>1, <3>2
  <2>4. path = z
    BY <2>1, <2>2, <2>3, SeqEqual
  <2> QED BY <2>0, <2>4
<1>8. ~ Within(f, Slash)
  <2>1. ASSUME NEW i \in 1 .. Len(f), f[i] = Slash PROVE FALSE
    <3>1. i \in 1 .. k - 1 /\ i \in 1 .. n /\ i < k
      BY <1>4, <1>5
    <3>2. p[i] = Slash
      BY <1>5, <2>1, <3>1
    <3>3. k <= i
      BY <1>2, <3>1, <3>2
    <3> QED BY <1>4, <3>1, <3>3
  <2> QED BY <2>1 DEF Within
<1> QED BY <1>0, <1>5, <1>6, <1>7, <1>8, Zenon

Cut(path, p, f, g) ==
    /\ path # <<>> /\ Head(path) = Slash /\ p # <<>>
    /\ Stop(p) = Len(f) + 1 /\ Len(p) = Len(f) + 1 + Len(g)
    /\ FolderName(p) = f /\ FileName(p) = g

\* Of a path put together from a folder and a name these are the parts.
LEMMA JoinedPathIsCut ==
  ASSUME NEW C, Slash \in C, NEW f \in Seq(C), NEW g \in Seq(C), ~ Within(f, Slash),
         NEW path, path = FilePath(f, g), NEW p, p = Tail(path)
  PROVE  path \in Seq(C) /\ Cut(path, p, f, g)
<1>0. PICK k, l : k = Len(f) /\ l = Len(g)
  OBVIOUS
<1>1. k \in Nat /\ l \in Nat
  BY <1>0
<1>2. /\ path \in Seq(C) /\ Len(path) = k + l + 2 /\ path[1] = Slash /\ path[k + 2] = Slash
      /\ \A i \in 1 .. k : path[i + 1] = f[i]
      /\ \A i \in 1 .. l : path[k + 2 + i] = g[i]
  <2>1. /\ path \in Seq(C) /\ Len(path) = Len(f) + Len(g) + 2
        /\ path[1] = Slash /\ path[Len(f) + 2] = Slash
        /\ \A i \in 1 .. Len(f) : path[i + 1] = f[i]
        /\ \A i \in 1 .. Len(g) : path[Len(f) + 2 + i] = g[i]
    <3>1. Parts(path, f, g, C)
      BY PathParts
    <3> QED BY <3>1 DEF Parts
  <2> QED BY <1>0, <2>1
<1>3. path # <<>> /\ Head(path) = Slash
  <2>1. Len(path) # 0
    BY <1>1, <1>2
  <2> QED BY <1>2, <2>1
<1>4. /\ p \in Seq(C) /\ Len(p) = k + l + 1 /\ \A i \in 1 .. k + l + 1 : p[i] = path[i + 1]
  <2>1. /\ p \in Seq(C) /\ Len(p) = Len(path) - 1 /\ \A i \in 1 .. Len(p) : p[i] = path[i + 1]
    BY <1>2, <1>3, HeadTailProperties
  <2> QED BY <1>1, <1>2, <2>1
<1>5. p # <<>>
  <2>1. Len(p) # 0
    BY <1>1, <1>4
  <2> QED BY <2>1
<1>6. p[k + 1] = Slash /\ \A i \in 1 .. k : p[i] = f[i]
  BY <1>1, <1>2, <1>4
<1>7. \A i \in 1 .. l : p[k + 1 + i] = g[i]
  <2> TAKE i \in 1 .. l
  <2>1. p[k + 1 + i] = path[(k + 1 + i) + 1] /\ (k + 1 + i) + 1 = k + 2 + i
    BY <1>1, <1>4
  <2> QED BY <1>2, <2>1
<1>8. /\ Stop(p) \in 1 .. Len(p) /\ (Stop(p) < Len(p) => p[Stop(p)] = Slash)
      /\ \A i \in 1 .. Len(p) : p[i] = Slash => Stop(p) <= i
  BY <1>4, <1>5, StopIsFirstSlash
<1>9. Stop(p) = k + 1
  <2>1. Stop(p) <= k + 1
    BY <1>1, <1>4, <1>6, <1>8
  <2>2. ASSUME Stop(p) <= k PROVE FALSE
    <3>1. Stop(p) \in 1 .. k /\ Stop(p) < Len(p)
      BY <1>1, <1>4, <1>8, <2>2
    <3>2. f[Stop(p)] = Slash
      BY <1>6, <1>8, <3>1
    <3> QED BY <1>0, <3>1, <3>2 DEF Within
  <2> QED BY <1>1, <1>4, <1>8, <2>1, <2>2
<1>10. FolderName(p) = f
  <2>1. PICK z : z = SubSeq(p, 1, k)
    OBVIOUS
  <2>2. 1 \in 1 .. Len(p) + 1 /\ k \in 0 .. Len(p) /\ k \in Nat /\ k = k - 1 + 1
    BY <1>1, <1>4
  <2>3. /\ z \in Seq(C) /\ Len(z) = k
        /\ \A i \in 1 .. k : z[i] = p[1 + i - 1]
    <3>1. z \in Seq(C) /\ IsPiece(z, p, 1, k)
      BY <1>4, <2>1, <2>2, PieceOf
    <3> QED BY <3>1 DEF IsPiece
  <2>4. \A i \in 1 .. k : z[i] = f[i]
    <3> TAKE i \in 1 .. k
    <3>1. 1 + i - 1 = i
      BY <1>1
    <3> QED BY <1>6, <2>3, <3>1
  <2>5. z = f
    BY <1>0, <2>3, <2>4, SeqEqual
  <2>6. FolderName(p) = SubSeq(p, 1, Stop(p) - 1) /\ Stop(p) - 1 = k
    BY <1>1, <1>9 DEF FolderName
  <2> QED BY <2>1, <2>5, <2>6
<1>11. FileName(p) = g
  <2>0. PICK m, n : m = k + 2 /\ n = k + l + 1
    OBVIOUS
  <2>1. PICK z : z = SubSeq(p, m, n)
    OBVIOUS
  <2>2. m \in 1 .. Len(p) + 1 /\ n \in 0 .. Len(p) /\ l \in Nat /\ l = n - m + 1
    BY <1>1, <1>4, <2>0
  <2>3. z \in Seq(C) /\ Len(z) = l /\ \A i \in 1 .. l : z[i] = p[m + i - 1]
    <3>1. z \in Seq(C) /\ IsPiece(z, p, m, l)
      BY <1>4, <2>1, <2>2, PieceOf
    <3> QED BY <3>1 DEF IsPiece
  <2>4. \A i \in 1 .. l : z[i] = g[i]
    <3> TAKE i \in 1 .. l
    <3>1. m + i - 1 = k + 1 + i
      BY <1>1, <2>0
    <3> QED BY <1>7, <2>3, <3>1
  <2>5. z = g
    BY <1>0, <2>3, <2>4, SeqEqual
  <2>6. FileName(p) = SubSeq(p, Stop(p) + 1, Len(p)) /\ Stop(p) + 1 = m
        /\ Len(p) = n
    BY <1>1, <1>4, <1>9, <2>0 DEF FileName
  <2> QED BY <2>1, <2>5, <2>6
<1>12. Len(p) = Len(f) + 1 + Len(g)
  BY <1>0, <1>1, <1>4
<1> QED BY <1>0, <1>2, <1>3, <1>5, <1>9, <1>10, <1>11, <1>12, Zenon DEF Cut

\* Names that parse_path takes: of a mounted folder, not too long, of one level.
Named(f, g, m) == /\ f \in m /\ ~ Within(f, Slash) /\ Len(f) < MaxName
                  /\ ~ Within(g, Slash) /\ Len(g) \in 1 .. MaxName

\* parse_path finds a file exactly under its full path: the path of a mounted
\* folder and a name in it is cut into these two, and no other path is taken for
\* a file, whatever its length and wherever its slashes are.
THEOREM FilesAreFound ==
  ASSUME NEW C, Slash \in C, NEW path \in Seq(C), NEW m, NEW f \in Seq(C), NEW g \in Seq(C)
  PROVE  parse_path(path, m) = [kind |-> "file", folder |-> f, file |-> g]
            <=> path = FilePath(f, g) /\ Named(f, g, m)
<1> DEFINE answer == [kind |-> "file", folder |-> f, file |-> g]
<1>1. MaxName \in Nat /\ Len(f) \in Nat /\ Len(g) \in Nat
  BY NameAssumption
<1>2. ASSUME parse_path(path, m) = answer PROVE path = FilePath(f, g) /\ Named(f, g, m)
  <2>1. path # <<>> /\ Head(path) = Slash /\ Tail(path) # <<>>
    BY <1>2 DEF parse_path, Failure
  <2>2. PICK p : p = Tail(path)
    OBVIOUS
  <2>3. parse_path(path, m) = Parsed(p, m)
    BY <2>1, <2>2, ParsedPath
  <2>4. /\ ~ (Stop(p) > MaxName) /\ ~ (Stop(p) >= Len(p))
        /\ FolderName(p) \in m /\ ~ Within(FileName(p), Slash) /\ ~ (Len(FileName(p)) > MaxName)
        /\ FolderName(p) = f /\ FileName(p) = g
    BY <1>2, <2>3 DEF Failure, Parsed
  <2>5. Stop(p) \in Nat /\ Len(p) \in Nat
    <3>1. p \in Seq(C) /\ p # <<>>
      BY <2>1, <2>2
    <3>2. Stop(p) \in 1 .. Len(p)
      BY <3>1, StopIsFirstSlash
    <3> QED BY <3>1, <3>2
  <2>6. /\ path = FilePath(FolderName(p), FileName(p)) /\ ~ Within(FolderName(p), Slash)
        /\ Len(FolderName(p)) = Stop(p) - 1 /\ Len(FileName(p)) = Len(p) - Stop(p)
    <3>1. Stop(p) < Len(p)
      BY <2>4, <2>5
    <3> QED BY <2>1, <2>2, <3>1, PathIsJoined
  <2>7. Len(f) < MaxName /\ Len(g) \in 1 .. MaxName
    BY <1>1, <2>4, <2>5, <2>6
  <2> QED BY <2>4, <2>6, <2>7 DEF Named
<1>3. ASSUME path = FilePath(f, g), Named(f, g, m) PROVE parse_path(path, m) = answer
  <2>1. PICK p : p = Tail(path)
    OBVIOUS
  <2>2. ~ Within(f, Slash)
    BY <1>3 DEF Named
  <2>3. /\ path # <<>> /\ Head(path) = Slash /\ p # <<>>
        /\ Stop(p) = Len(f) + 1 /\ Len(p) = Len(f) + 1 + Len(g)
        /\ FolderName(p) = f /\ FileName(p) = g
    <3>1. Cut(path, p, f, g)
      BY <1>3, <2>1, <2>2, JoinedPathIsCut
    <3> QED BY <3>1 DEF Cut
  <2>4. parse_path(path, m) = Parsed(p, m)
    BY <2>1, <2>3, ParsedPath
  <2>5. ~ (Stop(p) > MaxName) /\ ~ (Stop(p) >= Len(p)) /\ ~ (Len(g) > MaxName)
    BY <1>1, <1>3, <2>3 DEF Named
  <2> QED BY <1>3, <2>3, <2>4, <2>5 DEF Named, Parsed
<1> QED BY <1>2, <1>3

\* The path of a folder names it if it ends in a slash, mounted or not.
THEOREM FoldersAreNamed ==
  ASSUME NEW C, Slash \in C, NEW m, NEW f \in Seq(C), ~ Within(f, Slash), Len(f) < MaxName
  PROVE  parse_path(FilePath(f, <<>>), m) = [kind |-> "folder", folder |-> f]
<1>1. PICK path, p : path = FilePath(f, <<>>) /\ p = Tail(path)
  OBVIOUS
<1>2. <<>> \in Seq(C) /\ Len(<<>>) = 0 /\ Len(f) \in Nat /\ MaxName \in Nat
  BY NameAssumption
<1>3. PICK g : g = <<>>
  OBVIOUS
<1>4. /\ path \in Seq(C) /\ path # <<>> /\ Head(path) = Slash /\ p # <<>>
      /\ Stop(p) = Len(f) + 1 /\ Len(p) = Len(f) + 1 + Len(g)
      /\ FolderName(p) = f
  <2>1. g \in Seq(C) /\ path = FilePath(f, g) /\ p = Tail(path)
    BY <1>1, <1>2, <1>3
  <2>2. path \in Seq(C) /\ Cut(path, p, f, g)
    BY <2>1, JoinedPathIsCut
  <2> QED BY <2>2 DEF Cut
<1>5. parse_path(path, m) = Parsed(p, m)
  BY <1>1, <1>4, ParsedPath
<1>6. ~ (Stop(p) > MaxName) /\ Stop(p) >= Len(p)
  BY <1>2, <1>3, <1>4
<1> QED BY <1>1, <1>4, <1>5, <1>6 DEF Parsed

\* The names that are allowed are the words without a slash.
LEMMA NamesAreWords ==
  ASSUME NEW g \in Seq(Letters \cup {Slash})
  PROVE  /\ g \in FileNames => g \in Seq(Letters) /\ Len(g) \in 1 .. MaxName
         /\ ~ Within(g, Slash) => g \in Seq(Letters)
         /\ g \in Seq(Letters) => ~ Within(g, Slash)
         /\ g \in Seq(Letters) /\ Len(g) \in 1 .. MaxName => g \in FileNames
<1>1. Len(g) \in Nat /\ DOMAIN g = 1 .. Len(g) /\ \A i \in 1 .. Len(g) : g[i] \in Letters \cup {Slash}
  OBVIOUS
<1>2. ASSUME g \in FileNames PROVE g \in Seq(Letters) /\ Len(g) \in 1 .. MaxName
  <2>1. PICK n \in 1 .. MaxName : g \in [1 .. n -> Letters]
    BY <1>2 DEF FileNames
  <2>2. g \in Seq(Letters) /\ Len(g) = n
    BY <2>1, NameAssumption
  <2> QED BY <2>1, <2>2
<1>3. ASSUME ~ Within(g, Slash) PROVE g \in Seq(Letters)
  BY <1>1, <1>3 DEF Within
<1>4. ASSUME g \in Seq(Letters) PROVE ~ Within(g, Slash)
  BY <1>1, <1>4, FoldersAssumption DEF Within
<1>5. ASSUME g \in Seq(Letters), Len(g) \in 1 .. MaxName PROVE g \in FileNames
  <2>1. g \in [1 .. Len(g) -> Letters]
    BY <1>5
  <2> QED BY <1>5, <2>1 DEF FileNames
<1> QED BY <1>2, <1>3, <1>4, <1>5

\* An answer "file" has both names, of the characters of the path.
LEMMA FileAnswers ==
  ASSUME NEW C, NEW path \in Seq(C), NEW m, parse_path(path, m).kind = "file"
  PROVE  \E f \in Seq(C), g \in Seq(C) :
            parse_path(path, m) = [kind |-> "file", folder |-> f, file |-> g]
<1>1. path # <<>> /\ Head(path) = Slash /\ Tail(path) # <<>>
  BY DEF parse_path, Failure
<1>2. PICK p : p = Tail(path)
  OBVIOUS
<1>3. p \in Seq(C) /\ p # <<>> /\ Stop(p) \in 1 .. Len(p)
  <2>1. p \in Seq(C) /\ p # <<>>
    BY <1>1, <1>2
  <2> QED BY <2>1, StopIsFirstSlash
<1>4. FolderName(p) \in Seq(C) /\ FileName(p) \in Seq(C)
  BY <1>3 DEF FolderName, FileName
<1>5. parse_path(path, m) = Parsed(p, m)
  BY <1>1, <1>2, ParsedPath
<1>6. Parsed(p, m) = [kind |-> "file", folder |-> FolderName(p), file |-> FileName(p)]
  BY <1>5 DEF Parsed, Failure
<1> QED BY <1>4, <1>5, <1>6

\* For every path that can be spelt: a file is found under the path that is made
\* of its folder and its name, and under no other.
THEOREM EveryPathIsRead == PathSpec => []PathsAreFound
<1> DEFINE C == Letters \cup {Slash}
           Spelt == spelt \in Seq(C)
<1>1. NoPath => Spelt
  BY DEF NoPath
<1>2. Spelt /\ [LongerPath]_spelt => Spelt'
  BY DEF LongerPath
<1>3. Spelt => PathsAreFound
  <2> SUFFICES ASSUME Spelt PROVE PathsAreFound
    OBVIOUS
  <2>1. PICK m, r : m = Folders \cup {Root} /\ r = parse_path(spelt, m)
    OBVIOUS
  <2>2. \A f \in Folders : f \in m /\ f \in Seq(C) /\ f \in Seq(Letters) /\ Len(f) < MaxName
    BY <2>1, FoldersAssumption
  <2>3. ASSUME r.kind = "file"
        PROVE  /\ spelt = FilePath(r.folder, r.file)
               /\ \E f \in Folders, n \in FileNames : spelt = FilePath(f, n)
    <3>1. PICK f \in Seq(C), g \in Seq(C) : r = [kind |-> "file", folder |-> f, file |-> g]
      <4>1. spelt \in Seq(C) /\ parse_path(spelt, m).kind = "file"
        BY <2>1, <2>3
      <4> HIDE DEF C
      <4> QED BY <2>1, <4>1, FileAnswers
    <3>2. spelt = FilePath(f, g) /\ Named(f, g, m)
      BY <2>1, <3>1, FilesAreFound
    <3>3. f \in Folders
      <4>1. Within(Root, Slash)
        BY DEF Root, Within
      <4> QED BY <2>1, <3>2, <4>1 DEF Named
    <3>4. g \in FileNames
      BY <3>2, NamesAreWords DEF Named
    <3> QED BY <3>1, <3>2, <3>3, <3>4
  <2>4. ASSUME NEW f \in Folders, NEW g \in FileNames, spelt = FilePath(f, g)
        PROVE  r.kind = "file"
    <3>1. g \in Seq(C)
      <4>1. PICK n \in 1 .. MaxName : g \in [1 .. n -> Letters]
        BY DEF FileNames
      <4> QED BY <4>1, NameAssumption
    <3>2. g \in Seq(Letters) /\ Len(g) \in 1 .. MaxName /\ ~ Within(g, Slash)
      BY <3>1, NamesAreWords
    <3>3. ~ Within(f, Slash) /\ f \in Seq(C)
      BY <2>2, NamesAreWords
    <3>4. Named(f, g, m)
      BY <2>2, <3>2, <3>3 DEF Named
    <3>5. parse_path(spelt, m) = [kind |-> "file", folder |-> f, file |-> g]
      BY <2>4, <3>1, <3>3, <3>4, FilesAreFound
    <3> QED BY <2>1, <3>5
  <2>5. ASSUME NEW f \in Folders, spelt = FilePath(f, <<>>)
        PROVE  r = [kind |-> "folder", folder |-> f]
    <3>1. ~ Within(f, Slash) /\ f \in Seq(C) /\ Len(f) < MaxName
      BY <2>2, NamesAreWords
    <3> QED BY <2>1, <2>5, <3>1, FoldersAreNamed
  <2> QED BY <2>1, <2>3, <2>4, <2>5 DEF PathsAreFound
<1> QED BY <1>1, <1>2, <1>3, PTL DEF PathSpec
=============================================================================
