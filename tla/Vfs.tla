---------------------------------- MODULE Vfs ----------------------------------
(***************************************************************************)
(* The virtual file system, fs/vfs.c, with the one file system mounted in  *)
(* it, fs/tmpfs.c, on the kernel heap.                                     *)
(*                                                                         *)
(* A node is named by its place in the order of creation.  tmpfs keeps the *)
(* data pointer of a file in a slot of its pool; mpool_idx never advances, *)
(* so there is one slot, and one buffer, for all files.                    *)
(***************************************************************************)
EXTENDS KHeap, VfsPath

CONSTANTS NodeSize,    \* sizeof(fsnode_t)
          Dir,         \* DIRNAME
          Paths,       \* the paths callers use
          Texts,       \* what callers write
          Lens         \* how much callers read

EOF  == "EOF"
JUNK == "junk"         \* a byte nobody wrote
Char == {EOF, JUNK} \cup STRING
WildName == <<JUNK>>   \* a name whose terminating NUL is not there

ASSUME VfsAssumption ==
    /\ NodeSize \in Nat \ {0} /\ HeapSize + NodeSize < Word /\ HeapSize + 1 < Word
    /\ \A p \in Paths : p \in Seq(Char)
    /\ \A t \in Texts : t \in Seq(Char) /\ 2 * HeapSize + Len(t) + 1 < Word

VARIABLES heap,        \* the kernel heap
          mounted,     \* the names of the roots in the list
          pool,        \* where tmpfs mapped its pool and where it looks for it
          nodes,       \* every file node ever made
          children,    \* the child of tmpfs: the newest node, or NULL
          slot,        \* the data_start of the one slot
          bytes,       \* what that buffer holds
          handles,     \* the FILE pointers callers have
          text,        \* history: what each node was asked to hold
          tidy,        \* history: the newest file was only appended to
          got,         \* what the last read returned
          status       \* "boot", "up", "panic", "halted", "overrun" or "lost"

mem  == <<heap, slot, bytes>>
tree == <<mounted, pool, children>>
hist == <<text, tidy>>
vars == <<mem, tree, nodes, handles, hist, got, status>>

Init == /\ heap = create_heap /\ slot = NULL /\ bytes = <<>>
        /\ mounted = {} /\ pool = [mapped |-> 0, at |-> 0] /\ children = NULL
        /\ nodes = <<>> /\ handles = {} /\ text = <<>> /\ tidy = TRUE /\ got = <<>>
        /\ status = "boot"
-----------------------------------------------------------------------------
(* fs_init of kmain.c: vfs_init and tmpfs_init                             *)

ForRoot == Try(heap, NodeSize)
ForBase == Try(ForRoot.heap, NodeSize)
ForChild == Try(ForBase.heap, NodeSize)

\* TMPFS_POOL_VADDR is a call of pmm_alloc_frame: the address that is mapped,
\* the frame mapped there and the address the pool is used at are three frames,
\* as far as there are any.  0 means that there was none.
PoolFrames == {[i \in 1 .. 3 |-> IF i <= n THEN i ELSE 0] : n \in 0 .. 3}

fs_init ==
    /\ status = "boot"
    /\ IF NULL \in {ForRoot.ptr, ForBase.ptr, ForChild.ptr}
       THEN /\ status' = "panic"
            /\ UNCHANGED <<heap, mounted, pool>>
       ELSE /\ heap' = ForChild.heap
            /\ mounted' = {<<Slash>>, Dir}
            /\ \E f \in PoolFrames :
                  /\ pool' = [mapped |-> f[1], at |-> f[3]]
                  /\ status' = IF f[2] = 0 THEN "panic"          \* -ENOMEM
                               ELSE IF f[3] = 0 THEN "halted"    \* init_mpool at 0
                               ELSE "up"
    /\ UNCHANGED <<slot, bytes, children, nodes, handles, hist, got>>
-----------------------------------------------------------------------------
(* fopen, fclose, fseek                                                    *)

locate_file(name) ==
    IF children # NULL /\ nodes[children].name = name THEN children ELSE NULL

\* *file_out was not assigned, or a name that was never filled in is looked up:
\* whatever the stack holds is taken for a FILE, or nothing is found.
Unassigned == /\ status' \in {"up", "lost"}
              /\ UNCHANGED <<mem, tree, nodes, handles, hist, got>>

\* rlock is only ever set to 0, so no file is ever locked.
fopen(path) ==
    LET r == parse_path(path, mounted)
    IN  /\ status = "up"
        /\ \/ /\ r.kind = "file"
              /\ locate_file(r.file) # NULL
              /\ handles' = handles \cup {locate_file(r.file)}
              /\ UNCHANGED <<mem, tree, nodes, hist, got, status>>
           \/ r.kind \in {"folder", "unset"} /\ Unassigned

\* Whoever else opened the file may still hold the pointer.
fclose(f) ==
    /\ status = "up" /\ f \in handles
    /\ nodes' = [nodes EXCEPT ![f].off = 0]
    /\ handles' \in {handles, handles \ {f}}
    /\ UNCHANGED <<mem, tree, hist, got, status>>

\* Callers stay inside the file: fseek itself takes any offset.
fseek_set(f, offset) ==
    /\ status = "up" /\ f \in handles
    /\ offset \in 0 .. nodes[f].len
    /\ nodes' = [nodes EXCEPT ![f].off = offset]
    /\ UNCHANGED <<mem, tree, handles, hist, got, status>>

fseek_end(f) ==
    /\ status = "up" /\ f \in handles
    /\ nodes' = [nodes EXCEPT ![f].off = nodes[f].len - 1]
    /\ UNCHANGED <<mem, tree, handles, hist, got, status>>
-----------------------------------------------------------------------------
(* fcreate and tmpfs's _fcreate                                            *)

ForByte == Try(heap, 1)
ForNode == Try(ForByte.heap, NodeSize)

\* init_node copies the name without its NUL and relies on zeroed memory, which
\* only the heap's own pages are.
NameFound(name) ==
    IF DataEnd(ForNode.heap, ForNode.ptr) <= HeapSize THEN {name} ELSE {name, WildName}

\* Slip: the EOF is not counted.
AddFile_empty(name) ==
    /\ heap' = ForNode.heap
    /\ slot' = ForByte.ptr
    /\ bytes' = <<EOF>>
    /\ nodes' = Append(nodes, [name |-> name, len |-> 0, off |-> 0, blk |-> ForNode.ptr])
    /\ children' = Len(nodes')
    /\ text' = Append(text, <<>>)
    /\ tidy' = TRUE

\* n_children is never incremented, so the new node always takes the place of
\* the children there were.
AddFile(name) ==
    /\ heap' = ForNode.heap
    /\ slot' = ForByte.ptr
    /\ bytes' = <<EOF>>
    /\ \E n \in NameFound(name) :
          nodes' = Append(nodes, [name |-> n, len |-> 1, off |-> 0, blk |-> ForNode.ptr])
    /\ children' = Len(nodes')
    /\ text' = Append(text, <<>>)
    /\ tidy' = TRUE

\* The file may exist already: it makes no difference.  A NULL is written
\* through.
fcreate(path) ==
    LET r == parse_path(path, mounted)
    IN  /\ status = "up"
        /\ \/ /\ r.kind = "file"
              /\ IF NULL \in {ForByte.ptr, ForNode.ptr}
                 THEN status' = "halted" /\ UNCHANGED <<mem, children, nodes, hist>>
                 ELSE AddFile(r.file) /\ UNCHANGED status
              /\ UNCHANGED <<mounted, pool, handles, got>>
           \/ r.kind = "unset" /\ Unassigned
-----------------------------------------------------------------------------
(* fwrite and fread with tmpfs's callbacks                                 *)

\* Slip: the buffer is made as long as what is written.
Room_short(f, t) == Len(t) + 1

\* The size asked of krealloc.
Room(f, t) == nodes[f].len + Len(t) + 1

\* Slip: the EOF goes one place too far.
Overlay_late(f, t) ==
    [i \in 1 .. Room(f, t) |-> IF i = Room(f, t) THEN EOF
                               ELSE IF i - nodes[f].off \in DOMAIN t THEN t[i - nodes[f].off]
                               ELSE IF i \in DOMAIN bytes THEN bytes[i] ELSE JUNK]

\* krealloc copies as many bytes as the new buffer has, the text goes to the
\* offset, and the last place of the file gets the EOF.
Overlay(f, t) ==
    LET last == nodes[f].len + Len(t)
        old(i) == IF i \in DOMAIN bytes THEN bytes[i] ELSE JUNK
        in(i) == i - nodes[f].off
    IN  [i \in 1 .. Room(f, t) |-> IF i = last THEN EOF
                                   ELSE IF in(i) \in DOMAIN t THEN t[in(i)] ELSE old(i)]

Fits(f, t) == nodes[f].off + Len(t) <= Room(f, t)

fwrite(f, t) ==
    LET new == Try(heap, Room(f, t))
    IN  /\ status = "up" /\ f \in handles
        /\ IF new.ptr = NULL THEN /\ status' = "halted"
                                  /\ UNCHANGED <<mem, nodes, hist>>
           ELSE /\ status' = IF Fits(f, t) THEN "up" ELSE "overrun"
                /\ heap' = kfree(new.heap, slot)
                /\ slot' = new.ptr
                /\ bytes' = Overlay(f, t)
                /\ nodes' = [nodes EXCEPT ![f].off = @ + Len(t), ![f].len = @ + Len(t)]
                /\ text' = [text EXCEPT ![f] = @ \o t]
                /\ tidy' = (tidy /\ f = children /\ nodes[f].off = nodes[f].len - 1)
        /\ UNCHANGED <<tree, handles, got>>

\* The offset is not looked at, nor the length of the file.
fread(f, n) ==
    /\ status = "up" /\ f \in handles
    /\ got' = [i \in 1 .. n |-> IF i \in DOMAIN bytes THEN bytes[i] ELSE JUNK]
    /\ UNCHANGED <<mem, tree, nodes, handles, hist, status>>

Next == \/ fs_init
        \/ \E p \in Paths : fopen(p) \/ fcreate(p)
        \/ \E f \in handles : \/ fclose(f) \/ fseek_end(f)
                              \/ \E o \in 0 .. nodes[f].len : fseek_set(f, o)
                              \/ \E t \in Texts : fwrite(f, t)
                              \/ \E n \in Lens : fread(f, n)

Spec == Init /\ [][Next]_vars
-----------------------------------------------------------------------------
(* Properties                                                              *)

Names == 1 .. Len(nodes)

\* Every variable keeps its type.
TypeOK ==
    /\ heap \in Heap
    /\ slot \in {NULL} \cup DOMAIN heap.blocks
    /\ nodes \in Seq([name : Seq(Char), len : Nat \ {0}, off : Nat, blk : Nat \ {0}])
    /\ children \in {NULL} \cup Names /\ handles \subseteq Names
    /\ DOMAIN text = Names /\ tidy \in BOOLEAN
    /\ pool \in [mapped : Nat, at : Nat]
    /\ status \in {"boot", "up", "panic", "halted", "overrun", "lost"}

\* As long as callers seek inside the file, every write ends inside the buffer
\* that was asked for, also through a handle to a file that is no longer there.
NoOverrun == status # "overrun"

\* The one buffer is nobody else's memory: no node lies in it, and it is as long
\* as the heap believes.
BufferIsPrivate ==
    slot # NULL => /\ slot \notin {nodes[i].blk : i \in Names}
                   /\ heap.blocks[slot].state = "USED"
                   /\ Len(bytes) = heap.blocks[slot].size

\* A file that was only ever appended to, through its own handle, holds what was
\* written to it and the EOF.
AppendedReadsBack ==
    children # NULL /\ tidy =>
        SubSeq(bytes, 1, nodes[children].len) = Append(text[children], EOF)
-----------------------------------------------------------------------------
(* What the comments promise                                               *)

Content == SubSeq(bytes, 1, nodes[children].len - 1)

Exists(p) == LET r == parse_path(p, mounted)
             IN  r.kind = "file" /\ locate_file(r.file) # NULL

\* write: "Reallocate file data buffer and append new data."
WritesAppend ==
    [][\A f \in handles, t \in Texts :
         fwrite(f, t) /\ f = children /\ status' = "up" => Content' = Content \o t]_vars

\* _fcreate: "Add file as child node": the files there were are still there.
FilesStay == [][\A p \in Paths : Exists(p) => Exists(p)']_vars
=============================================================================
