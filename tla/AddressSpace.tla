----------------------------- MODULE AddressSpace -----------------------------
(***************************************************************************)
(* Virtual memory: mm/vmm.c and mm/mmap.c.                                 *)
(*                                                                         *)
(* Page tables lie in frames.  The CPU walks them by physical address; the *)
(* kernel uses a table's physical address as a virtual one, so it finds    *)
(* the table only where the current page map translates that address to    *)
(* itself.  The bootloader's map does so for all memory.                   *)
(*                                                                         *)
(* A virtual page is the tuple <<index4, index3, index2, index1>>.  Frames *)
(* come from the frame allocator: the lowest that is free.                 *)
(***************************************************************************)
EXTENDS Integers, Sequences, FiniteSets, FiniteSetsExt

CONSTANTS Index,       \* 0 .. 511 on the machine
          Frame,       \* the frames of physical memory, 0 among them
          BootRoot,    \* the page map the bootloader left in CR3
          BootMem,     \* what its tables hold
          BootFree,    \* the frames that are free when vmm_init runs
          Areas,       \* what callers map: records of adjacent pages and a prot
          MaxSpaces,   \* bound: how many page maps a behaviour has
          Watched      \* the pages OthersUntouched watches

Page == Index \X Index \X Index \X Index
N == Cardinality(Index)

\* The page whose virtual address is the physical address of f.
Same(f) == <<f \div (N * N * N), (f \div (N * N)) % N, (f \div N) % N, f % N>>

Flag == {"P", "W", "U", "NX", "PS"}
Entry == [frame : Nat, flags : SUBSET Flag]
ENOMEM == 2
NoEntry == [frame |-> 0, flags |-> {}]
ZeroPage == [i \in Index |-> NoEntry]

ASSUME IndexAssumption == Index = 0 .. Cardinality(Index) - 1 /\ Index # {}
ASSUME FrameAssumption == Frame \subseteq Nat /\ 0 \in Frame /\ BootRoot \in Frame \ {0}
ASSUME BootAssumption  == /\ BootMem \in [Frame -> [Index -> Entry]]
                          /\ BootFree \subseteq Frame \ {0, BootRoot}
                          /\ \A a \in Areas : a.pages \in Seq(Page) /\ a.pages # <<>>
                          /\ Watched \subseteq Page

VARIABLES mem,       \* the contents of the frames that hold tables
          free,      \* the frame allocator's free frames
          cr3,       \* the page map in use
          spaces,    \* every page map there is
          data,      \* frames mmap mapped and munmap has not freed
          todo,      \* the pages the mmap under way still has to map
          prot,      \* and how
          ret,       \* what the last call returned: 0, -ENOMEM, or a frame
          status     \* "up" or "halted"

vars == <<mem, free, cr3, spaces, data, todo, prot, ret, status>>

Init == /\ mem = BootMem /\ free = BootFree /\ cr3 = BootRoot /\ spaces = {BootRoot}
        /\ data = {} /\ todo = <<>> /\ prot = {} /\ ret = 0 /\ status = "up"
-----------------------------------------------------------------------------
(* What the CPU does                                                       *)

Present(e) == "P" \in e.flags

\* The entry that decides about page v: a leaf, a large page's entry moved to
\* the page, or NoEntry.  Rights have to be granted at every level.
Mmu(m, root, v) ==
    LET e4 == m[root][v[1]]
        e3 == m[e4.frame][v[2]]
        e2 == m[e3.frame][v[3]]
        e1 == m[e2.frame][v[4]]
        rights(path) == {r \in Flag : IF r \in {"W", "U", "P"}
                                      THEN \A e \in path : r \in e.flags
                                      ELSE \E e \in path : r \in e.flags}
    IN  IF ~ Present(e4) THEN NoEntry ELSE IF ~ Present(e3) THEN NoEntry
        ELSE IF ~ Present(e2) THEN NoEntry
        ELSE IF "PS" \in e2.flags
             THEN [frame |-> e2.frame + v[4], flags |-> rights({e4, e3, e2})]
        ELSE IF ~ Present(e1) THEN NoEntry
        ELSE [frame |-> e1.frame, flags |-> rights({e4, e3, e2, e1})]

CallerPages == UNION {{a.pages[i] : i \in DOMAIN a.pages} : a \in Areas}
Prots == {a.prot : a \in Areas}

\* Entry i of t leads to a table.
Link(m, t, i) == Present(m[t][i]) /\ "PS" \notin m[t][i].flags

\* The tables to which tables of T lead.
Below(m, T) == {f \in Frame : \E t \in T, i \in Index : Link(m, t, i) /\ m[t][i].frame = f}

\* The tables of level 4 are roots, those of level 1 lead to pages, and frames of
\* level 0 are no tables.
Levels == [Frame -> 0 .. 4]

\* Levels are not mixed, only level 2 has large pages, and rights are withheld in
\* the last level at the earliest.
EntryFits(m, level, t, i) ==
    /\ level[t] > 1 /\ Present(m[t][i]) => Link(m, t, i) \/ level[t] = 2
    /\ level[t] > 1 /\ Link(m, t, i) =>
           /\ m[t][i].frame \in Frame /\ level[m[t][i].frame] = level[t] - 1
           /\ "W" \in m[t][i].flags /\ "NX" \notin m[t][i].flags
    /\ level[t] = 1 => m[t][i].frame \in Frame

\* No table is entered from two places but by roots that share it.
OneWayIn(m, level) ==
    \A t, u \in Frame, i, j \in Index :
        level[t] > 1 /\ level[u] > 1 /\ Link(m, t, i) /\ Link(m, u, j) /\ m[t][i].frame = m[u][j].frame
            => i = j /\ (t = u \/ level[t] = 4)

Shape(m, level) == OneWayIn(m, level) /\ \A t \in Frame, i \in Index : EntryFits(m, level, t, i)

BootLevel ==
    LET t3 == Below(BootMem, {BootRoot})
        t2 == Below(BootMem, t3)
        t1 == Below(BootMem, t2)
    IN  [f \in Frame |-> IF f = BootRoot THEN 4 ELSE IF f \in t3 THEN 3 ELSE IF f \in t2 THEN 2
                         ELSE IF f \in t1 THEN 1 ELSE 0]

\* The bootloader's tables are well shaped and not free.  They map all memory to
\* its own address; callers keep away from there and from large pages, and what
\* they find mapped is not free.  What they map they want to read.
ASSUME TablesAssumption == /\ Shape(BootMem, BootLevel)
                           /\ \A f \in BootFree \cup {0} : BootLevel[f] = 0
ASSUME WindowAssumption == \A f \in Frame \ {0} : /\ Same(f) \in Page \ CallerPages
                                                  /\ Mmu(BootMem, BootRoot, Same(f)).frame = f
ASSUME CallerAssumption ==
    /\ \A v \in CallerPages : LET e == Mmu(BootMem, BootRoot, v)
                              IN  "PS" \notin e.flags /\ (Present(e) => e.frame \notin BootFree)
    /\ \A p \in Prots : "READ" \in p

\* Where a kernel access to the physical address of f ends up; 0 is a fault.
Via(m, f) == Mmu(m, cr3, Same(f)).frame
-----------------------------------------------------------------------------
(* _get_next_level, three times; a walk carries memory, free frames, the   *)
(* table it has reached (0 for NULL) and whether an access faulted.        *)

Start(root) == [mem |-> mem, free |-> free, at |-> root, ok |-> TRUE]

\* pmm_alloc_frame zeroes the frame it returns, through the same addresses.
Zeroed(s, f) == [s EXCEPT !.mem = IF Via(s.mem, f) = 0 THEN @ ELSE [@ EXCEPT ![Via(s.mem, f)] = ZeroPage],
                          !.free = @ \ {f},
                          !.ok = @ /\ Via(s.mem, f) # 0]

Put(s, i, e) == [s EXCEPT !.mem = IF Via(s.mem, s.at) = 0 THEN @ ELSE [@ EXCEPT ![Via(s.mem, s.at)][i] = e],
                          !.ok = @ /\ Via(s.mem, s.at) # 0]

Get(s, i) == IF Via(s.mem, s.at) = 0 THEN NoEntry ELSE s.mem[Via(s.mem, s.at)][i]

_get_next_level(s, i) ==
    LET e == Get(s, i)
        f == Min(s.free)
    IN  IF s.at = 0 THEN s
        ELSE IF Present(e) THEN [s EXCEPT !.at = e.frame]
        ELSE IF s.free = {} THEN [s EXCEPT !.at = 0, !.ok = @ /\ Via(s.mem, s.at) # 0]
        ELSE [Put(Zeroed(s, f), i, [frame |-> f, flags |-> {"P", "W"}]) EXCEPT !.at = f]

Walk(s, v) == _get_next_level(_get_next_level(_get_next_level(s, v[1]), v[2]), v[3])
-----------------------------------------------------------------------------
(* vmm.c                                                                   *)

Halt == /\ status' = "halted"
        /\ UNCHANGED <<mem, free, cr3, spaces, data, todo, prot, ret>>

\* What a walk leaves behind, also when it only wanted to look.
Keep(s) == mem' = s.mem /\ free' = s.free

\* Slip: the wrong index into the last table.
Mapped_index3(s, v, phys, flags) ==
    LET w == Walk(s, v)
    IN  IF w.at = 0 THEN w ELSE Put(w, v[3], [frame |-> phys, flags |-> flags])

\* The end of vmm_map_page: nothing if some table could not be made.
Mapped(s, v, phys, flags) ==
    LET w == Walk(s, v)
    IN  IF w.at = 0 THEN w ELSE Put(w, v[4], [frame |-> phys, flags |-> flags])

\* Slip: only the upper half is copied, as other kernels do.
vmm_make_pml4_upper ==
    LET f == Min(free)
        z == Zeroed(Start(0), f)
        copy == [i \in Index |-> IF 2 * i < N THEN NoEntry ELSE z.mem[Via(z.mem, BootRoot)][i]]
    IN  /\ status = "up" /\ todo = <<>> /\ free # {} /\ Cardinality(spaces) < MaxSpaces
        /\ mem' = [z.mem EXCEPT ![Via(z.mem, f)] = copy]
        /\ free' = z.free
        /\ spaces' = spaces \cup {f}
        /\ ret' = f
        /\ UNCHANGED <<cr3, data, todo, prot, status>>

\* vmm_make_pml4 for make_process.  The root's tables are shared from then on.
vmm_make_pml4 ==
    LET f == Min(free)
        z == Zeroed(Start(0), f)
        copy == z.mem[Via(z.mem, BootRoot)]
    IN  /\ status = "up" /\ todo = <<>> /\ Cardinality(spaces) < MaxSpaces
        /\ IF free # {} /\ z.ok /\ Via(z.mem, BootRoot) # 0
           THEN /\ mem' = [z.mem EXCEPT ![Via(z.mem, f)] = copy]
                /\ free' = z.free
                /\ spaces' = spaces \cup {f}
                /\ ret' = f
                /\ UNCHANGED <<cr3, data, todo, prot, status>>
           ELSE Halt

\* launch_exec and task_sched load CR3.
load_cr3(root) == /\ status = "up" /\ todo = <<>> /\ root # cr3
                  /\ cr3' = root
                  /\ UNCHANGED <<mem, free, spaces, data, todo, prot, ret, status>>

\* A query makes the tables it does not find.
vmm_get_phys(v) ==
    LET w == Walk(Start(cr3), v)
    IN  /\ status = "up" /\ todo = <<>>
        /\ IF w.ok THEN /\ Keep(w)
                        /\ ret' = IF w.at = 0 THEN 0 ELSE Get(w, v[4]).frame
                        /\ UNCHANGED <<cr3, spaces, data, todo, prot, status>>
                   ELSE Halt
-----------------------------------------------------------------------------
(* mmap.c                                                                  *)

\* Slip: the protection is stored as it is.
PteFlags_prot(p) == p

\* get_flags_from_prot
PteFlags(p) == {f \in Flag : \/ f = "NX" /\ "EXEC" \notin p
                             \/ f = "W" /\ "WRITE" \in p
                             \/ f = "P" /\ "READ" \in p
                             \/ f = "U" /\ "USER" \in p}

\* What mmap made in the current page map.
Ours(v) == Mmu(mem, cr3, v).frame \in data

mmap(area) ==
    /\ status = "up" /\ todo = <<>>
    /\ todo' = area.pages /\ prot' = area.prot /\ ret' = 0
    /\ UNCHANGED <<mem, free, cr3, spaces, data, status>>

\* One round of the loop.  If vmm_map_page gives up the loop does not notice.
mmap_page ==
    LET f == Min(free)
        s == Mapped(Zeroed(Start(cr3), f), Head(todo), f, PteFlags(prot))
    IN  /\ status = "up" /\ todo # <<>>
        /\ IF free = {} THEN /\ ret' = -ENOMEM /\ todo' = <<>>
                             /\ UNCHANGED <<mem, free, cr3, spaces, data, prot, status>>
           ELSE IF s.ok THEN /\ Keep([s EXCEPT !.at = cr3])
                             /\ data' = data \cup {f}
                             /\ todo' = Tail(todo)
                             /\ UNCHANGED <<cr3, spaces, prot, ret, status>>
           ELSE Halt

\* Slip: the frame is freed while the entry stays.
munmap_dangling(v) ==
    /\ status = "up" /\ todo = <<>> /\ Ours(v)
    /\ free' = free \cup {Mmu(mem, cr3, v).frame}
    /\ data' = data \ {Mmu(mem, cr3, v).frame}
    /\ UNCHANGED <<mem, cr3, spaces, todo, prot, ret, status>>

\* Slip: the table is freed, not what its entry points to.
munmap_table(v) ==
    LET w == Walk(Start(cr3), v)
        u == Put(w, v[4], NoEntry)
    IN  /\ status = "up" /\ todo = <<>> /\ Ours(v)
        /\ mem' = u.mem
        /\ free' = u.free \cup {w.at}
        /\ UNCHANGED <<cr3, spaces, data, todo, prot, ret, status>>

\* For pages mmap made.  Both walks find every table.
munmap(v) ==
    LET w == Walk(Start(cr3), v)
        phys == Get(w, v[4]).frame
        u == Put(Walk([w EXCEPT !.at = cr3], v), v[4], NoEntry)
    IN  /\ status = "up" /\ todo = <<>> /\ Ours(v)
        /\ IF w.ok /\ w.at # 0 /\ u.ok
           THEN /\ mem' = u.mem
                /\ free' = u.free \cup {phys}
                /\ data' = data \ {phys}
                /\ UNCHANGED <<cr3, spaces, todo, prot, ret, status>>
           ELSE Halt

\* __munmap_any, for any page, keeps the frame.  A walk that runs out of frames
\* leaves the tables it made.
munmap_any(v) ==
    LET w == Walk(Start(cr3), v)
        u == IF w.at = 0 THEN w ELSE Put(w, v[4], NoEntry)
    IN  /\ status = "up" /\ todo = <<>>
        /\ IF u.ok THEN Keep(u) /\ UNCHANGED <<cr3, spaces, data, todo, prot, ret, status>>
                   ELSE Halt

\* vmm_update_flags, for pages mmap made.
vmm_update_flags(v, p) ==
    LET w == Walk(Start(cr3), v)
        e == Get(w, v[4])
        u == Put(w, v[4], [e EXCEPT !.flags = (@ \ {"P", "W", "U", "NX"}) \cup PteFlags(p)])
    IN  /\ status = "up" /\ todo = <<>> /\ Ours(v)
        /\ IF u.ok THEN Keep(u) /\ UNCHANGED <<cr3, spaces, data, todo, prot, ret, status>>
                   ELSE Halt

Next == \/ vmm_make_pml4
        \/ \E root \in spaces : load_cr3(root)
        \/ mmap_page
        \/ \E a \in Areas : mmap(a)
        \/ \E v \in CallerPages : \/ vmm_get_phys(v) \/ munmap(v) \/ munmap_any(v)
                                  \/ \E p \in Prots : vmm_update_flags(v, p)

Spec == Init /\ [][Next]_vars
-----------------------------------------------------------------------------
(* Properties                                                              *)

\* The frames that hold the tables of a page map.
Tables == LET t4 == spaces
              t3 == Below(mem, t4)
              t2 == Below(mem, t3)
              t1 == Below(mem, t2)
          IN  t4 \cup t3 \cup t2 \cup t1

\* Every variable keeps its type.
TypeOK == /\ mem \in [Frame -> [Index -> Entry]]
          /\ free \subseteq Frame /\ data \subseteq Frame
          /\ cr3 \in spaces /\ spaces \subseteq Frame
          /\ todo \in Seq(Page)
          /\ ret \in Frame \cup {-ENOMEM}
          /\ status \in {"up", "halted"}

\* No table is free, and no table is also memory that mmap gave away: nobody can
\* write to the tables by writing to memory he asked for.
TablesArePrivate == Tables \cap (free \cup data) = {}

\* No page of any page map leads to a free frame, although frames are freed
\* through one page map and tables are shared by many.
NothingDangles ==
    \A root \in spaces, v \in CallerPages :
        Present(Mmu(mem, root, v)) => Mmu(mem, root, v).frame \notin free

\* The kernel finds every table where it looks for it.
TablesAreFound == status = "up" => \A t \in Tables : Via(mem, t) = t

\* One step changes the meaning of one page at most, in whichever page maps, and
\* that is the page a caller asked for: the sharing of tables and the tables that
\* walks make on the way show nowhere else.
OthersUntouched ==
    [][LET changed == {v \in Watched : \E root \in spaces : Mmu(mem, root, v) # Mmu(mem', root, v)}
       IN  /\ Cardinality(changed) <= 1
           /\ changed \subseteq IF todo = <<>> THEN CallerPages ELSE {Head(todo)}]_vars

\* A page that mmap passed is there, with a frame of its own and the rights that
\* were asked for, unless the frames ran out: then vmm_map_page may have given up
\* without a word, and mmap goes on to return 0.  (User rights also take tables
\* that grant them, and _get_next_level makes none.)
MmapMaps ==
    [][(mmap_page /\ todo' # todo /\ status' = "up" /\ free' # {}) =>
         LET e == Mmu(mem', cr3, Head(todo))
         IN  /\ e.frame = Min(free) /\ e.frame \in data'
             /\ Present(e)
             /\ "W" \in e.flags <=> "WRITE" \in prot
             /\ "NX" \in e.flags <=> "EXEC" \notin prot]_vars
=============================================================================
