-------------------------- MODULE AddressSpaceProofs --------------------------
(***************************************************************************)
(* Virtual memory, for any number of frames, any index size, and whatever  *)
(* well-shaped tables the bootloader left: tables stay private and are     *)
(* found, no page leads to a free frame, and a call changes one page.      *)
(***************************************************************************)
EXTENDS AddressSpace, FiniteSetTheorems, NaturalsInduction, WellFoundedInduction, TLAPS

Memory == [Frame -> [Index -> Entry]]

\* The tables on the way to page v, and how far the way is paved.
T3(m, r, v) == m[r][v[1]].frame
T2(m, r, v) == m[T3(m, r, v)][v[2]].frame
T1(m, r, v) == m[T2(m, r, v)][v[3]].frame

Has3(m, r, v) == Present(m[r][v[1]])
Has2(m, r, v) == Has3(m, r, v) /\ Present(m[T3(m, r, v)][v[2]])
Has1(m, r, v) == Has2(m, r, v) /\ Link(m, T2(m, r, v), v[3])

\* Both memories translate every page the same way, through the same last table.
SameView(m, n, roots) ==
    \A r \in roots, v \in Page :
        /\ Mmu(n, r, v) = Mmu(m, r, v)
        /\ Has1(m, r, v) => Has1(n, r, v) /\ T1(n, r, v) = T1(m, r, v)

Roots(level) == {t \in Frame : level[t] = 4}

\* What holds of memory, free frames and levels in the middle of a call, too.
Sound(m, fr, level) ==
    /\ m \in Memory /\ fr \subseteq Frame /\ level \in Levels
    /\ Shape(m, level)
    /\ Roots(level) = spaces /\ cr3 \in spaces
    /\ \A f \in fr \cup data \cup {0} : level[f] = 0
    /\ data \subseteq Frame \ {0} /\ fr \cap (data \cup {0}) = {}
    /\ \A r \in spaces, f \in Frame \ {0} : Mmu(m, r, Same(f)).frame = f

\* Callers' pages are not in large pages and do not lead to frames of fr; and what
\* mmap gave away is behind one entry of one table.
Calm(m, fr) ==
    /\ \A r \in spaces, v \in CallerPages :
          /\ "PS" \notin Mmu(m, r, v).flags
          /\ Present(Mmu(m, r, v)) => Mmu(m, r, v).frame \notin fr
    /\ \A r, q \in spaces, v, x \in CallerPages :
          /\ Present(Mmu(m, r, v)) /\ Present(Mmu(m, q, x))
          /\ Mmu(m, r, v).frame = Mmu(m, q, x).frame /\ Mmu(m, r, v).frame \in data
          => T1(m, r, v) = T1(m, q, x) /\ v[4] = x[4]

\* The inductive invariant.
IInv == /\ \E level \in Levels : Sound(mem, free, level)
        /\ Calm(mem, free)
        /\ BootRoot \in spaces
        /\ todo \in Seq(CallerPages) /\ (todo # <<>> => prot \in Prots)
        /\ ret \in Frame \cup {-ENOMEM}
        /\ status \in {"up", "halted"}
-----------------------------------------------------------------------------
(* Entries, pages, and the smallest frame                                  *)

LEMMA EntryType ==
  ASSUME NEW m \in Memory, NEW t \in Frame, NEW i \in Index
  PROVE  m[t][i] \in Entry /\ m[t][i].frame \in Nat /\ m[t][i].flags \in SUBSET Flag
<1>1. m[t][i] \in Entry
  BY DEF Memory
<1> QED BY <1>1 DEF Entry

LEMMA PageType ==
  ASSUME NEW v \in Page
  PROVE  v[1] \in Index /\ v[2] \in Index /\ v[3] \in Index /\ v[4] \in Index
BY DEF Page

\* A set of frames has a smallest, the one Min picks.
LEMMA MinIsIn ==
  ASSUME NEW S, S \subseteq Frame, S # {}
  PROVE  Min(S) \in S
<1>1. S \subseteq Nat
  BY FrameAssumption
<1>2. \E x \in S : \A y \in S : ~ (<<y, x>> \in OpToRel(<, Nat))
  BY <1>1, WFMin, NatLessThanWellFounded, Zenon
<1>3. PICK x \in S : \A y \in S : ~ (<<y, x>> \in OpToRel(<, Nat))
  BY <1>2
<1>4. \A y \in S : x <= y
  <2>1. SUFFICES ASSUME NEW y \in S, y < x PROVE FALSE
    BY <1>1
  <2>2. <<y, x>> \in OpToRel(<, Nat)
    BY <1>1, <2>1 DEF OpToRel
  <2> QED BY <1>3, <2>2, Zenon
<1> QED BY <1>4 DEF Min

LEMMA ZeroPageIsEmpty ==
  /\ ZeroPage \in [Index -> Entry]
  /\ \A i \in Index : ~ Present(ZeroPage[i]) /\ ZeroPage[i].frame = 0
  /\ NoEntry \in Entry /\ ~ Present(NoEntry) /\ NoEntry.frame = 0 /\ NoEntry.flags = {}
<1>1. NoEntry \in Entry /\ ~ Present(NoEntry) /\ NoEntry.frame = 0 /\ NoEntry.flags = {}
  BY DEF NoEntry, Entry, Present
<1> QED BY <1>1 DEF ZeroPage
-----------------------------------------------------------------------------
(* The way to a page                                                       *)

\* Each table on the way has its level.
LEMMA WayHasLevels ==
  ASSUME NEW m \in Memory, NEW level \in Levels, Shape(m, level),
         NEW r \in Roots(level), NEW v \in Page
  PROVE  /\ r \in Frame /\ level[r] = 4
         /\ Has3(m, r, v) => /\ Link(m, r, v[1])
                             /\ T3(m, r, v) \in Frame /\ level[T3(m, r, v)] = 3
         /\ Has2(m, r, v) => /\ Link(m, T3(m, r, v), v[2])
                             /\ T2(m, r, v) \in Frame /\ level[T2(m, r, v)] = 2
         /\ Has1(m, r, v) => /\ T1(m, r, v) \in Frame /\ level[T1(m, r, v)] = 1
<1>1. r \in Frame /\ level[r] = 4
  BY DEF Roots
<1>2. v[1] \in Index /\ v[2] \in Index /\ v[3] \in Index
  BY PageType
<1>3. Has3(m, r, v) => Link(m, r, v[1]) /\ T3(m, r, v) \in Frame /\ level[T3(m, r, v)] = 3
  BY <1>1, <1>2 DEF Shape, EntryFits, Has3, T3
<1>4. Has2(m, r, v) => /\ Link(m, T3(m, r, v), v[2])
                       /\ T2(m, r, v) \in Frame /\ level[T2(m, r, v)] = 2
  BY <1>2, <1>3 DEF Shape, EntryFits, Has2, T2
<1>5. Has1(m, r, v) => T1(m, r, v) \in Frame /\ level[T1(m, r, v)] = 1
  BY <1>2, <1>4 DEF Shape, EntryFits, Has1, T1
<1> QED BY <1>1, <1>3, <1>4, <1>5

\* What the entries on the way amount to.
Answer(e4, e3, e2, e1, i) ==
    LET rights(path) == {f \in Flag : IF f \in {"W", "U", "P"}
                                      THEN \A e \in path : f \in e.flags
                                      ELSE \E e \in path : f \in e.flags}
    IN  IF ~ Present(e4) THEN NoEntry ELSE IF ~ Present(e3) THEN NoEntry
        ELSE IF ~ Present(e2) THEN NoEntry
        ELSE IF "PS" \in e2.flags THEN [frame |-> e2.frame + i, flags |-> rights({e4, e3, e2})]
        ELSE IF ~ Present(e1) THEN NoEntry
        ELSE [frame |-> e1.frame, flags |-> rights({e4, e3, e2, e1})]

LEMMA MmuAnswers ==
  ASSUME NEW m, NEW r, NEW v
  PROVE  Mmu(m, r, v) = Answer(m[r][v[1]], m[T3(m, r, v)][v[2]], m[T2(m, r, v)][v[3]],
                               m[T1(m, r, v)][v[4]], v[4])
BY DEF Mmu, Answer, T3, T2, T1

\* Links to tables withhold no rights.
LEMMA LinksGrant ==
  ASSUME NEW m, NEW level, Shape(m, level), NEW t \in Frame, NEW i \in Index,
         level[t] > 1, Link(m, t, i)
  PROVE  "W" \in m[t][i].flags /\ "NX" \notin m[t][i].flags
<1>1. EntryFits(m, level, t, i)
  BY DEF Shape
<1> QED BY <1>1 DEF EntryFits

\* Where the way ends early there is no entry.
LEMMA NoWayNoEntry ==
  ASSUME NEW m, NEW r, NEW v,
         \/ ~ Has2(m, r, v) \/ ~ Present(m[T2(m, r, v)][v[3]])
         \/ Has1(m, r, v) /\ ~ Present(m[T1(m, r, v)][v[4]])
  PROVE  Mmu(m, r, v) = NoEntry
<1>1. CASE ~ Has2(m, r, v) \/ ~ Present(m[T2(m, r, v)][v[3]])
  BY <1>1, MmuAnswers DEF Answer, Has2, Has3
<1>2. CASE Has1(m, r, v) /\ ~ Present(m[T1(m, r, v)][v[4]])
  <2>1. "PS" \notin m[T2(m, r, v)][v[3]].flags
    BY <1>2 DEF Has1, Link
  <2> QED BY <1>2, <2>1, MmuAnswers DEF Answer
<1> QED BY <1>1, <1>2

\* The translation in terms of the way.
LEMMA Translation ==
  ASSUME NEW m \in Memory, NEW level \in Levels, Shape(m, level),
         NEW r \in Roots(level), NEW v \in Page
  PROVE  /\ ~ Has2(m, r, v) \/ ~ Present(m[T2(m, r, v)][v[3]]) => Mmu(m, r, v) = NoEntry
         /\ Has2(m, r, v) /\ Present(m[T2(m, r, v)][v[3]]) /\ ~ Has1(m, r, v)
               => "PS" \in Mmu(m, r, v).flags /\ Present(Mmu(m, r, v))
         /\ Has1(m, r, v) =>
               LET e == m[T1(m, r, v)][v[4]]
               IN  IF ~ Present(e) THEN Mmu(m, r, v) = NoEntry
                   ELSE /\ Mmu(m, r, v).frame = e.frame
                        /\ \A f \in {"P", "W", "NX", "PS"} : f \in Mmu(m, r, v).flags <=> f \in e.flags
<1> DEFINE e4 == m[r][v[1]]
           e3 == m[e4.frame][v[2]]
           e2 == m[e3.frame][v[3]]
           e1 == m[e2.frame][v[4]]
           rights(path) == {f \in Flag : IF f \in {"W", "U", "P"}
                                         THEN \A e \in path : f \in e.flags
                                         ELSE \E e \in path : f \in e.flags}
<1>1. Mmu(m, r, v) = IF ~ Present(e4) THEN NoEntry ELSE IF ~ Present(e3) THEN NoEntry
                     ELSE IF ~ Present(e2) THEN NoEntry
                     ELSE IF "PS" \in e2.flags
                          THEN [frame |-> e2.frame + v[4], flags |-> rights({e4, e3, e2})]
                     ELSE IF ~ Present(e1) THEN NoEntry
                     ELSE [frame |-> e1.frame, flags |-> rights({e4, e3, e2, e1})]
  BY DEF Mmu
<1>2. /\ e4 = m[r][v[1]] /\ e3 = m[T3(m, r, v)][v[2]]
      /\ e2 = m[T2(m, r, v)][v[3]] /\ e1 = m[T1(m, r, v)][v[4]]
  BY DEF T3, T2, T1
<1>3. /\ Has2(m, r, v) <=> Present(e4) /\ Present(e3)
      /\ Has1(m, r, v) <=> Present(e4) /\ Present(e3) /\ Present(e2) /\ "PS" \notin e2.flags
  BY <1>2 DEF Has3, Has2, Has1, Link
<1>4. Has2(m, r, v) => "PS" \notin e4.flags /\ "PS" \notin e3.flags
  BY <1>2, WayHasLevels DEF Has2, Link
<1>5. Has1(m, r, v) => \A e \in {e4, e3, e2} :
          "P" \in e.flags /\ "W" \in e.flags /\ "NX" \notin e.flags /\ "PS" \notin e.flags
  <2> SUFFICES ASSUME Has1(m, r, v)
               PROVE  \A e \in {e4, e3, e2} :
                        "P" \in e.flags /\ "W" \in e.flags /\ "NX" \notin e.flags /\ "PS" \notin e.flags
    OBVIOUS
  <2>1. Has2(m, r, v) /\ Has3(m, r, v) /\ Link(m, T2(m, r, v), v[3])
    BY DEF Has1, Has2
  <2>2. /\ r \in Frame /\ level[r] > 1 /\ Link(m, r, v[1])
        /\ T3(m, r, v) \in Frame /\ level[T3(m, r, v)] > 1 /\ Link(m, T3(m, r, v), v[2])
        /\ T2(m, r, v) \in Frame /\ level[T2(m, r, v)] > 1
        /\ v[1] \in Index /\ v[2] \in Index /\ v[3] \in Index
    BY <2>1, WayHasLevels, PageType
  <2>3. "W" \in e4.flags /\ "NX" \notin e4.flags
    BY <1>2, <2>2, LinksGrant
  <2>4. "W" \in e3.flags /\ "NX" \notin e3.flags
    BY <1>2, <2>2, LinksGrant
  <2>5. "W" \in e2.flags /\ "NX" \notin e2.flags
    BY <1>2, <2>1, <2>2, LinksGrant
  <2>6. "P" \in e4.flags /\ "P" \in e3.flags /\ "P" \in e2.flags /\ "PS" \notin e2.flags
    BY <1>3 DEF Present
  <2> HIDE DEF e4, e3, e2
  <2> QED BY <1>4, <2>1, <2>3, <2>4, <2>5, <2>6
<1> HIDE DEF e4, e3, e2, e1
<1>6. ~ Has2(m, r, v) \/ ~ Present(e2) => Mmu(m, r, v) = NoEntry
  BY <1>1, <1>3
<1>7. Has2(m, r, v) /\ Present(e2) /\ ~ Has1(m, r, v)
          => "PS" \in Mmu(m, r, v).flags /\ Present(Mmu(m, r, v))
  <2> SUFFICES ASSUME Has2(m, r, v), Present(e2), ~ Has1(m, r, v)
               PROVE  "PS" \in Mmu(m, r, v).flags /\ Present(Mmu(m, r, v))
    OBVIOUS
  <2>1. "PS" \in e2.flags /\ Present(e4) /\ Present(e3)
    BY <1>3
  <2>2. Mmu(m, r, v).flags = rights({e4, e3, e2})
    BY <1>1, <2>1
  <2>3. "PS" \in rights({e4, e3, e2}) /\ "P" \in rights({e4, e3, e2})
    BY <2>1 DEF Present, Flag
  <2> QED BY <2>2, <2>3 DEF Present
<1>8. ASSUME Has1(m, r, v), Present(e1)
      PROVE  /\ Mmu(m, r, v).frame = e1.frame
             /\ \A f \in {"P", "W", "NX", "PS"} : f \in Mmu(m, r, v).flags <=> f \in e1.flags
  <2>1. Mmu(m, r, v) = [frame |-> e1.frame, flags |-> rights({e4, e3, e2, e1})]
    BY <1>1, <1>3, <1>8
  <2>2. \A f \in {"P", "W"} : f \in rights({e4, e3, e2, e1}) <=> f \in e1.flags
    BY <1>5, <1>8 DEF Flag
  <2>3. \A f \in {"NX", "PS"} : f \in rights({e4, e3, e2, e1}) <=> f \in e1.flags
    BY <1>5, <1>8 DEF Flag
  <2> HIDE DEF rights
  <2> QED BY <2>1, <2>2, <2>3
<1>9. Has1(m, r, v) /\ ~ Present(e1) => Mmu(m, r, v) = NoEntry
  BY <1>1, <1>3
<1> QED BY <1>2, <1>6, <1>7, <1>8, <1>9
-----------------------------------------------------------------------------
(* Changes of memory                                                       *)

\* What the way to a page reads is the same in both memories.
Agree(m, n, r, v) ==
    /\ n[r][v[1]] = m[r][v[1]]
    /\ Has3(m, r, v) => n[T3(m, r, v)][v[2]] = m[T3(m, r, v)][v[2]]
    /\ Has2(m, r, v) => n[T2(m, r, v)][v[3]] = m[T2(m, r, v)][v[3]]
    /\ Has1(m, r, v) => n[T1(m, r, v)][v[4]] = m[T1(m, r, v)][v[4]]

LEMMA AgreementIsSameView ==
  ASSUME NEW m, NEW n, NEW r, NEW v, Agree(m, n, r, v)
  PROVE  /\ Mmu(n, r, v) = Mmu(m, r, v)
         /\ Has1(m, r, v) => Has1(n, r, v) /\ T1(n, r, v) = T1(m, r, v)
<1>1. n[r][v[1]] = m[r][v[1]] /\ T3(n, r, v) = T3(m, r, v)
  BY DEF Agree, T3
<1>2. CASE ~ Has3(m, r, v)
  BY <1>1, <1>2 DEF Has1, Has2, Has3, Mmu
<1>3. CASE Has3(m, r, v) /\ ~ Has2(m, r, v)
  <2>1. n[T3(m, r, v)][v[2]] = m[T3(m, r, v)][v[2]]
    BY <1>3 DEF Agree
  <2> QED BY <1>1, <1>3, <2>1 DEF Has1, Has2, Has3, Mmu, T3
<1>4. CASE Has2(m, r, v)
  <2>1. n[T3(m, r, v)][v[2]] = m[T3(m, r, v)][v[2]] /\ T2(n, r, v) = T2(m, r, v)
    BY <1>1, <1>4 DEF Agree, Has2, T2
  <2>2. n[T2(m, r, v)][v[3]] = m[T2(m, r, v)][v[3]] /\ T1(n, r, v) = T1(m, r, v)
    BY <1>4, <2>1 DEF Agree, T1
  <2>3. Has1(n, r, v) <=> Has1(m, r, v)
    BY <1>1, <2>1, <2>2 DEF Has1, Has2, Has3, Link
  <2>4. Has1(m, r, v) => n[T1(m, r, v)][v[4]] = m[T1(m, r, v)][v[4]]
    BY DEF Agree
  <2>5. Mmu(m, r, v) = Answer(m[r][v[1]], m[T3(m, r, v)][v[2]], m[T2(m, r, v)][v[3]],
                              m[T1(m, r, v)][v[4]], v[4])
    BY MmuAnswers
  <2>6. Mmu(n, r, v) = Answer(m[r][v[1]], m[T3(m, r, v)][v[2]], m[T2(m, r, v)][v[3]],
                              n[T1(m, r, v)][v[4]], v[4])
    BY <1>1, <2>1, <2>2, MmuAnswers
  <2>7. CASE Has1(m, r, v)
    BY <2>2, <2>3, <2>4, <2>5, <2>6, <2>7
  <2>8. CASE ~ Has1(m, r, v)
    <3>1. \/ ~ Present(m[T2(m, r, v)][v[3]])
          \/ "PS" \in m[T2(m, r, v)][v[3]].flags
      BY <1>4, <2>8 DEF Has1, Link
    <3>2. \A e4, e3, e2, d, e, i : ~ Present(e2) \/ "PS" \in e2.flags
                => Answer(e4, e3, e2, d, i) = Answer(e4, e3, e2, e, i)
      BY DEF Answer
    <3>3. Mmu(n, r, v) = Mmu(m, r, v)
      BY <2>5, <2>6, <3>1, <3>2, Zenon
    <3> QED BY <2>8, <3>3
  <2> QED BY <2>7, <2>8
<1> QED BY <1>2, <1>3, <1>4 DEF Has2

\* Frames that hold no tables may hold anything.
LEMMA OtherFramesDoNotMatter ==
  ASSUME NEW m \in Memory, NEW n \in Memory, NEW level \in Levels, Shape(m, level),
         \A t \in Frame : level[t] # 0 => n[t] = m[t]
  PROVE  Shape(n, level) /\ SameView(m, n, Roots(level))
<1>1. ASSUME NEW t \in Frame, NEW i \in Index, level[t] # 0
      PROVE  n[t][i] = m[t][i] /\ (Link(n, t, i) <=> Link(m, t, i))
  BY <1>1 DEF Link
<1>2. OneWayIn(n, level)
  <2>1. OneWayIn(m, level)
    BY DEF Shape
  <2> QED BY <1>1, <2>1 DEF OneWayIn, Levels
<1>3. ASSUME NEW t \in Frame, NEW i \in Index PROVE EntryFits(n, level, t, i)
  <2>1. EntryFits(m, level, t, i)
    BY DEF Shape
  <2>2. CASE level[t] # 0
    BY <1>1, <2>1, <2>2 DEF EntryFits
  <2>3. CASE level[t] = 0
    BY <2>3 DEF EntryFits
  <2> QED BY <2>2, <2>3
<1>4. ASSUME NEW r \in Roots(level), NEW v \in Page PROVE Agree(m, n, r, v)
  BY WayHasLevels DEF Agree
<1>5. SameView(m, n, Roots(level))
  <2> SUFFICES ASSUME NEW r \in Roots(level), NEW v \in Page
               PROVE  /\ Mmu(n, r, v) = Mmu(m, r, v)
                      /\ Has1(m, r, v) => Has1(n, r, v) /\ T1(n, r, v) = T1(m, r, v)
    BY DEF SameView
  <2>1. Agree(m, n, r, v)
    BY <1>4
  <2> QED BY <2>1, AgreementIsSameView
<1> QED BY <1>2, <1>3, <1>5 DEF Shape

Table(f) == [frame |-> f, flags |-> {"P", "W"}]
WithEntry(m, t, i, e) == [m EXCEPT ![t][i] = e]
WithRoot(m, f, r) == [m EXCEPT ![f] = m[r]]
WithLevel(level, f, l) == [level EXCEPT ![f] = l]

\* A new, empty table where there was none changes no translation.
LEMMA NewTableDoesNotShow ==
  ASSUME NEW m \in Memory, NEW level \in Levels, Shape(m, level),
         NEW t \in Frame, level[t] > 1, NEW i \in Index, ~ Present(m[t][i]),
         NEW f \in Frame, level[f] = 0, m[f] = ZeroPage,
         NEW n, n = WithEntry(m, t, i, Table(f)),
         NEW up, up = WithLevel(level, f, level[t] - 1)
  PROVE  /\ n \in Memory /\ up \in Levels
         /\ \A g \in Frame : g # f => up[g] = level[g]
         /\ up[f] = level[t] - 1
         /\ n[t][i] = Table(f)
         /\ Shape(n, up)
         /\ Roots(up) = Roots(level)
         /\ SameView(m, n, Roots(level))
<1> DEFINE e == Table(f)
<1>1. e \in Entry /\ e.frame = f /\ Present(e) /\ "PS" \notin e.flags /\ "W" \in e.flags /\ "NX" \notin e.flags
  BY FrameAssumption DEF Entry, Flag, Present, Table
<1>e. n = [m EXCEPT ![t][i] = e] /\ up = [level EXCEPT ![f] = level[t] - 1]
  BY DEF WithEntry, WithLevel
<1> HIDE DEF e
<1>2. t # f /\ level[t] \in 2 .. 4
  BY DEF Levels
<1>3. n \in Memory /\ n[t][i] = e
  BY <1>1, <1>e DEF Memory
<1>4. /\ \A u \in Frame, j \in Index : u # t \/ j # i => n[u][j] = m[u][j]
      /\ \A u \in Frame : u # t => n[u] = m[u]
  BY <1>e DEF Memory
<1>5. up \in Levels /\ up[f] = level[t] - 1 /\ \A g \in Frame : g # f => up[g] = level[g]
  BY <1>2, <1>e DEF Levels
<1>6. \A j \in Index : ~ Present(n[f][j]) /\ n[f][j].frame = 0
  BY <1>2, <1>4, ZeroPageIsEmpty
<1>7. ASSUME NEW u \in Frame, NEW j \in Index, level[u] > 1, Link(m, u, j)
      PROVE  /\ m[u][j].frame \in Frame \ {f} /\ level[m[u][j].frame] = level[u] - 1
             /\ "W" \in m[u][j].flags /\ "NX" \notin m[u][j].flags
             /\ u # f /\ (u # t \/ j # i)
  <2>1. EntryFits(m, level, u, j)
    BY DEF Shape
  <2> QED BY <1>7, <2>1 DEF EntryFits, Link, Levels
<1>8. Shape(n, up)
  <2>1. ASSUME NEW u \in Frame, NEW j \in Index PROVE EntryFits(n, up, u, j)
    <3>1. CASE u = f
      BY <1>6, <3>1, FrameAssumption DEF EntryFits, Link
    <3>2. CASE u = t /\ j = i
      BY <1>1, <1>2, <1>3, <1>5, <3>2 DEF EntryFits, Link
    <3>3. CASE u # f /\ (u # t \/ j # i)
      <4>1. n[u][j] = m[u][j] /\ up[u] = level[u]
        BY <1>4, <1>5, <3>3
      <4>2. Link(n, u, j) <=> Link(m, u, j)
        BY <4>1 DEF Link
      <4>3. level[u] > 1 /\ Link(m, u, j) => up[m[u][j].frame] = level[m[u][j].frame]
        BY <1>5, <1>7
      <4>4. EntryFits(m, level, u, j)
        BY DEF Shape
      <4> QED BY <4>1, <4>2, <4>3, <4>4 DEF EntryFits
    <3> QED BY <3>1, <3>2, <3>3
  <2>2. ASSUME NEW u \in Frame, NEW j \in Index, up[u] > 1, Link(n, u, j)
        PROVE  \/ u = t /\ j = i /\ n[u][j].frame = f
               \/ /\ level[u] > 1 /\ up[u] = level[u] /\ Link(m, u, j)
                  /\ n[u][j].frame = m[u][j].frame /\ n[u][j].frame # f
    <3>1. u # f
      BY <1>6, <2>2 DEF Link
    <3>2. CASE u = t /\ j = i
      BY <1>1, <1>3, <3>2
    <3>3. CASE u # t \/ j # i
      <4>1. n[u][j] = m[u][j] /\ up[u] = level[u]
        BY <1>4, <1>5, <3>1, <3>3
      <4>2. level[u] > 1 /\ Link(m, u, j)
        BY <2>2, <4>1 DEF Link
      <4> QED BY <1>7, <4>1, <4>2
    <3> QED BY <3>2, <3>3
  <2>3. ASSUME NEW u \in Frame, NEW w \in Frame, NEW j \in Index, NEW k \in Index,
               up[u] > 1, up[w] > 1, Link(n, u, j), Link(n, w, k), n[u][j].frame = n[w][k].frame
        PROVE  j = k /\ (u = w \/ up[u] = 4)
    <3>1. CASE u = t /\ j = i /\ n[u][j].frame = f
      BY <2>2, <2>3, <3>1
    <3>2. CASE /\ level[u] > 1 /\ up[u] = level[u] /\ Link(m, u, j)
               /\ n[u][j].frame = m[u][j].frame /\ n[u][j].frame # f
      <4>1. level[w] > 1 /\ Link(m, w, k) /\ n[w][k].frame = m[w][k].frame
        BY <2>2, <2>3, <3>2
      <4>2. OneWayIn(m, level)
        BY DEF Shape
      <4>3. m[u][j].frame = m[w][k].frame
        BY <2>3, <3>2, <4>1
      <4>4. j = k /\ (u = w \/ level[u] = 4)
        BY <3>2, <4>1, <4>2, <4>3 DEF OneWayIn
      <4> QED BY <3>2, <4>4
    <3> QED BY <2>2, <2>3, <3>1, <3>2
  <2> QED BY <2>1, <2>3 DEF Shape, OneWayIn
<1>9. Roots(up) = Roots(level)
  BY <1>2, <1>5 DEF Roots
<1>10. ASSUME NEW r \in Roots(level), NEW v \in Page
       PROVE  /\ Mmu(n, r, v) = Mmu(m, r, v)
              /\ Has1(m, r, v) => Has1(n, r, v) /\ T1(n, r, v) = T1(m, r, v)
  <2>1. v[1] \in Index /\ v[2] \in Index /\ v[3] \in Index /\ v[4] \in Index /\ r \in Frame
    BY PageType DEF Roots
  <2>2. CASE Agree(m, n, r, v)
    BY <2>2, AgreementIsSameView
  <2>3. CASE ~ Agree(m, n, r, v)
    <3>1. \/ r = t /\ v[1] = i
          \/ Has3(m, r, v) /\ T3(m, r, v) = t /\ v[2] = i
          \/ Has2(m, r, v) /\ T2(m, r, v) = t /\ v[3] = i
      BY <1>4, <2>1, <2>3, WayHasLevels DEF Agree
    <3>2. Mmu(m, r, v) = NoEntry /\ ~ Has1(m, r, v)
      <4>1. ~ Has2(m, r, v) \/ ~ Present(m[T2(m, r, v)][v[3]])
        BY <3>1 DEF Has2, Has3
      <4> QED BY <4>1, Translation DEF Has1, Link
    <3>3. \/ ~ Has2(n, r, v) \/ ~ Present(n[T2(n, r, v)][v[3]])
          \/ Has1(n, r, v) /\ ~ Present(n[T1(n, r, v)][v[4]])
      <4>1. CASE r = t /\ v[1] = i
        <5>1. T3(n, r, v) = f
          BY <1>1, <1>3, <4>1 DEF T3
        <5> QED BY <1>6, <2>1, <5>1 DEF Has2
      <4>2. CASE Has3(m, r, v) /\ T3(m, r, v) = t /\ v[2] = i
        <5>1. r # t
          BY <4>2, WayHasLevels
        <5>2. T3(n, r, v) = t
          BY <1>4, <2>1, <4>2, <5>1 DEF T3
        <5>3. T2(n, r, v) = f
          BY <1>1, <1>3, <4>2, <5>2 DEF T2
        <5> QED BY <1>6, <2>1, <5>3
      <4>3. CASE Has2(m, r, v) /\ T2(m, r, v) = t /\ v[3] = i
        <5>1. Has3(m, r, v)
          BY <4>3 DEF Has2
        <5>2. r # t /\ T3(m, r, v) # t /\ T3(m, r, v) \in Frame /\ level[t] = 2
          BY <4>3, <5>1, WayHasLevels
        <5>3. T3(n, r, v) = T3(m, r, v)
          BY <1>4, <2>1, <5>2 DEF T3
        <5>4. T2(n, r, v) = t
          BY <1>4, <2>1, <4>3, <5>2, <5>3 DEF T2
        <5>5. Present(n[r][v[1]]) /\ Present(n[T3(m, r, v)][v[2]])
          BY <1>4, <2>1, <4>3, <5>2 DEF Has2, Has3
        <5>6. Has1(n, r, v) /\ T1(n, r, v) = f
          BY <1>1, <1>3, <4>3, <5>3, <5>4, <5>5 DEF Has1, Has2, Has3, Link, T1
        <5> QED BY <1>6, <2>1, <5>6
      <4> QED BY <3>1, <4>1, <4>2, <4>3
    <3>4. Mmu(n, r, v) = NoEntry
      BY <3>3, NoWayNoEntry
    <3> QED BY <3>2, <3>4
  <2> QED BY <2>2, <2>3
<1> QED BY <1>3, <1>5, <1>8, <1>9, <1>10 DEF SameView, e

\* Two pages with the same entry in the same last table are one page.
LEMMA OneWayToATable ==
  ASSUME NEW m \in Memory, NEW level \in Levels, Shape(m, level),
         NEW r \in Roots(level), NEW s \in Roots(level), NEW v \in Page, NEW w \in Page,
         Has1(m, r, v), Has1(m, s, w), T1(m, r, v) = T1(m, s, w), v[4] = w[4]
  PROVE  v = w
<1>1. /\ v[1] \in Index /\ v[2] \in Index /\ v[3] \in Index /\ v[4] \in Index
      /\ w[1] \in Index /\ w[2] \in Index /\ w[3] \in Index /\ w[4] \in Index
  BY PageType
<1>2. /\ Has2(m, r, v) /\ Has2(m, s, w) /\ Has3(m, r, v) /\ Has3(m, s, w)
      /\ Link(m, T2(m, r, v), v[3]) /\ Link(m, T2(m, s, w), w[3])
  BY DEF Has1, Has2
<1>3. /\ r \in Frame /\ s \in Frame /\ level[r] = 4 /\ level[s] = 4
      /\ T3(m, r, v) \in Frame /\ T3(m, s, w) \in Frame
      /\ level[T3(m, r, v)] = 3 /\ level[T3(m, s, w)] = 3
      /\ T2(m, r, v) \in Frame /\ T2(m, s, w) \in Frame
      /\ level[T2(m, r, v)] = 2 /\ level[T2(m, s, w)] = 2
      /\ Link(m, r, v[1]) /\ Link(m, s, w[1])
      /\ Link(m, T3(m, r, v), v[2]) /\ Link(m, T3(m, s, w), w[2])
  BY <1>2, WayHasLevels
<1>w. OneWayIn(m, level)
  BY DEF Shape
<1>4. v[3] = w[3] /\ T2(m, r, v) = T2(m, s, w)
  BY <1>w, <1>1, <1>2, <1>3 DEF OneWayIn, T1
<1>5. v[2] = w[2] /\ T3(m, r, v) = T3(m, s, w)
  BY <1>w, <1>1, <1>3, <1>4 DEF OneWayIn, T2
<1>6. v[1] = w[1]
  BY <1>w, <1>1, <1>3, <1>5 DEF OneWayIn, T3
<1> QED BY <1>4, <1>5, <1>6 DEF Page

\* An entry of a last table concerns the pages that end there.
LEMMA LastEntryIsOnePage ==
  ASSUME NEW m \in Memory, NEW level \in Levels, Shape(m, level),
         NEW t \in Frame, level[t] = 1, NEW i \in Index,
         NEW e \in Entry, e.frame \in Frame,
         NEW n, n = WithEntry(m, t, i, e)
  PROVE  /\ n \in Memory /\ Shape(n, level) /\ n[t][i] = e
         /\ \A r \in Roots(level), v \in Page :
               /\ Has1(n, r, v) <=> Has1(m, r, v)
               /\ Has1(m, r, v) => T1(n, r, v) = T1(m, r, v)
               /\ (~ Has1(m, r, v) \/ T1(m, r, v) # t \/ v[4] # i) => Mmu(n, r, v) = Mmu(m, r, v)
<1>1. n \in Memory /\ n[t][i] = e
  BY DEF Memory, WithEntry
<1>2. /\ \A u \in Frame, j \in Index : u # t \/ j # i => n[u][j] = m[u][j]
      /\ \A u \in Frame : u # t => n[u] = m[u]
  BY DEF Memory, WithEntry
<1>3. Shape(n, level)
  <2>1. ASSUME NEW u \in Frame, NEW j \in Index, level[u] > 1
        PROVE  n[u][j] = m[u][j] /\ (Link(n, u, j) <=> Link(m, u, j))
    BY <1>2, <2>1 DEF Link
  <2>2. ASSUME NEW u \in Frame, NEW j \in Index PROVE EntryFits(n, level, u, j)
    <3>1. EntryFits(m, level, u, j)
      BY DEF Shape
    <3>2. CASE level[u] > 1
      BY <2>1, <3>1, <3>2 DEF EntryFits
    <3>3. CASE u = t /\ j = i
      BY <1>1, <3>3 DEF EntryFits
    <3>4. CASE ~ (level[u] > 1) /\ (u # t \/ j # i)
      BY <1>2, <3>1, <3>4 DEF EntryFits
    <3> QED BY <3>2, <3>3, <3>4
  <2>3. OneWayIn(n, level)
    <3>1. OneWayIn(m, level)
      BY DEF Shape
    <3> QED BY <2>1, <3>1 DEF OneWayIn
  <2> QED BY <2>2, <2>3 DEF Shape
<1>4. ASSUME NEW r \in Roots(level), NEW v \in Page
      PROVE  /\ Has1(n, r, v) <=> Has1(m, r, v)
             /\ Has1(m, r, v) => T1(n, r, v) = T1(m, r, v)
             /\ (~ Has1(m, r, v) \/ T1(m, r, v) # t \/ v[4] # i) => Mmu(n, r, v) = Mmu(m, r, v)
  <2>1. v[1] \in Index /\ v[2] \in Index /\ v[3] \in Index /\ v[4] \in Index /\ r \in Frame
    BY PageType DEF Roots
  <2>2. r # t /\ n[r] = m[r] /\ T3(n, r, v) = T3(m, r, v) /\ (Has3(n, r, v) <=> Has3(m, r, v))
    BY <1>2, WayHasLevels DEF T3, Has3
  <2>3. Has3(m, r, v) => /\ n[T3(m, r, v)] = m[T3(m, r, v)]
                         /\ T2(n, r, v) = T2(m, r, v)
    BY <1>2, <2>2, WayHasLevels DEF T2
  <2>4. Has2(n, r, v) <=> Has2(m, r, v)
    BY <2>2, <2>3 DEF Has2
  <2>5. Has2(m, r, v) => /\ n[T2(m, r, v)] = m[T2(m, r, v)]
                         /\ T2(n, r, v) = T2(m, r, v) /\ T1(n, r, v) = T1(m, r, v)
    BY <1>2, <2>3, WayHasLevels DEF T1, Has2
  <2>6. Has1(n, r, v) <=> Has1(m, r, v)
    BY <2>4, <2>5 DEF Has1, Link
  <2>7. Has1(m, r, v) => T1(n, r, v) = T1(m, r, v)
    BY <2>5 DEF Has1
  <2>8. ASSUME ~ Has1(m, r, v) \/ T1(m, r, v) # t \/ v[4] # i
        PROVE  Agree(m, n, r, v)
    <3>1. Has1(m, r, v) => n[T1(m, r, v)][v[4]] = m[T1(m, r, v)][v[4]]
      BY <1>2, <2>1, <2>8, WayHasLevels
    <3> QED BY <2>2, <2>3, <2>5, <3>1 DEF Agree
  <2> QED BY <2>6, <2>7, <2>8, AgreementIsSameView
<1> QED BY <1>1, <1>3, <1>4

\* A new page map begins as a copy of another one.
LEMMA CopiedRoot ==
  ASSUME NEW m \in Memory, NEW level \in Levels, Shape(m, level),
         NEW r \in Roots(level), NEW f \in Frame, level[f] = 0,
         NEW n, n = WithRoot(m, f, r),
         NEW up, up = WithLevel(level, f, 4)
  PROVE  /\ n \in Memory /\ up \in Levels /\ Shape(n, up)
         /\ Roots(up) = Roots(level) \cup {f}
         /\ \A g \in Frame : g # f => up[g] = level[g]
         /\ SameView(m, n, Roots(level))
         /\ \A v \in Page : /\ Mmu(n, f, v) = Mmu(m, r, v)
                            /\ Has1(m, r, v) => Has1(n, f, v) /\ T1(n, f, v) = T1(m, r, v)
<1>1. m[r] \in [Index -> Entry] /\ r \in Frame /\ level[r] = 4 /\ r # f
  BY DEF Memory, Roots
<1>2. n \in Memory /\ n[f] = m[r] /\ \A t \in Frame : t # f => n[t] = m[t]
  BY <1>1 DEF Memory, WithRoot
<1>v. Shape(n, level) /\ SameView(m, n, Roots(level))
  <2>1. \A t \in Frame : level[t] # 0 => n[t] = m[t]
    BY <1>2
  <2> QED BY <1>2, <2>1, OtherFramesDoNotMatter
<1>3. up \in Levels /\ up[f] = 4 /\ \A g \in Frame : g # f => up[g] = level[g]
  BY DEF Levels, WithLevel
<1>4. Roots(up) = Roots(level) \cup {f}
  BY <1>3 DEF Roots
<1>5. ASSUME NEW t \in Frame, NEW i \in Index, level[t] > 1, Link(n, t, i)
      PROVE  /\ n[t][i].frame \in Frame /\ up[n[t][i].frame] = level[t] - 1
             /\ "W" \in n[t][i].flags /\ "NX" \notin n[t][i].flags
  <2>1. EntryFits(n, level, t, i)
    BY <1>v DEF Shape
  <2>2. n[t][i].frame \in Frame /\ level[n[t][i].frame] = level[t] - 1
        /\ "W" \in n[t][i].flags /\ "NX" \notin n[t][i].flags
    BY <1>5, <2>1 DEF EntryFits
  <2>3. n[t][i].frame # f
    BY <1>5, <2>2 DEF Levels
  <2> QED BY <1>3, <2>2, <2>3
\* f stands for r.
<1> DEFINE as(t) == IF t = f THEN r ELSE t
<1>6. \A t \in Frame : /\ as(t) \in Frame /\ up[t] = level[as(t)] /\ n[t] = n[as(t)]
                       /\ as(t) # t => up[t] = 4
  BY <1>1, <1>2, <1>3
<1> HIDE DEF as
<1>l. \A t \in Frame, i \in Index : n[t][i] = n[as(t)][i] /\ (Link(n, t, i) <=> Link(n, as(t), i))
  BY <1>6 DEF Link
<1>7. Shape(n, up)
  <2>1. ASSUME NEW t \in Frame, NEW i \in Index PROVE EntryFits(n, up, t, i)
    <3>1. EntryFits(n, level, as(t), i) /\ as(t) \in Frame /\ up[t] = level[as(t)]
      BY <1>v, <1>6 DEF Shape
    <3>2. up[t] > 1 /\ Link(n, t, i) =>
              /\ n[t][i].frame \in Frame /\ up[n[t][i].frame] = up[t] - 1
              /\ "W" \in n[t][i].flags /\ "NX" \notin n[t][i].flags
      <4>1. SUFFICES ASSUME level[as(t)] > 1, Link(n, as(t), i)
                     PROVE  /\ n[as(t)][i].frame \in Frame
                            /\ up[n[as(t)][i].frame] = level[as(t)] - 1
                            /\ "W" \in n[as(t)][i].flags /\ "NX" \notin n[as(t)][i].flags
        <5>1. n[t][i] = n[as(t)][i] /\ (Link(n, t, i) <=> Link(n, as(t), i))
          BY <1>l
        <5> QED BY <3>1, <5>1
      <4> QED BY <1>5, <3>1, <4>1
    <3> QED BY <1>l, <3>1, <3>2 DEF EntryFits
  <2>2. ASSUME NEW t \in Frame, NEW u \in Frame, NEW i \in Index, NEW j \in Index,
               up[t] > 1, up[u] > 1, Link(n, t, i), Link(n, u, j), n[t][i].frame = n[u][j].frame
        PROVE  i = j /\ (t = u \/ up[t] = 4)
    <3>1. /\ as(t) \in Frame /\ as(u) \in Frame /\ level[as(t)] > 1 /\ level[as(u)] > 1
          /\ Link(n, as(t), i) /\ Link(n, as(u), j) /\ n[as(t)][i].frame = n[as(u)][j].frame
      BY <1>6, <1>l, <2>2
    <3>2. OneWayIn(n, level)
      BY <1>v DEF Shape
    <3>3. i = j /\ (as(t) = as(u) \/ level[as(t)] = 4)
      BY <3>1, <3>2 DEF OneWayIn
    <3>4. as(t) = as(u) => t = u \/ up[t] = 4
      BY <1>1, <1>3 DEF as
    <3> QED BY <1>6, <3>3, <3>4
  <2> QED BY <2>1, <2>2 DEF Shape, OneWayIn
<1>8. ASSUME NEW v \in Page
      PROVE  /\ Mmu(n, f, v) = Mmu(m, r, v)
             /\ Has1(m, r, v) => Has1(n, f, v) /\ T1(n, f, v) = T1(m, r, v)
  <2>1. T3(n, f, v) = T3(m, r, v) /\ T2(n, f, v) = T2(n, r, v) /\ T1(n, f, v) = T1(n, r, v)
        /\ (Has1(n, f, v) <=> Has1(n, r, v))
    BY <1>1, <1>2 DEF T3, T2, T1, Has1, Has2, Has3
  <2>2. T3(n, f, v) = T3(n, r, v) /\ n[f] = n[r]
    BY <1>1, <1>2 DEF T3
  <2>3. Mmu(n, f, v) = Mmu(n, r, v)
    BY <2>1, <2>2, MmuAnswers
  <2> QED BY <1>v, <2>1, <2>3 DEF SameView
<1> QED BY <1>2, <1>v, <1>3, <1>4, <1>7, <1>8
-----------------------------------------------------------------------------
(* Walks                                                                   *)

Walks == [mem : Memory, free : SUBSET Frame, at : Frame, ok : BOOLEAN]

Safe(s, level) == s \in Walks /\ s.ok /\ Sound(s.mem, s.free, level)

\* From s to t free frames became tables, and nothing else happened.
Grown(s, level, t, up) ==
    /\ Safe(s, level) /\ Safe(t, up)
    /\ t.free \subseteq s.free
    /\ \A g \in Frame : g \notin s.free \ t.free => up[g] = level[g]
    /\ SameView(s.mem, t.mem, spaces)
    /\ \A g \in Frame, i \in Index :
          level[g] # 0 /\ Present(s.mem[g][i]) => t.mem[g][i] = s.mem[g][i]

LEMMA ViaIsHere ==
  ASSUME NEW m, NEW fr, NEW level, Sound(m, fr, level), NEW f \in Frame \ {0}
  PROVE  Via(m, f) = f
BY DEF Sound, Via

LEMMA SoundStays ==
  ASSUME NEW m, NEW fr, NEW level, Sound(m, fr, level),
         NEW n \in Memory, NEW rest \in SUBSET fr, NEW up \in Levels,
         Shape(n, up), Roots(up) = Roots(level), SameView(m, n, spaces),
         \A g \in Frame : g \notin fr \ rest => up[g] = level[g]
  PROVE  Sound(n, rest, up)
<1>1. \A r \in spaces, f \in Frame \ {0} : Mmu(n, r, Same(f)).frame = f
  <2> SUFFICES ASSUME NEW r \in spaces, NEW f \in Frame \ {0}
               PROVE  Mmu(n, r, Same(f)).frame = f
    OBVIOUS
  <2>1. Same(f) \in Page
    BY WindowAssumption
  <2>2. Mmu(n, r, Same(f)) = Mmu(m, r, Same(f))
    BY <2>1 DEF SameView
  <2> QED BY <2>2 DEF Sound
<1>2. \A f \in rest \cup data \cup {0} : up[f] = 0
  BY FrameAssumption DEF Sound
<1>3. rest \subseteq Frame /\ Roots(up) = spaces /\ cr3 \in spaces
      /\ data \subseteq Frame \ {0} /\ rest \cap (data \cup {0}) = {}
  BY DEF Sound
<1> QED BY <1>1, <1>2, <1>3 DEF Sound

LEMMA NothingGrew ==
  ASSUME NEW s, NEW level, Safe(s, level), NEW a \in Frame
  PROVE  Grown(s, level, s, level) /\ Grown(s, level, [s EXCEPT !.at = a], level)
<1> DEFINE t == [s EXCEPT !.at = a]
<1>1. t \in Walks /\ t.mem = s.mem /\ t.free = s.free /\ t.ok = s.ok
  BY DEF Safe, Walks
<1> HIDE DEF t
<1>2. Safe(t, level)
  BY <1>1 DEF Safe
<1>3. SameView(s.mem, s.mem, spaces)
  BY DEF SameView
<1>4. Grown(s, level, t, level)
  BY <1>1, <1>2, <1>3 DEF Grown
<1>5. Grown(s, level, s, level)
  BY <1>3 DEF Grown
<1> QED BY <1>4, <1>5 DEF t

LEMMA GrownTwice ==
  ASSUME NEW s, NEW level, NEW t, NEW up, NEW u, NEW top,
         Grown(s, level, t, up), Grown(t, up, u, top)
  PROVE  Grown(s, level, u, top)
<1>1. SameView(s.mem, u.mem, spaces)
  BY DEF Grown, SameView
<1>2. u.free \subseteq s.free /\ \A g \in Frame : g \notin s.free \ u.free => top[g] = level[g]
  BY DEF Grown
<1>3. \A g \in Frame, i \in Index :
          level[g] # 0 /\ Present(s.mem[g][i]) => u.mem[g][i] = s.mem[g][i]
  <2> SUFFICES ASSUME NEW g \in Frame, NEW i \in Index, level[g] # 0, Present(s.mem[g][i])
               PROVE  u.mem[g][i] = s.mem[g][i]
    OBVIOUS
  <2>1. t.mem[g][i] = s.mem[g][i]
    BY DEF Grown
  <2>2. up[g] = level[g]
    BY DEF Grown, Safe, Sound
  <2> QED BY <2>1, <2>2 DEF Grown
<1> QED BY <1>1, <1>2, <1>3 DEF Grown

\* Walk z is walk s after frame f was taken.
Took(z, s, f) == z.free = s.free \ {f} /\ z.at = s.at

\* A frame that is made empty, and is free no more.
LEMMA ZeroedIsGrown ==
  ASSUME NEW s, NEW level, Safe(s, level), NEW f \in s.free
  PROVE  /\ Grown(s, level, Zeroed(s, f), level)
         /\ Zeroed(s, f).mem = [s.mem EXCEPT ![f] = ZeroPage]
         /\ Zeroed(s, f).mem[f] = ZeroPage
         /\ Took(Zeroed(s, f), s, f)
         /\ f \in Frame \ {0} /\ level[f] = 0
<1> DEFINE z == Zeroed(s, f)
           n == [s.mem EXCEPT ![f] = ZeroPage]
<1>1. s \in Walks /\ s.ok /\ Sound(s.mem, s.free, level)
  BY DEF Safe
<1>2. f \in Frame \ {0} /\ level[f] = 0 /\ s.mem \in Memory /\ level \in Levels
      /\ Shape(s.mem, level) /\ Roots(level) = spaces
  BY <1>1 DEF Sound
<1>3. Via(s.mem, f) = f /\ f # 0
  BY <1>1, <1>2, ViaIsHere
<1>4. n \in Memory /\ n[f] = ZeroPage /\ \A t \in Frame : level[t] # 0 => n[t] = s.mem[t]
  BY <1>2, ZeroPageIsEmpty DEF Memory
<1>5. z \in Walks /\ z.mem = n /\ z.free = s.free \ {f} /\ z.at = s.at /\ z.ok
  BY <1>1, <1>3, <1>4 DEF Zeroed, Walks
<1> HIDE DEF z, n
<1>6. Shape(n, level) /\ SameView(s.mem, n, spaces)
  BY <1>2, <1>4, OtherFramesDoNotMatter
<1>7. Sound(n, s.free \ {f}, level)
  BY <1>1, <1>2, <1>4, <1>6, SoundStays
<1>8. Safe(z, level)
  BY <1>5, <1>7 DEF Safe
<1>9. Grown(s, level, z, level)
  BY <1>4, <1>5, <1>6, <1>8 DEF Grown
<1> QED BY <1>2, <1>4, <1>5, <1>9 DEF z, n, Took

\* One level down.  What is found was there or is a new table.
LEMMA NextLevel ==
  ASSUME NEW s, NEW level, Safe(s, level), s.at # 0, level[s.at] > 1,
         NEW i \in Index, Present(s.mem[s.at][i]) => Link(s.mem, s.at, i)
  PROVE  LET t == _get_next_level(s, i)
         IN  /\ \E up \in Levels : Grown(s, level, t, up)
             /\ \/ t.at = 0 /\ t.free = {}
                \/ t.at # 0 /\ Link(t.mem, s.at, i) /\ t.mem[s.at][i].frame = t.at
             /\ Link(s.mem, s.at, i) => t = [s EXCEPT !.at = s.mem[s.at][i].frame]
                                        /\ s.mem[s.at][i].frame \in Frame \ {0}
<1> DEFINE t == _get_next_level(s, i)
           e == s.mem[s.at][i]
           a == s.at
<1>1. s \in Walks /\ s.ok = TRUE /\ Sound(s.mem, s.free, level) /\ a \in Frame \ {0}
      /\ s.free \subseteq Frame
  BY DEF Safe, Walks
<1>2. /\ s.mem \in Memory /\ level \in Levels /\ Shape(s.mem, level) /\ Roots(level) = spaces
      /\ level[0] = 0
  BY <1>1 DEF Sound
<1>3. Via(s.mem, a) = a
  BY <1>1, ViaIsHere
<1>4. Get(s, i) = e
  BY <1>1, <1>3 DEF Get
<1>5. CASE Present(e)
  <2>1. Link(s.mem, a, i)
    BY <1>5
  <2>2. e.frame \in Frame /\ level[e.frame] = level[a] - 1
    BY <1>1, <1>2, <2>1 DEF Shape, EntryFits
  <2>3. e.frame # 0
    BY <1>1, <1>2, <2>2 DEF Levels
  <2>4. t = [s EXCEPT !.at = e.frame]
    BY <1>4, <1>5 DEF _get_next_level
  <2>5. t.at = e.frame /\ t.mem = s.mem
    BY <1>1, <2>4 DEF Walks
  <2>6. Grown(s, level, t, level)
    BY <2>2, <2>4, NothingGrew
  <2> QED BY <1>2, <2>1, <2>2, <2>3, <2>4, <2>5, <2>6
<1>6. CASE ~ Present(e) /\ s.free = {}
  <2>1. t = [s EXCEPT !.at = 0]
    <3>1. t = [s EXCEPT !.at = 0, !.ok = @ /\ Via(s.mem, s.at) # 0]
      BY <1>4, <1>6 DEF _get_next_level
    <3>2. (s.ok /\ Via(s.mem, s.at) # 0) = TRUE
      BY <1>1, <1>3
    <3> QED BY <1>1, <3>1, <3>2 DEF Walks
  <2>2. t.at = 0 /\ t.free = {}
    BY <1>1, <1>6, <2>1 DEF Walks
  <2>3. Grown(s, level, t, level)
    BY <2>1, NothingGrew, FrameAssumption
  <2> QED BY <1>2, <1>6, <2>2, <2>3 DEF Link
<1>7. CASE ~ Present(e) /\ s.free # {}
  <2> DEFINE f == Min(s.free)
             z == Zeroed(s, f)
             new == [frame |-> f, flags |-> {"P", "W"}]
             n == [z.mem EXCEPT ![a][i] = new]
             up == [level EXCEPT ![f] = level[a] - 1]
  <2>1. f \in s.free
    BY <1>1, <1>7, MinIsIn
  <2> HIDE DEF f
  <2>2. /\ Grown(s, level, z, level) /\ z.mem = [s.mem EXCEPT ![f] = ZeroPage] /\ z.mem[f] = ZeroPage
        /\ z.free = s.free \ {f} /\ z.at = a /\ f \in Frame \ {0} /\ level[f] = 0
    <3>1. /\ Grown(s, level, z, level) /\ z.mem = [s.mem EXCEPT ![f] = ZeroPage] /\ z.mem[f] = ZeroPage
          /\ Took(z, s, f) /\ f \in Frame \ {0} /\ level[f] = 0
      BY <2>1, ZeroedIsGrown
    <3> QED BY <3>1 DEF Took
  <2>3. z \in Walks /\ z.ok = TRUE /\ Sound(z.mem, z.free, level) /\ z.mem \in Memory
        /\ Shape(z.mem, level) /\ SameView(s.mem, z.mem, spaces)
    <3>1. Safe(z, level)
      BY <2>2 DEF Grown
    <3> QED BY <2>2, <3>1 DEF Grown, Safe, Walks, Sound
  <2>4. Via(z.mem, a) = a
    BY <1>1, <2>3, ViaIsHere
  <2>5. t = [z EXCEPT !.mem = n, !.at = f]
    <3>1. t = [Put(z, i, new) EXCEPT !.at = f]
      BY <1>4, <1>7 DEF _get_next_level, f
    <3>2. Put(z, i, new) = [z EXCEPT !.mem = n]
      BY <1>1, <2>2, <2>3, <2>4 DEF Put, Walks
    <3> QED BY <2>3, <3>1, <3>2 DEF Walks
  <2> HIDE DEF z, n, up, new
  <2>6. a # f /\ ~ Present(z.mem[a][i])
    BY <1>1, <1>2, <1>7, <2>2 DEF Memory
  <2>7. /\ n \in Memory /\ up \in Levels /\ \A g \in Frame : g # f => up[g] = level[g]
        /\ up[f] = level[a] - 1 /\ n[a][i] = new
        /\ Shape(n, up) /\ Roots(up) = Roots(level) /\ SameView(z.mem, n, Roots(level))
    <3>1. n = WithEntry(z.mem, a, i, Table(f)) /\ up = WithLevel(level, f, level[a] - 1) /\ new = Table(f)
      BY DEF n, up, new, WithEntry, WithLevel, Table
    <3>2. a \in Frame /\ level[a] > 1
      BY <1>1
    <3>3. z.mem \in Memory /\ level \in Levels /\ Shape(z.mem, level) /\ ~ Present(z.mem[a][i])
      BY <1>2, <2>3, <2>6
    <3>4. f \in Frame /\ level[f] = 0 /\ z.mem[f] = ZeroPage
      BY <2>2
    <3> HIDE DEF a
    <3> QED BY <3>1, <3>2, <3>3, <3>4, NewTableDoesNotShow
  <2>8. t \in Walks /\ t.mem = n /\ t.free = z.free /\ t.at = f /\ t.ok
    BY <2>2, <2>3, <2>5, <2>7 DEF Walks
  <2>9. SameView(s.mem, n, spaces)
    BY <1>2, <2>3, <2>7 DEF SameView
  <2>10. Sound(n, z.free, up)
    BY <1>1, <2>1, <2>2, <2>7, <2>9, SoundStays
  <2>11. \A g \in Frame, j \in Index :
            level[g] # 0 /\ Present(s.mem[g][j]) => n[g][j] = s.mem[g][j]
    <3> SUFFICES ASSUME NEW g \in Frame, NEW j \in Index, level[g] # 0, Present(s.mem[g][j])
                 PROVE  n[g][j] = s.mem[g][j]
      OBVIOUS
    <3>1. z.mem[g][j] = s.mem[g][j]
      BY <2>2 DEF Grown
    <3>2. g # a \/ j # i
      BY <1>7
    <3> QED BY <2>3, <3>1, <3>2 DEF n, Memory
  <2>12. Safe(t, up)
    BY <2>8, <2>10 DEF Safe
  <2>13. Grown(s, level, t, up)
    BY <2>1, <2>2, <2>7, <2>8, <2>9, <2>11, <2>12 DEF Grown
  <2>14. Link(n, a, i) /\ n[a][i].frame = f
    BY <2>7 DEF new, Link, Present
  <2> QED BY <1>7, <2>2, <2>7, <2>8, <2>13, <2>14 DEF Link
<1> QED BY <1>5, <1>6, <1>7

\* What grown walks may rely on.
LEMMA GrownFacts ==
  ASSUME NEW s, NEW level, NEW t, NEW up, Grown(s, level, t, up)
  PROVE  /\ t \in Walks /\ t.ok = TRUE /\ Sound(t.mem, t.free, up)
         /\ t.mem \in Memory /\ up \in Levels /\ Shape(t.mem, up) /\ Roots(up) = spaces
         /\ up[0] = 0 /\ t.at \in Frame /\ Safe(t, up)
BY DEF Grown, Safe, Sound, Walks

\* A link that was there is there, and leads to the same table.
LEMMA LinksStay ==
  ASSUME NEW s, NEW level, NEW t, NEW up, Grown(s, level, t, up),
         NEW g \in Frame, level[g] # 0, NEW i \in Index, Present(s.mem[g][i])
  PROVE  /\ t.mem[g][i] = s.mem[g][i] /\ Present(t.mem[g][i])
         /\ Link(s.mem, g, i) => Link(t.mem, g, i)
BY DEF Grown, Link

\* A walk for a page that is not in a large page ends at its last table, or at
\* the end of the free frames.  If it finds the table it changes nothing.
LEMMA WalkArrives ==
  ASSUME NEW s, NEW level, Safe(s, level), s.at \in spaces,
         NEW v \in Page, "PS" \notin Mmu(s.mem, s.at, v).flags
  PROVE  LET r == s.at
             t == Walk(s, v)
         IN  /\ \E up \in Levels : Grown(s, level, t, up)
             /\ \/ t.at = 0 /\ t.free = {}
                \/ t.at # 0 /\ Has1(t.mem, r, v) /\ T1(t.mem, r, v) = t.at
             /\ Has1(s.mem, r, v) => t = [s EXCEPT !.at = T1(s.mem, r, v)]
<1> DEFINE r == s.at
           a == _get_next_level(s, v[1])
           b == _get_next_level(a, v[2])
           c == _get_next_level(b, v[3])
<1>w. Walk(s, v) = c
  BY DEF Walk
<1>v. v[1] \in Index /\ v[2] \in Index /\ v[3] \in Index
  BY PageType
<1>0. ASSUME NEW x, x.at = 0, NEW i PROVE _get_next_level(x, i) = x
  BY <1>0 DEF _get_next_level
<1> HIDE DEF a, b, c
<1>s. /\ s.mem \in Memory /\ level \in Levels /\ Shape(s.mem, level) /\ Roots(level) = spaces
      /\ level[0] = 0 /\ s \in Walks
  BY DEF Safe, Sound
<1>r. r \in Frame /\ level[r] = 4 /\ r # 0
  BY <1>s DEF Roots
<1>1. Present(s.mem[r][v[1]]) => Link(s.mem, r, v[1])
  BY <1>s, <1>r, <1>v DEF Shape, EntryFits
<1>2. /\ \E up \in Levels : Grown(s, level, a, up)
      /\ \/ a.at = 0 /\ a.free = {}
         \/ a.at # 0 /\ Link(a.mem, r, v[1]) /\ a.mem[r][v[1]].frame = a.at
      /\ Link(s.mem, r, v[1]) => a = [s EXCEPT !.at = s.mem[r][v[1]].frame]
                                 /\ s.mem[r][v[1]].frame \in Frame \ {0}
  BY <1>r, <1>v, <1>1, NextLevel DEF a
<1>3. PICK la \in Levels : Grown(s, level, a, la)
  BY <1>2
<1>4. /\ a.mem \in Memory /\ Shape(a.mem, la) /\ Roots(la) = spaces /\ la[0] = 0 /\ a.at \in Frame
      /\ r \in Roots(la) /\ Safe(a, la)
  BY <1>3, GrownFacts
<1>5. CASE a.at = 0
  <2>1. b = a
    BY <1>0, <1>5 DEF b
  <2>2. c = a
    BY <1>0, <1>5, <2>1 DEF c
  <2>3. ~ Has1(s.mem, r, v)
    <3>1. Has1(s.mem, r, v) => Link(s.mem, r, v[1])
      BY <1>1 DEF Has1, Has2, Has3
    <3>2. Link(s.mem, r, v[1]) => a.at = s.mem[r][v[1]].frame /\ a.at # 0
      BY <1>2, <1>s DEF Walks
    <3> QED BY <1>5, <3>1, <3>2
  <2> QED BY <1>w, <1>2, <1>5, <2>2, <2>3
<1>6. CASE a.at # 0
  <2>1. Link(a.mem, r, v[1]) /\ Has3(a.mem, r, v) /\ T3(a.mem, r, v) = a.at
    BY <1>2, <1>6 DEF Link, Has3, T3
  <2>2. la[a.at] = 3
    BY <1>4, <2>1, WayHasLevels
  <2>3. Present(a.mem[a.at][v[2]]) => Link(a.mem, a.at, v[2])
    BY <1>4, <1>v, <2>2 DEF Shape, EntryFits
  <2>4. /\ \E up \in Levels : Grown(a, la, b, up)
        /\ \/ b.at = 0 /\ b.free = {}
           \/ b.at # 0 /\ Link(b.mem, a.at, v[2]) /\ b.mem[a.at][v[2]].frame = b.at
        /\ Link(a.mem, a.at, v[2]) => b = [a EXCEPT !.at = a.mem[a.at][v[2]].frame]
                                      /\ a.mem[a.at][v[2]].frame \in Frame \ {0}
    BY <1>4, <1>6, <1>v, <2>2, <2>3, NextLevel DEF b
  <2>5. PICK lb \in Levels : Grown(a, la, b, lb)
    BY <2>4
  <2>6. /\ b.mem \in Memory /\ Shape(b.mem, lb) /\ Roots(lb) = spaces /\ lb[0] = 0 /\ b.at \in Frame
        /\ r \in Roots(lb) /\ Safe(b, lb) /\ Grown(s, level, b, lb)
    BY <1>3, <2>5, GrownFacts, GrownTwice
  <2>7. Has1(s.mem, r, v) => /\ a = [s EXCEPT !.at = T3(s.mem, r, v)] /\ a.mem = s.mem
                             /\ Link(a.mem, a.at, v[2])
                             /\ b = [a EXCEPT !.at = T2(s.mem, r, v)] /\ b.at = T2(s.mem, r, v)
                             /\ b.mem = s.mem /\ b.at # 0
    <3> SUFFICES ASSUME Has1(s.mem, r, v)
                 PROVE  /\ a = [s EXCEPT !.at = T3(s.mem, r, v)] /\ a.mem = s.mem
                        /\ Link(a.mem, a.at, v[2])
                        /\ b = [a EXCEPT !.at = T2(s.mem, r, v)] /\ b.at = T2(s.mem, r, v)
                        /\ b.mem = s.mem /\ b.at # 0
      OBVIOUS
    <3>1. Link(s.mem, r, v[1]) /\ Link(s.mem, T3(s.mem, r, v), v[2])
      BY <1>s, WayHasLevels DEF Has1, Has2
    <3>2. a = [s EXCEPT !.at = T3(s.mem, r, v)]
      BY <1>2, <3>1 DEF T3
    <3>3. a.mem = s.mem /\ a.at = T3(s.mem, r, v)
      BY <1>s, <3>2 DEF Walks
    <3>4. Link(a.mem, a.at, v[2]) /\ a.mem[a.at][v[2]].frame = T2(s.mem, r, v)
      BY <3>1, <3>3 DEF T2
    <3>5. b = [a EXCEPT !.at = T2(s.mem, r, v)] /\ T2(s.mem, r, v) # 0
      BY <2>4, <3>4
    <3>6. b.at = T2(s.mem, r, v) /\ b.mem = s.mem
      BY <1>4, <3>3, <3>5 DEF Safe, Walks
    <3> QED BY <3>2, <3>3, <3>4, <3>5, <3>6
  <2>8. CASE b.at = 0
    <3>1. c = b
      BY <1>0, <2>8 DEF c
    <3> QED BY <1>w, <2>4, <2>6, <2>7, <2>8, <3>1
  <2>9. CASE b.at # 0
    <3>1. Has3(b.mem, r, v) /\ T3(b.mem, r, v) = a.at
      <4>1. la[r] # 0 /\ Present(a.mem[r][v[1]])
        BY <1>4, <2>1 DEF Roots, Link
      <4>2. b.mem[r][v[1]] = a.mem[r][v[1]] /\ Present(b.mem[r][v[1]])
        BY <1>r, <1>v, <2>5, <4>1, LinksStay
      <4> QED BY <2>1, <4>2 DEF Has3, T3
    <3>2. Has2(b.mem, r, v) /\ T2(b.mem, r, v) = b.at
      BY <2>4, <2>9, <3>1 DEF Has2, T2, Link
    <3>3. lb[b.at] = 2
      BY <2>6, <3>2, WayHasLevels
    <3>4. Present(b.mem[b.at][v[3]]) => Link(b.mem, b.at, v[3])
      <4>1. Mmu(b.mem, r, v) = Mmu(s.mem, r, v)
        BY <2>6 DEF Grown, SameView
      <4>2. Has1(b.mem, r, v) <=> Link(b.mem, b.at, v[3])
        BY <3>2 DEF Has1
      <4> QED BY <2>6, <3>2, <4>1, <4>2, Translation
    <3>5. /\ \E up \in Levels : Grown(b, lb, c, up)
          /\ \/ c.at = 0 /\ c.free = {}
             \/ c.at # 0 /\ Link(c.mem, b.at, v[3]) /\ c.mem[b.at][v[3]].frame = c.at
          /\ Link(b.mem, b.at, v[3]) => c = [b EXCEPT !.at = b.mem[b.at][v[3]].frame]
                                        /\ b.mem[b.at][v[3]].frame \in Frame \ {0}
      BY <2>6, <2>9, <1>v, <3>3, <3>4, NextLevel DEF c
    <3>6. PICK lc \in Levels : Grown(b, lb, c, lc)
      BY <3>5
    <3>7. Grown(s, level, c, lc)
      BY <2>6, <3>6, GrownTwice
    <3>8. c.at # 0 => Has1(c.mem, r, v) /\ T1(c.mem, r, v) = c.at
      <4>1. lb[r] # 0 /\ Present(b.mem[r][v[1]])
        BY <2>6, <3>1 DEF Roots, Has3
      <4>2. c.mem[r][v[1]] = b.mem[r][v[1]] /\ Present(c.mem[r][v[1]])
        BY <1>r, <1>v, <3>6, <4>1, LinksStay
      <4>3. lb[a.at] = 3
        BY <2>6, <3>1, WayHasLevels
      <4>4. Present(b.mem[a.at][v[2]])
        BY <3>1, <3>2 DEF Has2
      <4>5. c.mem[a.at][v[2]] = b.mem[a.at][v[2]] /\ Present(c.mem[a.at][v[2]])
        BY <1>4, <1>v, <3>6, <4>3, <4>4, LinksStay
      <4>6. Has3(c.mem, r, v) /\ T3(c.mem, r, v) = a.at
        BY <3>1, <4>2 DEF Has3, T3
      <4>7. Has2(c.mem, r, v) /\ T2(c.mem, r, v) = b.at
        BY <3>1, <3>2, <4>5, <4>6 DEF Has2, T2
      <4> QED BY <3>5, <4>7 DEF Has1, T1
    <3>9. Has1(s.mem, r, v) => c = [s EXCEPT !.at = T1(s.mem, r, v)]
      <4> SUFFICES ASSUME Has1(s.mem, r, v) PROVE c = [s EXCEPT !.at = T1(s.mem, r, v)]
        OBVIOUS
      <4>1. Link(b.mem, b.at, v[3]) /\ b.mem[b.at][v[3]].frame = T1(s.mem, r, v)
        BY <2>7 DEF Has1, T1
      <4> QED BY <1>s, <2>7, <3>5, <4>1 DEF Walks
    <3> QED BY <1>w, <3>5, <3>7, <3>8, <3>9
  <2> QED BY <2>8, <2>9
<1> QED BY <1>5, <1>6
-----------------------------------------------------------------------------
(* The end of a walk                                                       *)

LEMMA CallerPagesArePages ==
  /\ CallerPages \subseteq Page
  /\ \A a \in Areas : a.pages \in Seq(CallerPages) /\ a.prot \in Prots
<1>1. CallerPages \subseteq Page
  BY BootAssumption DEF CallerPages
<1>2. ASSUME NEW a \in Areas PROVE a.pages \in Seq(CallerPages)
  <2>1. a.pages \in Seq(Page)
    BY BootAssumption
  <2>2. \A i \in 1 .. Len(a.pages) : a.pages[i] \in CallerPages
    BY <2>1 DEF CallerPages
  <2> QED BY <2>1, <2>2
<1> QED BY <1>1, <1>2 DEF Prots

\* How the CPU sees an entry of a last table.
Shown(e, a) ==
    IF ~ Present(e) THEN a = NoEntry
    ELSE a.frame = e.frame /\ \A f \in {"P", "W", "NX", "PS"} : f \in a.flags <=> f \in e.flags

LEMMA PresentHasWay ==
  ASSUME NEW m \in Memory, NEW level \in Levels, Shape(m, level),
         NEW r \in Roots(level), NEW v \in Page
  PROVE  /\ Has1(m, r, v) => Shown(m[T1(m, r, v)][v[4]], Mmu(m, r, v))
         /\ Present(Mmu(m, r, v)) /\ "PS" \notin Mmu(m, r, v).flags
               => Has1(m, r, v) /\ Present(m[T1(m, r, v)][v[4]])
<1>1. Has1(m, r, v) => Shown(m[T1(m, r, v)][v[4]], Mmu(m, r, v))
  BY Translation DEF Shown
<1>2. ~ Present(NoEntry)
  BY ZeroPageIsEmpty
<1>3. Present(Mmu(m, r, v)) => Has2(m, r, v) /\ Present(m[T2(m, r, v)][v[3]])
  BY <1>2, NoWayNoEntry
<1>4. Present(Mmu(m, r, v)) /\ "PS" \notin Mmu(m, r, v).flags => Has1(m, r, v)
  BY <1>3, Translation
<1> QED BY <1>1, <1>2, <1>4, NoWayNoEntry

\* Between memories m and n, the entry of page v in table t became e.
EntryShows(m, n, t, v, e) ==
    \A q \in spaces, x \in Page :
        IF x = v /\ Has1(m, q, x) /\ T1(m, q, x) = t
        THEN Has1(n, q, x) /\ T1(n, q, x) = t /\ Shown(e, Mmu(n, q, x))
        ELSE Mmu(n, q, x) = Mmu(m, q, x) /\ (Has1(m, q, x) => T1(n, q, x) = T1(m, q, x))

\* Walk w in page map r has come to the last table for page v.
Arrived(w, up, r, v) ==
    /\ Safe(w, up) /\ w.at # 0 /\ r \in spaces /\ v \in CallerPages
    /\ Has1(w.mem, r, v) /\ T1(w.mem, r, v) = w.at

\* Walk u is walk w but for the contents of memory.
MemoryOnly(u, w) == u.ok = TRUE /\ u.free = w.free /\ u.at = w.at

LastEntry(e) == e \in Entry /\ e.frame \in Frame

LEMMA LastEntryIsPut ==
  ASSUME NEW w, NEW up, NEW r, NEW v, Arrived(w, up, r, v), NEW e, LastEntry(e)
  PROVE  /\ Get(w, v[4]) = w.mem[w.at][v[4]]
         /\ MemoryOnly(Put(w, v[4], e), w)
         /\ Sound(Put(w, v[4], e).mem, w.free, up)
         /\ EntryShows(w.mem, Put(w, v[4], e).mem, w.at, v, e)
<1> DEFINE u == Put(w, v[4], e)
<1> DEFINE n == WithEntry(w.mem, w.at, v[4], e)
<1>1. /\ w \in Walks /\ w.ok = TRUE /\ Sound(w.mem, w.free, up) /\ w.mem \in Memory
      /\ up \in Levels /\ Shape(w.mem, up) /\ Roots(up) = spaces /\ w.at \in Frame \ {0}
      /\ r \in spaces /\ v \in CallerPages /\ Has1(w.mem, r, v) /\ T1(w.mem, r, v) = w.at
      /\ e \in Entry /\ e.frame \in Frame
  BY DEF Safe, Sound, Walks, Arrived, LastEntry
<1>2. v \in Page /\ v[4] \in Index
  BY <1>1, CallerPagesArePages, PageType
<1>3. Via(w.mem, w.at) = w.at
  BY <1>1, ViaIsHere
<1>4. Get(w, v[4]) = w.mem[w.at][v[4]]
  BY <1>1, <1>3 DEF Get
<1>5. up[w.at] = 1
  BY <1>1, <1>2, WayHasLevels
<1> HIDE DEF n
<1>6. /\ n \in Memory /\ Shape(n, up) /\ n[w.at][v[4]] = e
      /\ \A q \in Roots(up), x \in Page :
            /\ Has1(n, q, x) <=> Has1(w.mem, q, x)
            /\ Has1(w.mem, q, x) => T1(n, q, x) = T1(w.mem, q, x)
            /\ (~ Has1(w.mem, q, x) \/ T1(w.mem, q, x) # w.at \/ x[4] # v[4])
                   => Mmu(n, q, x) = Mmu(w.mem, q, x)
  BY <1>1, <1>2, <1>5, LastEntryIsOnePage DEF n
<1>7. u.mem = n /\ u.free = w.free /\ u.at = w.at /\ u.ok = TRUE
  <2>1. u = [w EXCEPT !.mem = n, !.ok = TRUE]
    BY <1>1, <1>3 DEF Put, n, WithEntry
  <2> QED BY <1>1, <2>1 DEF Walks
<1>8. ASSUME NEW q \in spaces, NEW x \in Page
      PROVE  IF x = v /\ Has1(w.mem, q, x) /\ T1(w.mem, q, x) = w.at
             THEN /\ Has1(n, q, x) /\ T1(n, q, x) = w.at
                  /\ Shown(e, Mmu(n, q, x))
             ELSE /\ Mmu(n, q, x) = Mmu(w.mem, q, x)
                  /\ Has1(w.mem, q, x) => T1(n, q, x) = T1(w.mem, q, x)
  <2>1. CASE x = v /\ Has1(w.mem, q, x) /\ T1(w.mem, q, x) = w.at
    <3>1. Has1(n, q, x) /\ T1(n, q, x) = w.at
      BY <1>1, <1>6, <2>1
    <3>2. Shown(n[T1(n, q, x)][x[4]], Mmu(n, q, x))
      BY <1>1, <1>6, <3>1, PresentHasWay
    <3> QED BY <1>6, <2>1, <3>1, <3>2
  <2>2. CASE ~ (x = v /\ Has1(w.mem, q, x) /\ T1(w.mem, q, x) = w.at)
    <3>1. ~ Has1(w.mem, q, x) \/ T1(w.mem, q, x) # w.at \/ x[4] # v[4]
      BY <1>1, <1>2, <2>2, OneWayToATable
    <3> QED BY <1>1, <1>6, <2>2, <3>1
  <2> QED BY <2>1, <2>2
<1>9. Sound(n, w.free, up)
  <2>1. \A q \in spaces, f \in Frame \ {0} : Mmu(n, q, Same(f)).frame = f
    <3> SUFFICES ASSUME NEW q \in spaces, NEW f \in Frame \ {0}
                 PROVE  Mmu(n, q, Same(f)).frame = f
      OBVIOUS
    <3>1. Same(f) \in Page /\ Same(f) # v
      BY <1>1, WindowAssumption
    <3>2. Mmu(n, q, Same(f)) = Mmu(w.mem, q, Same(f))
      BY <1>8, <3>1
    <3> QED BY <1>1, <3>2 DEF Sound
  <2> QED BY <1>1, <1>6, <2>1 DEF Sound
<1> QED BY <1>4, <1>7, <1>8, <1>9 DEF EntryShows, MemoryOnly

\* Calm only looks at pages that are present.
LEMMA CalmStays ==
  ASSUME NEW m, NEW fr, NEW level, Sound(m, fr, level), Calm(m, fr), NEW n, NEW rest \in SUBSET fr,
         \A r \in spaces, v \in CallerPages :
            /\ "PS" \notin Mmu(n, r, v).flags
            /\ Present(Mmu(n, r, v)) => /\ Present(Mmu(m, r, v))
                                        /\ Mmu(n, r, v).frame = Mmu(m, r, v).frame
                                        /\ T1(n, r, v) = T1(m, r, v)
  PROVE  Calm(n, rest)
BY DEF Calm

SameTables(m, n) ==
    \A r \in spaces, v \in CallerPages : Present(Mmu(m, r, v)) => T1(n, r, v) = T1(m, r, v)

LEMMA CalmInSameView ==
  ASSUME NEW m, NEW fr, NEW level, Sound(m, fr, level), Calm(m, fr), NEW n, NEW rest \in SUBSET fr,
         SameView(m, n, spaces)
  PROVE  Calm(n, rest) /\ SameTables(m, n)
<1> SUFFICES ASSUME NEW r \in spaces, NEW v \in CallerPages
             PROVE  /\ "PS" \notin Mmu(n, r, v).flags
                    /\ Present(Mmu(n, r, v)) => /\ Present(Mmu(m, r, v))
                                                /\ Mmu(n, r, v).frame = Mmu(m, r, v).frame
                    /\ Present(Mmu(m, r, v)) => T1(n, r, v) = T1(m, r, v)
  <2>1. \A r \in spaces, v \in CallerPages : Present(Mmu(m, r, v)) => T1(n, r, v) = T1(m, r, v)
    OBVIOUS
  <2> QED BY <2>1, CalmStays DEF SameTables
<1>1. v \in Page
  BY CallerPagesArePages
<1>2. Mmu(n, r, v) = Mmu(m, r, v) /\ "PS" \notin Mmu(m, r, v).flags
  BY <1>1 DEF SameView, Calm
<1>3. Present(Mmu(m, r, v)) => Has1(m, r, v)
  BY <1>1, <1>2, PresentHasWay DEF Sound
<1> QED BY <1>1, <1>2, <1>3 DEF SameView
-----------------------------------------------------------------------------
(* The actions                                                             *)

\* What a step does to the meaning of pages.
OneChange(v) == \A r \in spaces, x \in Page : x # v => Mmu(mem', r, x) = Mmu(mem, r, x)
Asked == IF todo = <<>> THEN CallerPages ELSE {Head(todo)}
Contained == SameView(mem, mem', spaces) \/ \E v \in Asked : OneChange(v)

LEMMA StartIsSafe ==
  ASSUME IInv, NEW level \in Levels, Sound(mem, free, level), NEW a \in Frame
  PROVE  /\ Safe(Start(a), level) /\ Start(a).at = a /\ Start(a).mem = mem /\ Start(a).free = free
         /\ cr3 \in spaces /\ cr3 \in Frame
BY DEF Sound, Safe, Start, Walks, Roots

\* A walk for a caller's page in the page map in use.
LEMMA CallerWalks ==
  ASSUME IInv, NEW v \in CallerPages, NEW w, w = Walk(Start(cr3), v)
  PROVE  /\ \E level, up \in Levels : /\ Sound(mem, free, level) /\ Grown(Start(cr3), level, w, up)
                                      /\ Safe(w, up) /\ Sound(w.mem, w.free, up)
         /\ w.ok = TRUE /\ w.free \in SUBSET free /\ w.mem \in Memory
         /\ SameView(mem, w.mem, spaces)
         /\ Calm(w.mem, w.free)
         /\ w.at # 0 => Has1(w.mem, cr3, v) /\ T1(w.mem, cr3, v) = w.at
                        /\ Get(w, v[4]) \in Entry /\ Get(w, v[4]).frame \in Frame
                        /\ Get(w, v[4]) = w.mem[w.at][v[4]]
         /\ w.at = 0 => w.free = {}
         /\ Has1(mem, cr3, v) => w = [Start(cr3) EXCEPT !.at = T1(mem, cr3, v)] /\ w.at # 0
<1>1. PICK level \in Levels : Sound(mem, free, level)
  BY DEF IInv
<1>2. /\ cr3 \in Frame /\ cr3 \in spaces /\ Safe(Start(cr3), level)
      /\ Start(cr3).at = cr3 /\ Start(cr3).mem = mem /\ Start(cr3).free = free
  <2>1. cr3 \in Frame
    BY <1>1 DEF Sound, Roots
  <2> QED BY <1>1, <2>1, StartIsSafe
<1>3. v \in Page /\ v[4] \in Index
  BY CallerPagesArePages, PageType
<1>4. "PS" \notin Mmu(mem, cr3, v).flags
  BY <1>2 DEF IInv, Calm
<1>5. /\ \E up \in Levels : Grown(Start(cr3), level, w, up)
      /\ \/ w.at = 0 /\ w.free = {}
         \/ w.at # 0 /\ Has1(w.mem, cr3, v) /\ T1(w.mem, cr3, v) = w.at
      /\ Has1(mem, cr3, v) => w = [Start(cr3) EXCEPT !.at = T1(mem, cr3, v)]
  BY <1>2, <1>3, <1>4, WalkArrives
<1>6. PICK up \in Levels : Grown(Start(cr3), level, w, up)
  BY <1>5
<1>7. /\ w \in Walks /\ w.ok = TRUE /\ Sound(w.mem, w.free, up) /\ Safe(w, up)
      /\ w.mem \in Memory /\ Shape(w.mem, up) /\ Roots(up) = spaces
  BY <1>6, GrownFacts
<1>8. w.free \in SUBSET free /\ SameView(mem, w.mem, spaces)
  BY <1>2, <1>6 DEF Grown
<1>9. Calm(w.mem, w.free)
  BY <1>1, <1>8, CalmInSameView DEF IInv
<1>10. ASSUME w.at # 0
       PROVE  /\ Get(w, v[4]) \in Entry /\ Get(w, v[4]).frame \in Frame
              /\ Get(w, v[4]) = w.mem[w.at][v[4]]
  <2>1. Has1(w.mem, cr3, v) /\ T1(w.mem, cr3, v) = w.at
    BY <1>5, <1>10
  <2>2. w.at \in Frame \ {0} /\ up[w.at] = 1
    BY <1>2, <1>3, <1>7, <1>10, <2>1, WayHasLevels
  <2>3. Via(w.mem, w.at) = w.at
    BY <1>7, <2>2, ViaIsHere
  <2>4. Get(w, v[4]) = w.mem[w.at][v[4]]
    BY <2>2, <2>3 DEF Get
  <2> QED BY <1>3, <1>7, <2>2, <2>4, EntryType DEF Shape, EntryFits
<1>11. Has1(mem, cr3, v) => w.at # 0
  <2>1. Shape(mem, level) /\ mem \in Memory /\ Roots(level) = spaces /\ level[0] = 0
    BY <1>1 DEF Sound
  <2>2. Has1(mem, cr3, v) => level[T1(mem, cr3, v)] = 1
    BY <1>2, <1>3, <2>1, WayHasLevels
  <2>3. Has1(mem, cr3, v) => w.at = T1(mem, cr3, v)
    BY <1>5 DEF Start
  <2> QED BY <2>1, <2>2, <2>3
<1> QED BY <1>1, <1>5, <1>6, <1>7, <1>8, <1>9, <1>10, <1>11

LEMMA CallerGets ==
  ASSUME IInv, NEW v \in CallerPages, NEW w, w = Walk(Start(cr3), v), w.at # 0
  PROVE  /\ Get(w, v[4]) \in Entry /\ Get(w, v[4]).frame \in Frame
         /\ Get(w, v[4]) = w.mem[w.at][v[4]]
BY CallerWalks

\* The invariant after a step that changes memory and free frames only.
LEMMA MemoryChanged ==
  ASSUME IInv, NEW m, NEW fr, mem' = m, free' = fr,
         \E up \in Levels : Sound(m, fr, up), Calm(m, fr),
         UNCHANGED <<cr3, spaces, data, todo, prot, status>>, ret' \in Frame \cup {-ENOMEM}
  PROVE  IInv'
<1>1. PICK up \in Levels : Sound(m, fr, up)
  OBVIOUS
<1>2. Sound(mem, free, up)'
  BY <1>1 DEF Sound
<1>3. Calm(mem, free)'
  BY DEF Calm
<1> QED BY <1>2, <1>3 DEF IInv

LEMMA GetPhysIsFine ==
  ASSUME IInv, NEW v \in CallerPages, vmm_get_phys(v)
  PROVE  IInv' /\ Contained
<1> DEFINE w == Walk(Start(cr3), v)
<1> HIDE DEF w
<1>1. /\ \E up \in Levels : Sound(w.mem, w.free, up)
      /\ w.ok = TRUE /\ SameView(mem, w.mem, spaces) /\ Calm(w.mem, w.free)
      /\ w.at # 0 => Get(w, v[4]).frame \in Frame
  BY CallerWalks DEF w
<1>2. /\ mem' = w.mem /\ free' = w.free /\ ret' \in Frame \cup {-ENOMEM}
      /\ UNCHANGED <<cr3, spaces, data, todo, prot, status>>
  BY <1>1, FrameAssumption DEF vmm_get_phys, Keep, w
<1> QED BY <1>1, <1>2, MemoryChanged DEF Contained

\* An entry that takes the place of another at the end of a walk: if it leads
\* nowhere new, callers' pages stay calm.
LEMMA EntryReplaced ==
  ASSUME IInv, NEW v \in CallerPages, NEW w, w = Walk(Start(cr3), v), w.at # 0,
         NEW e, LastEntry(e), "PS" \notin e.flags,
         Present(e) => Present(Get(w, v[4])) /\ e.frame = Get(w, v[4]).frame
  PROVE  /\ MemoryOnly(Put(w, v[4], e), w)
         /\ \E up \in Levels : Sound(Put(w, v[4], e).mem, w.free, up)
         /\ Calm(Put(w, v[4], e).mem, w.free)
         /\ \A r \in spaces, x \in Page :
               x # v => Mmu(Put(w, v[4], e).mem, r, x) = Mmu(mem, r, x)
         /\ EntryShows(w.mem, Put(w, v[4], e).mem, w.at, v, e)
<1> DEFINE u == Put(w, v[4], e)
<1>1. PICK up \in Levels : Safe(w, up) /\ Sound(w.mem, w.free, up)
  BY CallerWalks
<1>2. /\ Has1(w.mem, cr3, v) /\ T1(w.mem, cr3, v) = w.at /\ cr3 \in spaces
      /\ SameView(mem, w.mem, spaces) /\ Calm(w.mem, w.free)
      /\ Get(w, v[4]) = w.mem[w.at][v[4]]
  BY <1>1, CallerWalks DEF Sound
<1>3. /\ MemoryOnly(u, w) /\ Sound(u.mem, w.free, up)
      /\ EntryShows(w.mem, u.mem, w.at, v, e)
  <2>1. Arrived(w, up, cr3, v)
    BY <1>1, <1>2 DEF Arrived
  <2> QED BY <2>1, LastEntryIsPut
<1> HIDE DEF u
<1>4. ASSUME NEW r \in spaces, NEW x \in CallerPages
      PROVE  x \in Page /\ Mmu(w.mem, r, x) = Mmu(mem, r, x) /\ "PS" \notin Mmu(w.mem, r, x).flags
             /\ (Present(Mmu(w.mem, r, x)) => Has1(w.mem, r, x))
  <2>1. x \in Page
    BY CallerPagesArePages
  <2>2. Mmu(w.mem, r, x) = Mmu(mem, r, x) /\ "PS" \notin Mmu(w.mem, r, x).flags
    BY <1>2, <2>1 DEF SameView, Calm
  <2> QED BY <1>1, <2>1, <2>2, PresentHasWay DEF Sound
<1>5. ASSUME NEW r \in spaces, NEW x \in CallerPages
      PROVE  /\ "PS" \notin Mmu(u.mem, r, x).flags
             /\ Present(Mmu(u.mem, r, x)) => /\ Present(Mmu(w.mem, r, x))
                                             /\ Mmu(u.mem, r, x).frame = Mmu(w.mem, r, x).frame
                                             /\ T1(u.mem, r, x) = T1(w.mem, r, x)
  <2>1. CASE x = v /\ Has1(w.mem, r, x) /\ T1(w.mem, r, x) = w.at
    <3>1. Shown(e, Mmu(u.mem, r, x)) /\ T1(u.mem, r, x) = w.at
      BY <1>3, <1>4, <2>1 DEF EntryShows
    <3>2. Shown(w.mem[w.at][v[4]], Mmu(w.mem, r, x))
      BY <1>1, <1>4, <2>1, PresentHasWay DEF Sound
    <3>3. Shown(Get(w, v[4]), Mmu(w.mem, r, x))
      BY <1>2, <3>2
    <3>4. CASE Present(e)
      <4>1. Mmu(u.mem, r, x).frame = e.frame /\ "PS" \notin Mmu(u.mem, r, x).flags
        BY <3>1, <3>4 DEF Shown
      <4>2. Mmu(w.mem, r, x).frame = Get(w, v[4]).frame /\ Present(Mmu(w.mem, r, x))
        BY <3>3, <3>4 DEF Shown, Present
      <4> QED BY <2>1, <3>1, <3>4, <4>1, <4>2
    <3>5. CASE ~ Present(e)
      BY <3>1, <3>5, ZeroPageIsEmpty DEF Shown
    <3> QED BY <3>4, <3>5
  <2>2. CASE ~ (x = v /\ Has1(w.mem, r, x) /\ T1(w.mem, r, x) = w.at)
    BY <1>3, <1>4, <2>2 DEF EntryShows
  <2> QED BY <2>1, <2>2
<1>6. Calm(u.mem, w.free)
  BY <1>1, <1>2, <1>5, CalmStays
<1>7. \A r \in spaces, x \in Page : x # v => Mmu(u.mem, r, x) = Mmu(mem, r, x)
  BY <1>2, <1>3 DEF SameView, EntryShows
<1> QED BY <1>3, <1>6, <1>7 DEF u

LEMMA MunmapAnyIsFine ==
  ASSUME IInv, NEW v \in CallerPages, munmap_any(v)
  PROVE  IInv' /\ Contained
<1> DEFINE w == Walk(Start(cr3), v)
           u == IF w.at = 0 THEN w ELSE Put(w, v[4], NoEntry)
<1>e. /\ todo = <<>>
      /\ IF u.ok THEN Keep(u) /\ UNCHANGED <<cr3, spaces, data, todo, prot, ret, status>> ELSE Halt
  BY DEF munmap_any
<1>1. /\ w.ok = TRUE /\ SameView(mem, w.mem, spaces) /\ Calm(w.mem, w.free)
      /\ \E up \in Levels : Sound(w.mem, w.free, up)
  BY CallerWalks
<1>r. ret \in Frame \cup {-ENOMEM}
  BY DEF IInv
<1> HIDE DEF w
<1>2. CASE w.at = 0
  <2>1. mem' = w.mem /\ free' = w.free /\ UNCHANGED <<cr3, spaces, data, todo, prot, ret, status>>
    BY <1>1, <1>2, <1>e DEF Keep
  <2> QED BY <1>1, <1>r, <2>1, MemoryChanged DEF Contained
<1>3. CASE w.at # 0
  <2>1. LastEntry(NoEntry) /\ "PS" \notin NoEntry.flags /\ ~ Present(NoEntry)
    BY ZeroPageIsEmpty, FrameAssumption DEF LastEntry
  <2> DEFINE p == Put(w, v[4], NoEntry)
  <2>2. /\ MemoryOnly(p, w) /\ \E up \in Levels : Sound(p.mem, w.free, up)
        /\ Calm(p.mem, w.free)
        /\ \A r \in spaces, x \in Page : x # v => Mmu(p.mem, r, x) = Mmu(mem, r, x)
    <3>1. w = Walk(Start(cr3), v)
      BY DEF w
    <3> QED BY <1>3, <2>1, <3>1, EntryReplaced
  <2>3. u = p
    BY <1>3
  <2> HIDE DEF p
  <2>4. mem' = p.mem /\ free' = w.free /\ UNCHANGED <<cr3, spaces, data, todo, prot, ret, status>>
    BY <1>e, <2>2, <2>3 DEF Keep, MemoryOnly
  <2>5. OneChange(v) /\ v \in Asked
    BY <1>e, <2>2, <2>4 DEF OneChange, Asked
  <2> QED BY <1>r, <2>2, <2>4, <2>5, MemoryChanged DEF Contained
<1> QED BY <1>2, <1>3

LEMMA PteFlagsAreFlags ==
  ASSUME NEW p
  PROVE  /\ PteFlags(p) \in SUBSET Flag /\ "PS" \notin PteFlags(p)
         /\ "P" \in PteFlags(p) <=> "READ" \in p
         /\ "W" \in PteFlags(p) <=> "WRITE" \in p
         /\ "NX" \in PteFlags(p) <=> "EXEC" \notin p
BY DEF PteFlags, Flag

\* A page that mmap made has a table and a present entry in it.
LEMMA OursIsThere ==
  ASSUME IInv, NEW v \in CallerPages, Ours(v), NEW w, w = Walk(Start(cr3), v)
  PROVE  /\ w = [Start(cr3) EXCEPT !.at = T1(mem, cr3, v)] /\ w.at # 0 /\ w.at = T1(mem, cr3, v)
         /\ w.mem = mem /\ w.free = free
         /\ Has1(mem, cr3, v) /\ Present(Get(w, v[4])) /\ Present(Mmu(mem, cr3, v))
         /\ Get(w, v[4]).frame = Mmu(mem, cr3, v).frame /\ Mmu(mem, cr3, v).frame \in data
<1>1. PICK level \in Levels : Sound(mem, free, level)
  BY DEF IInv
<1>2. mem \in Memory /\ Shape(mem, level) /\ Roots(level) = spaces /\ cr3 \in spaces /\ 0 \notin data
  BY <1>1 DEF Sound
<1>3. v \in Page /\ "PS" \notin Mmu(mem, cr3, v).flags
  BY <1>2, CallerPagesArePages DEF IInv, Calm
<1>4. Mmu(mem, cr3, v).frame \in data /\ Mmu(mem, cr3, v) # NoEntry
  BY <1>2, ZeroPageIsEmpty DEF Ours
<1>5. Has1(mem, cr3, v)
  BY <1>2, <1>3, <1>4, Translation
<1>6. w = [Start(cr3) EXCEPT !.at = T1(mem, cr3, v)] /\ w.at # 0
  BY <1>5, CallerWalks
<1>7. w.mem = mem /\ w.at = T1(mem, cr3, v) /\ w.free = free
  BY <1>6 DEF Start
<1>8. Get(w, v[4]) = mem[T1(mem, cr3, v)][v[4]]
  <2>1. Get(w, v[4]) = w.mem[w.at][v[4]]
    BY <1>6, CallerGets
  <2>2. w.mem = mem /\ w.at = T1(mem, cr3, v)
    BY <1>7
  <2> QED BY <2>1, <2>2, Zenon
<1>9. Shown(Get(w, v[4]), Mmu(mem, cr3, v))
  BY <1>2, <1>3, <1>5, <1>8, PresentHasWay
<1>10. Present(Get(w, v[4])) /\ Get(w, v[4]).frame = Mmu(mem, cr3, v).frame
       /\ Present(Mmu(mem, cr3, v))
  BY <1>4, <1>9 DEF Shown, Present
<1> QED BY <1>4, <1>5, <1>6, <1>7, <1>10

LEMMA UpdateFlagsIsFine ==
  ASSUME IInv, NEW v \in CallerPages, NEW p \in Prots, vmm_update_flags(v, p)
  PROVE  IInv' /\ Contained
<1> DEFINE w == Walk(Start(cr3), v)
           e == Get(w, v[4])
           fl == (e.flags \ {"P", "W", "U", "NX"}) \cup PteFlags(p)
           d == [e EXCEPT !.flags = fl]
           u == Put(w, v[4], d)
<1>e. /\ todo = <<>> /\ Ours(v)
      /\ IF u.ok THEN Keep(u) /\ UNCHANGED <<cr3, spaces, data, todo, prot, ret, status>> ELSE Halt
  BY DEF vmm_update_flags
<1> HIDE DEF w, e, u
<1>1. w.at # 0 /\ Present(e) /\ e.frame = Mmu(mem, cr3, v).frame /\ w.mem = mem /\ Has1(mem, cr3, v)
      /\ w.at = T1(mem, cr3, v)
  BY <1>e, OursIsThere DEF w, e
<1>2. e \in Entry /\ e.frame \in Frame /\ cr3 \in spaces
  <2>1. cr3 \in spaces
    BY DEF IInv, Sound
  <2>2. w.at # 0
    BY <1>1
  <2>3. e \in Entry /\ e.frame \in Frame
    BY <2>2, CallerGets DEF w, e
  <2> QED BY <2>1, <2>3
<1>3. "PS" \notin e.flags
  <2>1. PICK level \in Levels : Sound(mem, free, level)
    BY DEF IInv
  <2>2. mem \in Memory /\ Shape(mem, level) /\ Roots(level) = spaces
    BY <2>1 DEF Sound
  <2>3. v \in Page /\ "PS" \notin Mmu(mem, cr3, v).flags
    BY <1>2, CallerPagesArePages DEF IInv, Calm
  <2>4. e = mem[T1(mem, cr3, v)][v[4]]
    <3>1. w.at # 0 /\ w.mem = mem /\ w.at = T1(mem, cr3, v)
      BY <1>1
    <3>2. e = w.mem[w.at][v[4]]
      BY <3>1, CallerGets DEF w, e
    <3> QED BY <3>1, <3>2, Zenon
  <2>5. Shown(e, Mmu(mem, cr3, v))
    BY <1>1, <1>2, <2>2, <2>3, <2>4, PresentHasWay
  <2> QED BY <1>1, <2>3, <2>5 DEF Shown
<1>4. d \in Entry /\ d.frame = e.frame /\ "PS" \notin d.flags
  <2>1. fl \in SUBSET Flag /\ "PS" \notin fl
    BY <1>2, <1>3, PteFlagsAreFlags DEF Entry
  <2> HIDE DEF fl
  <2> QED BY <1>2, <2>1 DEF Entry
<1> HIDE DEF d
<1>5. /\ MemoryOnly(u, w) /\ \E up \in Levels : Sound(u.mem, w.free, up)
      /\ Calm(u.mem, w.free)
      /\ \A r \in spaces, x \in Page : x # v => Mmu(u.mem, r, x) = Mmu(mem, r, x)
  <2>1. w = Walk(Start(cr3), v) /\ u = Put(w, v[4], d) /\ e = Get(w, v[4])
    BY DEF w, e, u
  <2>2. Present(d) => Present(Get(w, v[4])) /\ d.frame = Get(w, v[4]).frame
    BY <1>1, <1>4, <2>1
  <2>3. LastEntry(d)
    BY <1>2, <1>4 DEF LastEntry
  <2> QED BY <1>1, <1>4, <2>1, <2>2, <2>3, EntryReplaced
<1>6. mem' = u.mem /\ free' = w.free /\ UNCHANGED <<cr3, spaces, data, todo, prot, ret, status>>
  BY <1>e, <1>5 DEF Keep, MemoryOnly
<1>7. OneChange(v) /\ v \in Asked
  BY <1>e, <1>5, <1>6 DEF OneChange, Asked
<1>r. ret \in Frame \cup {-ENOMEM}
  BY DEF IInv
<1> QED BY <1>r, <1>5, <1>6, <1>7, MemoryChanged DEF Contained

LEMMA MunmapIsFine ==
  ASSUME IInv, NEW v \in CallerPages, munmap(v)
  PROVE  IInv' /\ Contained
<1> DEFINE w == Walk(Start(cr3), v)
           phys == Get(w, v[4]).frame
           u == Put(Walk([w EXCEPT !.at = cr3], v), v[4], NoEntry)
<1>e. /\ todo = <<>> /\ Ours(v)
      /\ IF w.ok /\ w.at # 0 /\ u.ok
         THEN /\ mem' = u.mem /\ free' = u.free \cup {phys} /\ data' = data \ {phys}
              /\ UNCHANGED <<cr3, spaces, todo, prot, ret, status>>
         ELSE Halt
  BY DEF munmap
<1>1. /\ w = [Start(cr3) EXCEPT !.at = T1(mem, cr3, v)] /\ w.at # 0 /\ w.at = T1(mem, cr3, v)
      /\ w.mem = mem /\ w.free = free /\ Has1(mem, cr3, v) /\ Present(Mmu(mem, cr3, v))
      /\ phys = Mmu(mem, cr3, v).frame /\ phys \in data
  BY <1>e, OursIsThere
<1>2. w.ok = TRUE /\ SameView(mem, w.mem, spaces)
  BY CallerWalks
<1> HIDE DEF w, phys
<1>3. [w EXCEPT !.at = cr3] = Start(cr3)
  <2>1. PICK level \in Levels : Sound(mem, free, level)
    BY DEF IInv
  <2>2. cr3 \in Frame /\ Safe(Start(cr3), level)
    <3>1. cr3 \in Frame
      BY <2>1 DEF Sound, Roots
    <3> QED BY <2>1, <3>1, StartIsSafe
  <2>3. Start(cr3) \in Walks
    BY <2>2 DEF Safe
  <2>4. \A a, c : \A b \in Walks : [[b EXCEPT !.at = a] EXCEPT !.at = c] = [b EXCEPT !.at = c]
    BY DEF Walks
  <2>5. [w EXCEPT !.at = cr3] = [Start(cr3) EXCEPT !.at = cr3]
    BY <1>1, <2>3, <2>4, Zenon
  <2>6. Start(cr3).at = cr3
    BY DEF Start
  <2>7. \A b \in Walks : [b EXCEPT !.at = b.at] = b
    BY DEF Walks
  <2> QED BY <2>3, <2>5, <2>6, <2>7, Zenon
<1>4. u = Put(w, v[4], NoEntry)
  BY <1>3 DEF w
<1> HIDE DEF u
<1>5. LastEntry(NoEntry) /\ "PS" \notin NoEntry.flags /\ ~ Present(NoEntry)
  BY ZeroPageIsEmpty, FrameAssumption DEF LastEntry
<1>6. /\ MemoryOnly(u, w)
      /\ \E up \in Levels : Sound(u.mem, free, up)
      /\ Calm(u.mem, free)
      /\ \A r \in spaces, x \in Page : x # v => Mmu(u.mem, r, x) = Mmu(mem, r, x)
      /\ EntryShows(mem, u.mem, w.at, v, NoEntry)
  <2>1. w = Walk(Start(cr3), v)
    BY DEF w
  <2>2. /\ MemoryOnly(u, w)
        /\ \E up \in Levels : Sound(u.mem, w.free, up)
        /\ Calm(u.mem, w.free)
        /\ \A r \in spaces, x \in Page : x # v => Mmu(u.mem, r, x) = Mmu(mem, r, x)
        /\ EntryShows(w.mem, u.mem, w.at, v, NoEntry)
    <3>1. w.at # 0
      BY <1>1
    <3> QED BY <1>4, <1>5, <2>1, <3>1, EntryReplaced
  <2>3. w.mem = mem /\ w.free = free
    BY <1>1
  <2> QED BY <2>2, <2>3, Zenon
<1>7. /\ mem' = u.mem /\ free' = free \cup {phys} /\ data' = data \ {phys}
      /\ UNCHANGED <<cr3, spaces, todo, prot, ret, status>>
  BY <1>e, <1>1, <1>2, <1>6 DEF MemoryOnly
<1>8. OneChange(v) /\ v \in Asked
  BY <1>e, <1>6, <1>7 DEF OneChange, Asked
<1>9. PICK up \in Levels : Sound(u.mem, free, up)
  BY <1>6
<1>10. Sound(mem, free, up)'
  <2>1. phys \in Frame \ {0} /\ up[phys] = 0
    BY <1>1, <1>9 DEF Sound
  <2> QED BY <1>7, <1>9, <2>1 DEF Sound
<1>11. \A r \in spaces, x \in CallerPages :
          Present(Mmu(u.mem, r, x)) => Mmu(u.mem, r, x).frame # phys
  <2> SUFFICES ASSUME NEW r \in spaces, NEW x \in CallerPages,
                      Present(Mmu(u.mem, r, x)), Mmu(u.mem, r, x).frame = phys
               PROVE  FALSE
    OBVIOUS
  <2>1. CASE x = v /\ Has1(mem, r, x) /\ T1(mem, r, x) = w.at
    <3>1. x \in Page
      BY CallerPagesArePages
    <3> QED BY <1>6, <2>1, <3>1, ZeroPageIsEmpty DEF Shown, EntryShows
  <2>2. CASE ~ (x = v /\ Has1(mem, r, x) /\ T1(mem, r, x) = w.at)
    <3>1. Mmu(u.mem, r, x) = Mmu(mem, r, x)
      <4>1. x \in Page
        BY CallerPagesArePages
      <4> QED BY <1>6, <2>2, <4>1 DEF EntryShows
    <3>2. cr3 \in spaces /\ Calm(mem, free) /\ x \in Page /\ v \in Page
      BY CallerPagesArePages DEF IInv, Sound
    <3>3. T1(mem, r, x) = T1(mem, cr3, v) /\ x[4] = v[4]
      BY <1>1, <3>1, <3>2 DEF Calm
    <3>4. PICK level \in Levels : Sound(mem, free, level)
      BY DEF IInv
    <3>5. mem \in Memory /\ Shape(mem, level) /\ Roots(level) = spaces
      BY <3>4 DEF Sound
    <3>6. Has1(mem, r, x)
      BY <3>1, <3>2, <3>5, PresentHasWay DEF Calm
    <3>7. x = v
      BY <1>1, <3>2, <3>3, <3>5, <3>6, OneWayToATable
    <3> QED BY <1>1, <2>2, <3>3, <3>6, <3>7
  <2> QED BY <2>1, <2>2
<1>12. Calm(mem, free)'
  BY <1>6, <1>7, <1>11 DEF Calm
<1>13. IInv'
  BY <1>7, <1>10, <1>12 DEF IInv
<1> QED BY <1>8, <1>13 DEF Contained

\* A page map that is made shows callers what the first one shows.
LEMMA MakePml4IsFine ==
  ASSUME IInv, vmm_make_pml4
  PROVE  IInv' /\ Contained
<1> DEFINE f == Min(free)
           s == Start(0)
           z == Zeroed(s, f)
<1>1. PICK level \in Levels : Sound(mem, free, level)
  BY DEF IInv
<1>r. BootRoot \in spaces /\ BootRoot \in Frame \ {0} /\ spaces \subseteq Frame
      /\ cr3 \in spaces /\ free \subseteq Frame /\ Roots(level) = spaces
  BY <1>1, FrameAssumption DEF IInv, Sound, Roots
<1>2. CASE Halt
  BY <1>2 DEF Halt, IInv, Calm, Sound, Contained, SameView
<1>3. CASE ~ Halt
  <2>e. /\ free # {}
        /\ mem' = [z.mem EXCEPT ![Via(z.mem, f)] = z.mem[Via(z.mem, BootRoot)]]
        /\ free' = z.free /\ spaces' = spaces \cup {f} /\ ret' = f
        /\ UNCHANGED <<cr3, data, todo, prot, status>>
    BY <1>3 DEF vmm_make_pml4
  <2>1. f \in free
    BY <1>r, <2>e, MinIsIn
  <2> HIDE DEF f
  <2>2. Safe(s, level) /\ s.mem = mem /\ s.free = free
    BY <1>1, FrameAssumption, StartIsSafe
  <2> HIDE DEF s
  <2>3. /\ Grown(s, level, z, level)
        /\ z.free = free \ {f} /\ f \in Frame \ {0} /\ level[f] = 0
    <3>1. f \in s.free
      BY <2>1, <2>2
    <3>2. Grown(s, level, z, level) /\ Took(z, s, f)
      BY <2>2, <3>1, ZeroedIsGrown
    <3>3. f \in Frame \ {0} /\ level[f] = 0
      BY <1>1, <2>1 DEF Sound
    <3> QED BY <2>2, <3>2, <3>3 DEF Took
  <2> HIDE DEF z
  <2>4. /\ Sound(z.mem, z.free, level) /\ z.mem \in Memory /\ Shape(z.mem, level)
        /\ SameView(mem, z.mem, spaces)
    <3>1. SameView(s.mem, z.mem, spaces)
      BY <2>3 DEF Grown
    <3>2. Sound(z.mem, z.free, level) /\ z.mem \in Memory /\ Shape(z.mem, level)
      BY <2>3, GrownFacts
    <3> QED BY <2>2, <3>1, <3>2
  <2>5. Via(z.mem, f) = f /\ Via(z.mem, BootRoot) = BootRoot
    BY <1>r, <2>3, <2>4, ViaIsHere
  <2>6. mem' = WithRoot(z.mem, f, BootRoot)
    BY <2>e, <2>5 DEF WithRoot
  <2> DEFINE n == WithRoot(z.mem, f, BootRoot)
  <2> HIDE DEF n
  <2>u. PICK up : up = WithLevel(level, f, 4)
    OBVIOUS
  <2>7. /\ n \in Memory /\ up \in Levels /\ Shape(n, up)
        /\ Roots(up) = Roots(level) \cup {f}
        /\ \A g \in Frame : g # f => up[g] = level[g]
        /\ SameView(z.mem, n, Roots(level))
        /\ \A v \in Page : /\ Mmu(n, f, v) = Mmu(z.mem, BootRoot, v)
                           /\ Has1(z.mem, BootRoot, v) =>
                                 Has1(n, f, v) /\ T1(n, f, v) = T1(z.mem, BootRoot, v)
    BY <1>r, <2>u, <2>3, <2>4, CopiedRoot DEF n
  <2>8. SameView(mem, n, spaces)
    BY <1>r, <2>4, <2>7 DEF SameView
  <2>9. \A v \in Page : /\ Mmu(n, f, v) = Mmu(mem, BootRoot, v)
                        /\ Has1(mem, BootRoot, v) =>
                              Has1(n, f, v) /\ T1(n, f, v) = T1(n, BootRoot, v)
    BY <1>r, <2>4, <2>7, <2>8 DEF SameView
  <2>10. Calm(n, free)
    BY <1>1, <2>8, CalmInSameView DEF IInv
  <2> DEFINE as(r) == IF r \in spaces THEN r ELSE BootRoot
  <2>11. ASSUME NEW r \in spaces \cup {f}, NEW v \in Page
         PROVE  as(r) \in spaces /\ Mmu(n, r, v) = Mmu(n, as(r), v)
                /\ (Has1(mem, as(r), v) => T1(n, r, v) = T1(n, as(r), v))
    BY <1>r, <2>8, <2>9 DEF SameView
  <2>12. Sound(mem, free, up)'
    <3>1. /\ mem' = n /\ free' = free \ {f} /\ spaces' = spaces \cup {f} /\ cr3' = cr3 /\ data' = data
      BY <2>e, <2>3, <2>6 DEF n
    <3>2. \A r \in spaces \cup {f}, g \in Frame \ {0} : Mmu(n, r, Same(g)).frame = g
      <4> SUFFICES ASSUME NEW r \in spaces \cup {f}, NEW g \in Frame \ {0}
                   PROVE  Mmu(n, r, Same(g)).frame = g
        OBVIOUS
      <4>1. Same(g) \in Page
        BY WindowAssumption
      <4>2. Mmu(n, r, Same(g)) = Mmu(mem, as(r), Same(g)) /\ as(r) \in spaces
        BY <2>8, <2>11, <4>1 DEF SameView
      <4> HIDE DEF as
      <4> QED BY <1>1, <4>2 DEF Sound
    <3>3. /\ data \subseteq Frame \ {0} /\ free \cap (data \cup {0}) = {}
          /\ \A g \in free \cup data \cup {0} : level[g] = 0
      BY <1>1 DEF Sound
    <3>4. \A g \in (free \ {f}) \cup data \cup {0} : up[g] = 0
      BY <1>r, <2>1, <2>7, <3>3, FrameAssumption
    <3>5. /\ free \ {f} \subseteq Frame /\ Roots(up) = spaces \cup {f} /\ cr3 \in spaces \cup {f}
          /\ (free \ {f}) \cap (data \cup {0}) = {}
      BY <1>r, <2>7, <3>3
    <3> QED BY <2>7, <3>1, <3>2, <3>3, <3>4, <3>5 DEF Sound
  <2>13. Calm(mem, free)'
    <3>1. \A v \in CallerPages : v \in Page
      BY CallerPagesArePages
    <3>2. \A r \in spaces, v \in CallerPages : Present(Mmu(n, r, v)) => Has1(mem, r, v)
      <4> SUFFICES ASSUME NEW r \in spaces, NEW v \in CallerPages, Present(Mmu(n, r, v))
                   PROVE  Has1(mem, r, v)
        OBVIOUS
      <4>1. Mmu(n, r, v) = Mmu(mem, r, v) /\ "PS" \notin Mmu(n, r, v).flags
        BY <2>8, <2>10, <3>1 DEF SameView, Calm
      <4> QED BY <1>1, <3>1, <4>1, PresentHasWay DEF Sound
    <3>3. \A r \in spaces \cup {f}, v \in CallerPages :
             /\ as(r) \in spaces /\ Mmu(n, r, v) = Mmu(n, as(r), v)
             /\ Present(Mmu(n, r, v)) => T1(n, r, v) = T1(n, as(r), v)
      BY <2>11, <3>1, <3>2
    <3> HIDE DEF as
    <3>4. /\ mem' = n /\ free' \in SUBSET free /\ spaces' = spaces \cup {f} /\ data' = data
      BY <2>e, <2>3, <2>6 DEF n
    <3>5. \A r \in spaces \cup {f}, v \in CallerPages :
            /\ "PS" \notin Mmu(n, r, v).flags
            /\ Present(Mmu(n, r, v)) => Mmu(n, r, v).frame \notin free'
      BY <2>10, <3>3, <3>4 DEF Calm
    <3>6. ASSUME NEW r \in spaces \cup {f}, NEW q \in spaces \cup {f},
                 NEW v \in CallerPages, NEW x \in CallerPages,
                 Present(Mmu(n, r, v)), Present(Mmu(n, q, x)),
                 Mmu(n, r, v).frame = Mmu(n, q, x).frame, Mmu(n, r, v).frame \in data
          PROVE  T1(n, r, v) = T1(n, q, x) /\ v[4] = x[4]
      <4>1. /\ as(r) \in spaces /\ as(q) \in spaces
            /\ Mmu(n, r, v) = Mmu(n, as(r), v) /\ Mmu(n, q, x) = Mmu(n, as(q), x)
            /\ T1(n, r, v) = T1(n, as(r), v) /\ T1(n, q, x) = T1(n, as(q), x)
        BY <3>3, <3>6
      <4>2. /\ Present(Mmu(n, as(r), v)) /\ Present(Mmu(n, as(q), x))
            /\ Mmu(n, as(r), v).frame = Mmu(n, as(q), x).frame /\ Mmu(n, as(r), v).frame \in data
        BY <3>6, <4>1
      <4>3. T1(n, as(r), v) = T1(n, as(q), x) /\ v[4] = x[4]
        <5>1. \A a, b \in spaces :
                /\ Present(Mmu(n, a, v)) /\ Present(Mmu(n, b, x))
                /\ Mmu(n, a, v).frame = Mmu(n, b, x).frame /\ Mmu(n, a, v).frame \in data
                => T1(n, a, v) = T1(n, b, x) /\ v[4] = x[4]
          BY <2>10 DEF Calm
        <5> QED BY <4>1, <4>2, <5>1
      <4> QED BY <4>1, <4>3
    <3> QED BY <3>4, <3>5, <3>6 DEF Calm
  <2>14. IInv'
    <3>1. ret' \in Frame
      BY <2>e, <2>3
    <3>2. BootRoot \in spaces' /\ todo' = todo /\ prot' = prot /\ status' = status
      BY <1>r, <2>e
    <3>3. \E l \in Levels : Sound(mem, free, l)'
      BY <2>7, <2>12
    <3> QED BY <2>13, <3>1, <3>2, <3>3 DEF IInv
  <2>15. Contained
    BY <2>6, <2>8 DEF Contained, n
  <2> QED BY <2>14, <2>15
<1> QED BY <1>2, <1>3

LEMMA LoadCr3IsFine ==
  ASSUME IInv, NEW root \in spaces, load_cr3(root)
  PROVE  IInv' /\ Contained
<1>1. /\ UNCHANGED <<mem, free, spaces, data, todo, prot, ret, status>> /\ cr3' \in spaces
  BY DEF load_cr3
<1>2. PICK level \in Levels : Sound(mem, free, level)
  BY DEF IInv
<1>3. Sound(mem, free, level)'
  BY <1>1, <1>2 DEF Sound
<1>4. Calm(mem, free)'
  BY <1>1 DEF Calm, IInv
<1>5. Contained
  BY <1>1 DEF Contained, SameView
<1> QED BY <1>1, <1>3, <1>4, <1>5 DEF IInv

LEMMA MmapIsFine ==
  ASSUME IInv, NEW a \in Areas, mmap(a)
  PROVE  IInv' /\ Contained
<1>1. /\ UNCHANGED <<mem, free, cr3, spaces, data, status>>
      /\ todo' = a.pages /\ prot' = a.prot /\ ret' = 0
  BY DEF mmap
<1>2. a.pages \in Seq(CallerPages) /\ a.prot \in Prots
  BY CallerPagesArePages
<1>3. PICK level \in Levels : Sound(mem, free, level)
  BY DEF IInv
<1>4. Sound(mem, free, level)'
  BY <1>1, <1>3 DEF Sound
<1>5. Calm(mem, free)'
  BY <1>1 DEF Calm, IInv
<1>6. Contained
  BY <1>1 DEF Contained, SameView
<1> QED BY <1>1, <1>2, <1>4, <1>5, <1>6, FrameAssumption DEF IInv

\* What page x means in memory n: frame f through table t if x is v, or what it
\* meant in memory m.
MeansNew(m, n, t, v, f) ==
    \A r \in spaces, x \in CallerPages :
        /\ "PS" \notin Mmu(n, r, x).flags
        /\ Present(Mmu(n, r, x)) =>
              \/ x = v /\ Mmu(n, r, x).frame = f /\ T1(n, r, x) = t
              \/ Mmu(n, r, x) = Mmu(m, r, x) /\ T1(n, r, x) = T1(m, r, x)

\* What one round of mmap leaves behind.
MappedRight(s, f, v) ==
    /\ s.ok = TRUE /\ s.free \in SUBSET (free \ {f})
    /\ f \in free /\ v \in CallerPages
    /\ \E up \in Levels : Sound(s.mem, s.free, up) /\ up[f] = 0
    /\ \A r \in spaces, x \in Page : x # v => Mmu(s.mem, r, x) = Mmu(mem, r, x)
    /\ MeansNew(mem, s.mem, s.at, v, f)
    /\ s.free # {} =>
          /\ Mmu(s.mem, cr3, v).frame = f /\ Present(Mmu(s.mem, cr3, v))
          /\ "W" \in Mmu(s.mem, cr3, v).flags <=> "WRITE" \in prot
          /\ "NX" \in Mmu(s.mem, cr3, v).flags <=> "EXEC" \notin prot

LEMMA PageIsMapped ==
  ASSUME IInv, todo # <<>>, free # {}, NEW f, f = Min(free), NEW v, v = Head(todo),
         NEW s, s = Mapped(Zeroed(Start(cr3), f), v, f, PteFlags(prot))
  PROVE  MappedRight(s, f, v)
<1> DEFINE b == Start(cr3)
           z == Zeroed(b, f)
           w == Walk(z, v)
           e == [frame |-> f, flags |-> PteFlags(prot)]
<1>0. v \in CallerPages /\ prot \in Prots /\ v \in Page
  <2>1. v \in CallerPages /\ prot \in Prots
    BY DEF IInv
  <2> QED BY <2>1, CallerPagesArePages
<1>1. PICK level \in Levels : Sound(mem, free, level)
  BY DEF IInv
<1>2. /\ mem \in Memory /\ Shape(mem, level) /\ Roots(level) = spaces
      /\ cr3 \in spaces /\ cr3 \in Frame /\ free \subseteq Frame
  BY <1>1 DEF Sound, Roots
<1>3. f \in free /\ f \in Frame \ {0} /\ level[f] = 0
  <2>1. f \in free
    BY <1>2, MinIsIn
  <2> QED BY <1>1, <2>1 DEF Sound
<1>4. Safe(b, level) /\ b.at = cr3 /\ b.mem = mem /\ b.free = free
  BY <1>1, <1>2, StartIsSafe
<1> HIDE DEF b
<1>5. f \in b.free
  BY <1>3, <1>4
<1>6. Grown(b, level, z, level) /\ Took(z, b, f)
  BY <1>4, <1>5, ZeroedIsGrown
<1>7. z.free = b.free \ {f}
  BY <1>6 DEF Took
<1>8. z.at = cr3
  BY <1>4, <1>6 DEF Took
<1>s. s = IF w.at = 0 THEN w ELSE Put(w, v[4], e)
  BY DEF Mapped, z, b
<1> HIDE DEF z
<1>9. SameView(mem, z.mem, spaces)
  <2>1. SameView(b.mem, z.mem, spaces)
    BY <1>6 DEF Grown
  <2> QED BY <1>4, <2>1
<1>10. "PS" \notin Mmu(z.mem, z.at, v).flags
  <2>1. Mmu(z.mem, cr3, v) = Mmu(mem, cr3, v)
    BY <1>0, <1>2, <1>9 DEF SameView
  <2> QED BY <1>0, <1>2, <1>8, <2>1 DEF IInv, Calm
<1>11. Safe(z, level) /\ z.at \in spaces
  BY <1>2, <1>6, <1>8, GrownFacts
<1>12. /\ \E up \in Levels : Grown(z, level, w, up)
       /\ \/ w.at = 0 /\ w.free = {}
          \/ w.at # 0 /\ Has1(w.mem, z.at, v) /\ T1(w.mem, z.at, v) = w.at
  BY <1>0, <1>10, <1>11, WalkArrives
<1> HIDE DEF w
<1>13. PICK up \in Levels : Grown(z, level, w, up)
  BY <1>12
<1>14. w.ok = TRUE /\ Sound(w.mem, w.free, up) /\ Safe(w, up)
  BY <1>13, GrownFacts
<1>15. w.free \in SUBSET (free \ {f})
  <2>1. w.free \subseteq z.free
    BY <1>13 DEF Grown
  <2> QED BY <1>4, <1>7, <2>1
<1>16. up[f] = 0
  <2>1. f \notin z.free \ w.free
    BY <1>7
  <2> QED BY <1>3, <1>13, <2>1 DEF Grown
<1>17. SameView(mem, w.mem, spaces)
  <2>1. SameView(z.mem, w.mem, spaces)
    BY <1>13 DEF Grown
  <2> QED BY <1>9, <2>1 DEF SameView
<1>18. Calm(mem, free) /\ w.free \in SUBSET free
  BY <1>15 DEF IInv
<1>19. Calm(w.mem, w.free) /\ SameTables(mem, w.mem)
  BY <1>1, <1>17, <1>18, CalmInSameView
<1>20. \A r \in spaces, x \in CallerPages : Mmu(w.mem, r, x) = Mmu(mem, r, x)
  BY <1>17, CallerPagesArePages DEF SameView
<1>21. CASE w.at = 0
  <2>1. s = w
    BY <1>s, <1>21
  <2>2. w.free = {}
    BY <1>12, <1>21
  <2>3. MeansNew(mem, w.mem, w.at, v, f)
    BY <1>19, <1>20 DEF MeansNew, Calm, SameTables
  <2>4. \A r \in spaces, x \in Page : x # v => Mmu(w.mem, r, x) = Mmu(mem, r, x)
    BY <1>17 DEF SameView
  <2> QED BY <1>0, <1>3, <1>14, <1>15, <1>16, <2>1, <2>2, <2>3, <2>4 DEF MappedRight
<1>22. CASE w.at # 0
  <2>1. s = Put(w, v[4], e)
    BY <1>s, <1>22
  <2>2. e.frame = f /\ e.flags = PteFlags(prot) /\ Present(e) /\ "PS" \notin e.flags
        /\ ("W" \in e.flags <=> "WRITE" \in prot) /\ ("NX" \in e.flags <=> "EXEC" \notin prot)
    <3>1. "READ" \in prot
      BY <1>0, CallerAssumption
    <3> QED BY <3>1, PteFlagsAreFlags DEF Present
  <2>3. LastEntry(e)
    BY <1>3, PteFlagsAreFlags, FrameAssumption DEF LastEntry, Entry
  <2> HIDE DEF e
  <2>4. Arrived(w, up, cr3, v)
    BY <1>0, <1>2, <1>8, <1>12, <1>14, <1>22 DEF Arrived
  <2>5. MemoryOnly(s, w) /\ Sound(s.mem, w.free, up) /\ EntryShows(w.mem, s.mem, w.at, v, e)
    BY <2>1, <2>3, <2>4, LastEntryIsPut
  <2>6. s.ok = TRUE /\ s.free = w.free /\ s.at = w.at
    BY <2>5 DEF MemoryOnly
  <2>7. \A r \in spaces, x \in Page : x # v => Mmu(s.mem, r, x) = Mmu(mem, r, x)
    BY <1>17, <2>5 DEF SameView, EntryShows
  <2>8. MeansNew(mem, s.mem, s.at, v, f)
    <3> SUFFICES ASSUME NEW r \in spaces, NEW x \in CallerPages
                 PROVE  /\ "PS" \notin Mmu(s.mem, r, x).flags
                        /\ Present(Mmu(s.mem, r, x)) =>
                              \/ x = v /\ Mmu(s.mem, r, x).frame = f /\ T1(s.mem, r, x) = s.at
                              \/ Mmu(s.mem, r, x) = Mmu(mem, r, x) /\ T1(s.mem, r, x) = T1(mem, r, x)
      BY DEF MeansNew
    <3>1. x \in Page
      BY CallerPagesArePages
    <3>2. CASE x = v /\ Has1(w.mem, r, x) /\ T1(w.mem, r, x) = w.at
      <4>1. Shown(e, Mmu(s.mem, r, x)) /\ T1(s.mem, r, x) = w.at
        BY <2>5, <3>1, <3>2 DEF EntryShows
      <4> QED BY <2>2, <2>6, <3>2, <4>1 DEF Shown
    <3>3. CASE ~ (x = v /\ Has1(w.mem, r, x) /\ T1(w.mem, r, x) = w.at)
      <4>1. Mmu(s.mem, r, x) = Mmu(w.mem, r, x) /\ (Has1(w.mem, r, x) => T1(s.mem, r, x) = T1(w.mem, r, x))
        BY <2>5, <3>1, <3>3 DEF EntryShows
      <4>2. "PS" \notin Mmu(w.mem, r, x).flags
        BY <1>19 DEF Calm
      <4>3. Present(Mmu(w.mem, r, x)) => Has1(w.mem, r, x)
        BY <1>14, <3>1, <4>2, PresentHasWay DEF Sound
      <4> QED BY <1>19, <1>20, <4>1, <4>2, <4>3 DEF SameTables
    <3> QED BY <3>2, <3>3
  <2>9. Shown(e, Mmu(s.mem, cr3, v))
    BY <1>0, <2>4, <2>5 DEF EntryShows, Arrived
  <2>10. /\ Mmu(s.mem, cr3, v).frame = f /\ Present(Mmu(s.mem, cr3, v))
         /\ "W" \in Mmu(s.mem, cr3, v).flags <=> "WRITE" \in prot
         /\ "NX" \in Mmu(s.mem, cr3, v).flags <=> "EXEC" \notin prot
    BY <2>2, <2>9 DEF Shown, Present
  <2>11. Sound(s.mem, s.free, up) /\ s.free \in SUBSET (free \ {f})
    BY <1>15, <2>5, <2>6
  <2> QED BY <1>0, <1>3, <1>16, <2>6, <2>7, <2>8, <2>10, <2>11 DEF MappedRight
<1> QED BY <1>21, <1>22

LEMMA MmapPageIsFine ==
  ASSUME IInv, mmap_page
  PROVE  IInv' /\ Contained
<1> DEFINE f == Min(free)
           v == Head(todo)
           s == Mapped(Zeroed(Start(cr3), f), v, f, PteFlags(prot))
<1>e. /\ todo # <<>>
      /\ IF free = {} THEN /\ ret' = -ENOMEM /\ todo' = <<>>
                           /\ UNCHANGED <<mem, free, cr3, spaces, data, prot, status>>
         ELSE IF s.ok THEN /\ Keep([s EXCEPT !.at = cr3])
                           /\ data' = data \cup {f} /\ todo' = Tail(todo)
                           /\ UNCHANGED <<cr3, spaces, prot, ret, status>>
         ELSE Halt
  BY DEF mmap_page
<1>1. CASE free = {}
  <2>1. ret' = -ENOMEM /\ todo' = <<>> /\ UNCHANGED <<mem, free, cr3, spaces, data, prot, status>>
    BY <1>e, <1>1
  <2>2. PICK level \in Levels : Sound(mem, free, level)
    BY DEF IInv
  <2>3. Sound(mem, free, level)'
    BY <2>1, <2>2 DEF Sound
  <2>4. Calm(mem, free)'
    BY <2>1 DEF Calm, IInv
  <2>5. Contained
    BY <2>1 DEF Contained, SameView
  <2>6. todo' \in Seq(CallerPages)
    BY <2>1
  <2> QED BY <2>1, <2>3, <2>4, <2>5, <2>6 DEF IInv
<1>2. CASE free # {}
  <2>1. /\ s.ok = TRUE /\ s.free \in SUBSET (free \ {f}) /\ f \in free /\ v \in CallerPages
        /\ \E up \in Levels : Sound(s.mem, s.free, up) /\ up[f] = 0
        /\ \A r \in spaces, x \in Page : x # v => Mmu(s.mem, r, x) = Mmu(mem, r, x)
        /\ MeansNew(mem, s.mem, s.at, v, f)
    <3>1. MappedRight(s, f, v)
      BY <1>e, <1>2, PageIsMapped
    <3> HIDE DEF s, f, v
    <3> QED BY <3>1 DEF MappedRight
  <2> HIDE DEF s, f
  <2>2. /\ Keep([s EXCEPT !.at = cr3]) /\ data' = data \cup {f} /\ todo' = Tail(todo)
        /\ UNCHANGED <<cr3, spaces, prot, ret, status>>
    BY <1>e, <1>2, <2>1
  <2>3. mem' = s.mem /\ free' = s.free
    BY <2>2 DEF Keep
  <2>4. PICK level \in Levels : Sound(mem, free, level)
    BY DEF IInv
  <2>5. PICK up \in Levels : Sound(s.mem, s.free, up) /\ up[f] = 0
    BY <2>1
  <2>6. f \in Frame \ {0} /\ f \notin data
    BY <2>1, <2>4 DEF Sound
  <2>7. Sound(mem, free, up)'
    <3>1. data' \subseteq Frame \ {0} /\ s.free \cap (data' \cup {0}) = {}
      BY <2>1, <2>2, <2>5, <2>6 DEF Sound
    <3>2. \A g \in s.free \cup data' \cup {0} : up[g] = 0
      BY <2>2, <2>5 DEF Sound
    <3> QED BY <2>2, <2>3, <2>5, <3>1, <3>2 DEF Sound
  <2>8. Calm(mem, free)
    BY DEF IInv
  <2>9. \A r \in spaces, x \in CallerPages :
           /\ "PS" \notin Mmu(s.mem, r, x).flags
           /\ Present(Mmu(s.mem, r, x)) =>
                 \/ x = v /\ Mmu(s.mem, r, x).frame = f /\ T1(s.mem, r, x) = s.at
                 \/ /\ Mmu(s.mem, r, x) = Mmu(mem, r, x) /\ T1(s.mem, r, x) = T1(mem, r, x)
                    /\ Present(Mmu(mem, r, x)) /\ Mmu(s.mem, r, x).frame \notin free
                    /\ Mmu(s.mem, r, x).frame # f
    BY <2>1, <2>8 DEF MeansNew, Calm
  <2>10. Calm(mem, free)'
    <3>1. \A r \in spaces, x \in CallerPages :
             Present(Mmu(s.mem, r, x)) => Mmu(s.mem, r, x).frame \notin s.free
      BY <2>1, <2>9
    <3>2. ASSUME NEW r \in spaces, NEW q \in spaces, NEW x \in CallerPages, NEW y \in CallerPages,
                 Present(Mmu(s.mem, r, x)), Present(Mmu(s.mem, q, y)),
                 Mmu(s.mem, r, x).frame = Mmu(s.mem, q, y).frame, Mmu(s.mem, r, x).frame \in data \cup {f}
          PROVE  T1(s.mem, r, x) = T1(s.mem, q, y) /\ x[4] = y[4]
      <4>1. CASE Mmu(s.mem, r, x).frame = f
        <5>1. x = v /\ T1(s.mem, r, x) = s.at
          BY <2>9, <3>2, <4>1
        <5>2. y = v /\ T1(s.mem, q, y) = s.at
          BY <2>9, <3>2, <4>1
        <5> QED BY <5>1, <5>2
      <4>2. CASE Mmu(s.mem, r, x).frame # f
        <5>1. Mmu(s.mem, r, x) = Mmu(mem, r, x) /\ T1(s.mem, r, x) = T1(mem, r, x)
          BY <2>9, <3>2, <4>2
        <5>2. Mmu(s.mem, q, y) = Mmu(mem, q, y) /\ T1(s.mem, q, y) = T1(mem, q, y)
          BY <2>9, <3>2, <4>2
        <5>3. /\ Present(Mmu(mem, r, x)) /\ Present(Mmu(mem, q, y))
              /\ Mmu(mem, r, x).frame = Mmu(mem, q, y).frame /\ Mmu(mem, r, x).frame \in data
          BY <3>2, <4>2, <5>1, <5>2
        <5>4. T1(mem, r, x) = T1(mem, q, y) /\ x[4] = y[4]
          BY <2>8, <5>3 DEF Calm
        <5> QED BY <5>1, <5>2, <5>4
      <4> QED BY <4>1, <4>2
    <3> QED BY <2>2, <2>3, <2>9, <3>1, <3>2 DEF Calm
  <2>11. todo' \in Seq(CallerPages)
    BY <1>e, <2>2 DEF IInv
  <2>12. prot' \in Prots
    BY <1>e, <2>2 DEF IInv
  <2>13. IInv'
    <3>1. BootRoot \in spaces' /\ ret' \in Frame \cup {-ENOMEM} /\ status' \in {"up", "halted"}
      BY <2>2 DEF IInv
    <3> QED BY <2>7, <2>10, <2>11, <2>12, <3>1 DEF IInv
  <2>14. OneChange(v) /\ v \in Asked
    BY <1>e, <2>1, <2>3 DEF OneChange, Asked
  <2> QED BY <2>13, <2>14 DEF Contained
<1> QED BY <1>1, <1>2
-----------------------------------------------------------------------------
(* The invariant                                                           *)

LEMMA BootIsSound ==
  ASSUME Init
  PROVE  IInv
<1>1. /\ mem = BootMem /\ free = BootFree /\ cr3 = BootRoot /\ spaces = {BootRoot}
      /\ data = {} /\ todo = <<>> /\ prot = {} /\ ret = 0 /\ status = "up"
  BY DEF Init
<1>2. BootLevel \in Levels
  BY DEF BootLevel, Levels
<1>3. BootMem \in Memory /\ BootFree \subseteq Frame \ {0} /\ BootRoot \in Frame
  BY BootAssumption, FrameAssumption DEF Memory
<1>4. Roots(BootLevel) = {BootRoot}
  BY <1>3 DEF Roots, BootLevel
<1>5. Shape(BootMem, BootLevel) /\ \A f \in BootFree \cup {0} : BootLevel[f] = 0
  BY TablesAssumption
<1>6. \A r \in spaces, f \in Frame \ {0} : Mmu(BootMem, r, Same(f)).frame = f
  BY <1>1, WindowAssumption
<1>7. Sound(mem, free, BootLevel)
  BY <1>1, <1>2, <1>3, <1>4, <1>5, <1>6 DEF Sound
<1>8. \A v \in CallerPages :
         /\ "PS" \notin Mmu(BootMem, BootRoot, v).flags
         /\ Present(Mmu(BootMem, BootRoot, v)) => Mmu(BootMem, BootRoot, v).frame \notin BootFree
  BY CallerAssumption
<1>9. Calm(mem, free)
  BY <1>1, <1>8 DEF Calm
<1> QED BY <1>1, <1>2, <1>7, <1>9, FrameAssumption DEF IInv

LEMMA StepsAreSound ==
  ASSUME IInv, [Next]_vars
  PROVE  IInv' /\ Contained
<1>1. CASE vmm_make_pml4
  BY <1>1, MakePml4IsFine
<1>2. ASSUME NEW root \in spaces, load_cr3(root) PROVE IInv' /\ Contained
  BY <1>2, LoadCr3IsFine
<1>3. CASE mmap_page
  BY <1>3, MmapPageIsFine
<1>4. ASSUME NEW a \in Areas, mmap(a) PROVE IInv' /\ Contained
  BY <1>4, MmapIsFine
<1>5. ASSUME NEW v \in CallerPages, vmm_get_phys(v) PROVE IInv' /\ Contained
  BY <1>5, GetPhysIsFine
<1>6. ASSUME NEW v \in CallerPages, munmap(v) PROVE IInv' /\ Contained
  BY <1>6, MunmapIsFine
<1>7. ASSUME NEW v \in CallerPages, munmap_any(v) PROVE IInv' /\ Contained
  BY <1>7, MunmapAnyIsFine
<1>8. ASSUME NEW v \in CallerPages, NEW p \in Prots, vmm_update_flags(v, p) PROVE IInv' /\ Contained
  BY <1>8, UpdateFlagsIsFine
<1>9. CASE UNCHANGED vars
  <2>1. PICK level \in Levels : Sound(mem, free, level)
    BY DEF IInv
  <2>2. Sound(mem, free, level)'
    BY <1>9, <2>1 DEF Sound, vars
  <2>3. Calm(mem, free)'
    BY <1>9 DEF Calm, IInv, vars
  <2>4. Contained
    BY <1>9 DEF Contained, SameView, vars
  <2> QED BY <1>9, <2>2, <2>3, <2>4 DEF IInv, vars
<1> QED BY <1>1, <1>2, <1>3, <1>4, <1>5, <1>6, <1>7, <1>8, <1>9 DEF Next

\* The tables are well shaped, found and private, and what mmap gave away has one
\* place, in every state of every behaviour.
THEOREM InvariantHolds == Spec => []IInv
<1>1. Init => IInv
  BY BootIsSound
<1>2. IInv /\ [Next]_vars => IInv'
  BY StepsAreSound
<1> QED BY <1>1, <1>2, PTL DEF Spec
-----------------------------------------------------------------------------
(* What follows from it                                                    *)

\* Tables below tables of one level have the next level.
LEMMA BelowIsLower ==
  ASSUME NEW m, NEW fr, NEW level, Sound(m, fr, level), NEW k \in 2 .. 4,
         NEW T, \A t \in T : t \in Frame /\ level[t] = k
  PROVE  \A f \in Below(m, T) : f \in Frame /\ level[f] = k - 1
<1> SUFFICES ASSUME NEW f \in Below(m, T) PROVE f \in Frame /\ level[f] = k - 1
  OBVIOUS
<1>1. PICK t \in T, i \in Index : Link(m, t, i) /\ m[t][i].frame = f
  BY DEF Below
<1>2. EntryFits(m, level, t, i)
  BY DEF Sound, Shape
<1> QED BY <1>1, <1>2 DEF EntryFits

LEMMA TablesHaveLevels ==
  ASSUME NEW level, Sound(mem, free, level)
  PROVE  \A t \in Tables : t \in Frame /\ level[t] \in 1 .. 4
<1> DEFINE t4 == spaces
           t3 == Below(mem, t4)
           t2 == Below(mem, t3)
           t1 == Below(mem, t2)
<1>1. \A t \in t4 : t \in Frame /\ level[t] = 4
  BY DEF Sound, Roots
<1>2. Tables = t4 \cup t3 \cup t2 \cup t1
  BY DEF Tables
<1> HIDE DEF t4
<1>3. \A t \in t3 : t \in Frame /\ level[t] = 4 - 1
  BY <1>1, BelowIsLower
<1>4. \A t \in t3 : t \in Frame /\ level[t] = 3
  BY <1>3
<1> HIDE DEF t3
<1>5. \A t \in t2 : t \in Frame /\ level[t] = 3 - 1
  BY <1>4, BelowIsLower
<1>6. \A t \in t2 : t \in Frame /\ level[t] = 2
  BY <1>5
<1> HIDE DEF t2
<1>7. \A t \in t1 : t \in Frame /\ level[t] = 2 - 1
  BY <1>6, BelowIsLower
<1> HIDE DEF t1
<1> QED BY <1>1, <1>2, <1>4, <1>6, <1>7

\* Every variable keeps its type.
THEOREM TypesHold == Spec => []TypeOK
<1>1. IInv => TypeOK
  <2> SUFFICES ASSUME IInv PROVE TypeOK
    OBVIOUS
  <2>1. PICK level \in Levels : Sound(mem, free, level)
    BY DEF IInv
  <2>2. /\ mem \in [Frame -> [Index -> Entry]] /\ free \subseteq Frame /\ data \subseteq Frame
        /\ cr3 \in spaces /\ spaces \subseteq Frame
    BY <2>1 DEF Sound, Memory, Roots
  <2>3. todo \in Seq(Page)
    <3>1. todo \in Seq(CallerPages)
      BY DEF IInv
    <3> QED BY <3>1, CallerPagesArePages
  <2> QED BY <2>2, <2>3 DEF IInv, TypeOK
<1> QED BY <1>1, InvariantHolds, PTL

\* No table is free or given away, in whatever order page maps are made, pages are
\* mapped and unmapped, and walks make tables.
THEOREM TablesStayPrivate == Spec => []TablesArePrivate
<1>1. IInv => TablesArePrivate
  <2> SUFFICES ASSUME IInv PROVE TablesArePrivate
    OBVIOUS
  <2>1. PICK level \in Levels : Sound(mem, free, level)
    BY DEF IInv
  <2>2. \A f \in free \cup data : level[f] = 0
    BY <2>1 DEF Sound
  <2>3. \A t \in Tables : level[t] # 0
    BY <2>1, TablesHaveLevels
  <2> QED BY <2>2, <2>3 DEF TablesArePrivate
<1> QED BY <1>1, InvariantHolds, PTL

\* No page that callers use leads to a free frame, in any page map.
THEOREM NothingEverDangles == Spec => []NothingDangles
<1>1. IInv => NothingDangles
  BY DEF IInv, Calm, NothingDangles
<1> QED BY <1>1, InvariantHolds, PTL

\* The kernel reaches every table at the table's physical address.
THEOREM TablesStayFound == Spec => []TablesAreFound
<1>1. IInv => TablesAreFound
  <2> SUFFICES ASSUME IInv, NEW t \in Tables PROVE Via(mem, t) = t
    BY DEF TablesAreFound
  <2>1. PICK level \in Levels : Sound(mem, free, level)
    BY DEF IInv
  <2>2. t \in Frame /\ level[t] # 0 /\ level[0] = 0
    BY <2>1, TablesHaveLevels DEF Sound
  <2>3. t \in Frame \ {0}
    BY <2>2
  <2> QED BY <2>1, <2>3, ViaIsHere
<1> QED BY <1>1, InvariantHolds, PTL

\* A call changes the meaning of one page at most, and of one it was asked for.
THEOREM OthersStayUntouched == Spec => OthersUntouched
<1> DEFINE changed == {v \in Watched : \E root \in spaces : Mmu(mem, root, v) # Mmu(mem', root, v)}
           Step == /\ Cardinality(changed) <= 1
                   /\ changed \subseteq IF todo = <<>> THEN CallerPages ELSE {Head(todo)}
<1>1. IInv /\ [Next]_vars => Step
  <2> SUFFICES ASSUME IInv, [Next]_vars PROVE Step
    OBVIOUS
  <2>1. Contained
    BY StepsAreSound
  <2>2. CASE SameView(mem, mem', spaces)
    <3>1. changed = {}
      BY <2>2, BootAssumption DEF SameView
    <3> QED BY <3>1, FS_EmptySet
  <2>3. ASSUME NEW v \in Asked, OneChange(v) PROVE Step
    <3>1. changed \subseteq {v}
      BY <2>3, BootAssumption DEF OneChange
    <3>2. Cardinality(changed) <= 1
      <4> HIDE DEF changed
      <4>1. IsFiniteSet({v}) /\ Cardinality({v}) = 1
        BY FS_Singleton
      <4>2. Cardinality(changed) <= Cardinality({v})
        BY <3>1, <4>1, FS_Subset
      <4> QED BY <4>1, <4>2
    <3> HIDE DEF changed
    <3> QED BY <3>1, <3>2 DEF Asked
  <2> QED BY <2>1, <2>2, <2>3 DEF Contained
<1>2. [Next]_vars /\ IInv => [Step]_vars
  BY <1>1
<1> QED BY <1>2, InvariantHolds, PTL DEF Spec, OthersUntouched

\* What mmap passed is mapped with its own frame and the rights that were asked for,
\* unless the free frames ran out on the way.
THEOREM MmapReallyMaps == Spec => MmapMaps
<1> DEFINE Asks == mmap_page /\ todo' # todo /\ status' = "up" /\ free' # {}
           e == Mmu(mem', cr3, Head(todo))
           Gets == /\ e.frame = Min(free) /\ e.frame \in data'
                   /\ Present(e)
                   /\ "W" \in e.flags <=> "WRITE" \in prot
                   /\ "NX" \in e.flags <=> "EXEC" \notin prot
<1>1. IInv /\ Asks => Gets
  <2> SUFFICES ASSUME IInv, Asks PROVE Gets
    OBVIOUS
  <2> DEFINE f == Min(free)
             v == Head(todo)
             s == Mapped(Zeroed(Start(cr3), f), v, f, PteFlags(prot))
  <2>1. free # {} /\ todo # <<>>
    BY DEF mmap_page
  <2>2. MappedRight(s, f, v)
    BY <2>1, PageIsMapped
  <2>3. Keep([s EXCEPT !.at = cr3]) /\ data' = data \cup {f}
    BY <2>1 DEF mmap_page, Halt
  <2> HIDE DEF s, f, v
  <2>4. mem' = s.mem /\ free' = s.free
    BY <2>3 DEF Keep
  <2>5. /\ Mmu(s.mem, cr3, v).frame = f /\ Present(Mmu(s.mem, cr3, v))
        /\ "W" \in Mmu(s.mem, cr3, v).flags <=> "WRITE" \in prot
        /\ "NX" \in Mmu(s.mem, cr3, v).flags <=> "EXEC" \notin prot
    BY <2>2, <2>4 DEF MappedRight
  <2> QED BY <2>3, <2>4, <2>5 DEF f, v
<1>2. [Next]_vars /\ IInv => [Asks => Gets]_vars
  BY <1>1
<1> QED BY <1>2, InvariantHolds, PTL DEF Spec, MmapMaps
=============================================================================
