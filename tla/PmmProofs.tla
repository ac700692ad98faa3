------------------------------ MODULE PmmProofs ------------------------------
(***************************************************************************)
(* Proofs about the physical memory manager: for every memory map, page    *)
(* size and heap size, and every sequence of calls.                        *)
(***************************************************************************)
EXTENDS Pmm, TLAPS, NaturalsInduction, FiniteSetTheorems, WellFoundedInduction

\* A non-empty set of natural numbers has a least element, the one Min picks.
LEMMA MinOfNaturals ==
  ASSUME NEW S \in SUBSET Nat, S # {}
  PROVE  Min(S) \in S /\ \A y \in S : Min(S) <= y
<1>1. PICK x \in S : \A y \in S : ~ (<<y, x>> \in OpToRel(<, Nat))
  BY NatLessThanWellFounded, WFMin, Zenon
<1>2. \A y \in S : x <= y
  <2>1. SUFFICES ASSUME NEW y \in S, y < x PROVE FALSE
    OBVIOUS
  <2>2. <<y, x>> \in OpToRel(<, Nat)
    BY <2>1 DEF OpToRel
  <2> QED BY <2>2, <1>1, Zenon
<1>3. QED
  BY <1>2 DEF Min

\* The ends of the first n entries of a map have a greatest one, or 0.
LEMMA HighestEndExists ==
  ASSUME NEW m \in Seq(Entry)
  PROVE  \E x \in Nat : /\ x \in {0} \cup {m[i].base + m[i].length : i \in UsableEntries(m)}
                        /\ \A i \in UsableEntries(m) : m[i].base + m[i].length <= x
<1> DEFINE Ends(n) == {0} \cup {m[i].base + m[i].length :
                                  i \in {j \in UsableEntries(m) : j <= n}}
           HasMax(n) == \E x \in Ends(n) : \A y \in Ends(n) : y <= x
           Bad == {n \in 0 .. Len(m) : ~ HasMax(n)}
<1>0. \A i \in DOMAIN m : m[i].base \in Nat /\ m[i].length \in Nat
  <2>1. \A e \in Entry : e.base \in Nat /\ e.length \in Nat
    BY DEF Entry
  <2> QED BY <2>1
<1>t. \A n : Ends(n) \subseteq Nat
  BY <1>0 DEF UsableEntries
<1>1. Bad = {}
  <2>1. SUFFICES ASSUME Bad # {} PROVE FALSE
    OBVIOUS
  <2>2. Bad \in SUBSET Nat
    OBVIOUS
  <2>3. PICK n \in Bad : \A k \in Bad : n <= k
    <3> HIDE DEF Bad
    <3> QED BY <2>1, <2>2, MinOfNaturals
  <2>4. n # 0
    <3>1. Ends(0) = {0}
      BY DEF UsableEntries
    <3> HIDE DEF Ends
    <3>2. HasMax(0)
      BY <3>1
    <3> QED BY <3>2
  <2>5. n - 1 \in 0 .. Len(m) /\ n - 1 \notin Bad
    BY <2>3, <2>4
  <2>6. PICK x \in Ends(n - 1) : \A y \in Ends(n - 1) : y <= x
    BY <2>5
  <2>7. \A y \in Ends(n) :
            y \in Ends(n - 1) \/ (n \in UsableEntries(m) /\ y = m[n].base + m[n].length)
    BY <2>5 DEF UsableEntries
  <2>8. Ends(n - 1) \subseteq Ends(n)
    BY <2>5 DEF UsableEntries
  <2>9. HasMax(n)
    <3>1. CASE n \in UsableEntries(m) /\ m[n].base + m[n].length > x
      <4>1. m[n].base + m[n].length \in Ends(n)
        BY <3>1, <2>5
      <4>0. m[n].base + m[n].length \in Nat /\ x \in Nat /\ Ends(n - 1) \subseteq Nat
        <5>1. n \in DOMAIN m
          BY <3>1 DEF UsableEntries
        <5>2. Ends(n) \subseteq Nat /\ Ends(n - 1) \subseteq Nat
          <6> HIDE DEF Ends
          <6> QED BY <1>t
        <5> HIDE DEF Ends
        <5> QED BY <5>1, <5>2, <1>0, <2>6
      <4> HIDE DEF Ends
      <4>2. \A y \in Ends(n) : y <= m[n].base + m[n].length
        BY <3>1, <2>6, <2>7, <4>0
      <4> QED BY <4>1, <4>2
    <3>2. CASE ~ (n \in UsableEntries(m) /\ m[n].base + m[n].length > x)
      <4>1. n \in UsableEntries(m) => m[n].base + m[n].length \in Nat
        BY <1>0 DEF UsableEntries
      <4> HIDE DEF Ends
      <4>2. \A y \in Ends(n) : y <= x
        BY <3>2, <2>6, <2>7, <1>t, <4>1
      <4> QED BY <4>2, <2>6, <2>8
    <3> QED BY <3>1, <3>2
  <2> QED BY <2>9, <2>3
<1>2. Len(m) \in 0 .. Len(m) /\ HasMax(Len(m))
  BY <1>1
<1>3. PICK x \in Ends(Len(m)) : \A y \in Ends(Len(m)) : y <= x
  BY <1>2
<1>4. {j \in UsableEntries(m) : j <= Len(m)} = UsableEntries(m)
  BY DEF UsableEntries
<1> QED BY <1>3, <1>4, <1>t

LEMMA HighestPageType ==
  ASSUME NEW m \in Seq(Entry)
  PROVE  /\ HighestPage(m) \in Nat
         /\ \A i \in UsableEntries(m) : m[i].base + m[i].length <= HighestPage(m)
<1> DEFINE Ends == {0} \cup {m[i].base + m[i].length : i \in UsableEntries(m)}
<1>0. \A i \in UsableEntries(m) : m[i].base + m[i].length \in Nat
  <2>1. \A e \in Entry : e.base + e.length \in Nat
    BY DEF Entry
  <2> QED BY <2>1 DEF UsableEntries
<1>1. PICK x \in Ends : \A y \in Ends : x >= y
  <2>1. PICK x \in Nat : /\ x \in Ends
                         /\ \A i \in UsableEntries(m) : m[i].base + m[i].length <= x
    BY HighestEndExists
  <2>2. \A y \in Ends : x >= y
    BY <2>1, <1>0
  <2> QED BY <2>1, <2>2
<1>2. Max(Ends) \in Ends /\ \A y \in Ends : Max(Ends) >= y
  BY <1>1 DEF Max
<1> QED BY <1>2, <1>0 DEF HighestPage

\* Rounding up to a multiple of a reaches at least x, by a whole number of a.
LEMMA AlignUpProperties ==
  ASSUME NEW x \in Nat, NEW a \in Nat \ {0}
  PROVE  /\ AlignUp(x, a) \in Nat
         /\ AlignUp(x, a) >= x
         /\ AlignUp(x, a) \div a \in Nat
         /\ (AlignUp(x, a) \div a) * a = AlignUp(x, a)
<1> DEFINE k == (x + a - 1) \div a
<1>1. k \in Nat
  OBVIOUS
<1>2. x + a - 1 = k * a + ((x + a - 1) % a) /\ (x + a - 1) % a \in 0 .. a - 1
  OBVIOUS
<1>3. k * a >= x /\ k * a \in Nat
  BY <1>1, <1>2
<1>4. (k * a) \div a = k
  BY <1>1
<1> QED BY <1>1, <1>3, <1>4 DEF AlignUp

\* The entry pmm_init picks is usable and long enough for the bitmap.
LEMMA HolderProperties ==
  ASSUME NEW m \in MemMaps, Holders(m) # {}
  PROVE  /\ m \in Seq(Entry)
         /\ Holder(m) \in UsableEntries(m)
         /\ BitmapPages(m) \in Nat
         /\ BitmapPages(m) <= m[Holder(m)].length
         /\ BitmapBytes(m) \in Nat
<1>1. m \in Seq(Entry)
  BY MapAssumption DEF GoodMap
<1>2. Holders(m) \in SUBSET Nat
  BY <1>1 DEF Holders, UsableEntries
<1>3. Holder(m) \in Holders(m)
  BY <1>2, MinOfNaturals DEF Holder
<1>4. HighestPage(m) \div BitsPerByte \in Nat
  BY <1>1, HighestPageType, PageAssumption
<1>5. /\ BitmapBytes(m) \in Nat
      /\ BitmapPages(m) \in Nat
      /\ BitmapPages(m) * PageSize = BitmapBytes(m)
  BY <1>4, AlignUpProperties, PageAssumption DEF BitmapBytes, BitmapPages
<1>6. m[Holder(m)] \in Entry
  BY <1>1, <1>3 DEF Holders, UsableEntries
<1>7. m[Holder(m)].length \in Nat
  BY <1>6 DEF Entry
<1>8. m[Holder(m)].length * PageSize >= BitmapPages(m) * PageSize
  BY <1>3, <1>5 DEF Holders
<1>9. BitmapPages(m) <= m[Holder(m)].length
  <2> DEFINE p == BitmapPages(m)
             l == m[Holder(m)].length
  <2>1. p \in Nat /\ l \in Nat /\ l * PageSize >= p * PageSize
    BY <1>5, <1>7, <1>8
  <2> HIDE DEF p, l
  <2>2. SUFFICES ASSUME l + 1 <= p PROVE FALSE
    BY <2>1 DEF p, l
  <2>3. p * PageSize >= (l + 1) * PageSize
    BY <2>1, <2>2, PageAssumption
  <2>4. (l + 1) * PageSize = l * PageSize + PageSize
    BY <2>1, PageAssumption
  <2>5. p * PageSize \in Nat /\ l * PageSize \in Nat
    BY <2>1, PageAssumption
  <2> QED BY <2>1, <2>3, <2>4, <2>5, PageAssumption
<1> QED BY <1>1, <1>3, <1>5, <1>9 DEF Holders

\* What is left of the map is what the bitmap does not lie in.
LEMMA CarvedFrames ==
  ASSUME NEW m \in MemMaps, Holders(m) # {}
  PROVE  /\ UsableFrames(Carved(m)) \cap BitmapFrames(m) = {}
         /\ UsableFrames(Carved(m)) \subseteq UsableFrames(m)
         /\ BitmapFrames(m) \subseteq Nat
<1> DEFINE h == Holder(m)
           c == Carved(m)
<1>1. /\ m \in Seq(Entry) /\ h \in UsableEntries(m)
      /\ BitmapPages(m) \in Nat /\ BitmapPages(m) <= m[h].length
  BY HolderProperties
<1>2. /\ DOMAIN c = DOMAIN m
      /\ \A i \in DOMAIN m : i # h => c[i] = m[i]
      /\ c[h].usable = m[h].usable
      /\ c[h].base = m[h].base + BitmapPages(m)
      /\ c[h].length = m[h].length - BitmapPages(m)
  <2>1. h \in DOMAIN m /\ m[h] \in Entry
    BY <1>1 DEF UsableEntries
  <2>2. c = [m EXCEPT ![h] = [m[h] EXCEPT !.base   = m[h].base + BitmapPages(m),
                                          !.length = m[h].length - BitmapPages(m)]]
    BY DEF Carved
  <2>3. m = [i \in DOMAIN m |-> m[i]]
    BY <1>1
  <2> HIDE DEF c, h
  <2>4. DOMAIN c = DOMAIN m /\ \A i \in DOMAIN m : i # h => c[i] = m[i]
    BY <2>2, <2>3
  <2>5. c[h] = [m[h] EXCEPT !.base   = m[h].base + BitmapPages(m),
                            !.length = m[h].length - BitmapPages(m)]
    BY <2>1, <2>2, <2>3
  <2>6. /\ c[h].usable = m[h].usable
        /\ c[h].base = m[h].base + BitmapPages(m)
        /\ c[h].length = m[h].length - BitmapPages(m)
    BY <2>1, <2>5 DEF Entry
  <2> QED BY <2>4, <2>6
<1>3. UsableEntries(c) = UsableEntries(m)
  <2>1. \A i \in DOMAIN m : c[i].usable = m[i].usable
    BY <1>2
  <2> QED BY <2>1, <1>2 DEF UsableEntries
<1>4. \A i \in UsableEntries(m) : m[i].base \in Nat /\ m[i].length \in Nat
  <2>1. \A e \in Entry : e.base \in Nat /\ e.length \in Nat
    BY DEF Entry
  <2> QED BY <2>1, <1>1 DEF UsableEntries
<1>5. BitmapFrames(m) \subseteq Span(m[h]) /\ Span(c[h]) \subseteq Span(m[h])
  <2> DEFINE b == m[h].base
             l == m[h].length
             p == BitmapPages(m)
  <2>1. b \in Nat /\ l \in Nat /\ p \in Nat /\ p <= l
    BY <1>1, <1>4
  <2>2. /\ Span(m[h]) = b .. b + l - 1
        /\ Span(c[h]) = b + p .. b + p + (l - p) - 1
        /\ BitmapFrames(m) = b .. b + p - 1
    BY <1>2 DEF BitmapFrames, Span
  <2> HIDE DEF b, l, p
  <2> QED BY <2>1, <2>2
<1>6. Span(c[h]) \cap BitmapFrames(m) = {}
  <2>1. /\ Span(c[h]) = m[h].base + BitmapPages(m) .. c[h].base + c[h].length - 1
        /\ BitmapFrames(m) = m[h].base .. m[h].base + BitmapPages(m) - 1
    BY <1>2 DEF BitmapFrames, Span
  <2> QED BY <2>1, <1>1, <1>4
<1>7. \A i \in UsableEntries(m) : i # h => Span(m[i]) \cap Span(m[h]) = {}
  BY <1>1, MapAssumption DEF GoodMap, UsableEntries
<1>8. \A i \in UsableEntries(m) : i # h => Span(c[i]) = Span(m[i])
  BY <1>2 DEF UsableEntries
<1> HIDE DEF h, c
<1>9. UsableFrames(c) \cap BitmapFrames(m) = {}
  BY <1>3, <1>5, <1>6, <1>7, <1>8 DEF UsableFrames
<1>10. UsableFrames(c) \subseteq UsableFrames(m)
  BY <1>1, <1>3, <1>5, <1>8 DEF UsableFrames
<1>11. BitmapFrames(m) \subseteq Nat
  BY <1>1, <1>4 DEF BitmapFrames, h
<1> QED BY <1>9, <1>10, <1>11 DEF c

LEMMA UsableFramesType ==
  ASSUME NEW m \in Seq(Entry)
  PROVE  /\ UsableFrames(m) \subseteq Nat
         /\ \A f \in UsableFrames(m) : f < HighestPage(m)
<1>1. \A e \in Entry : e.base \in Nat /\ e.length \in Nat
  BY DEF Entry
<1>2. \A i \in UsableEntries(m) : m[i].base \in Nat /\ m[i].length \in Nat
  BY <1>1 DEF UsableEntries
<1>3. \A i \in UsableEntries(m) : \A f \in Span(m[i]) :
         f \in Nat /\ f < m[i].base + m[i].length
  BY <1>2 DEF Span
<1>4. ASSUME NEW f \in UsableFrames(m)
      PROVE  f \in Nat /\ f < HighestPage(m)
  <2>1. PICK i \in UsableEntries(m) : f \in Span(m[i])
    BY <1>4 DEF UsableFrames
  <2>2. /\ m[i].base + m[i].length \in Nat
        /\ m[i].base + m[i].length <= HighestPage(m)
        /\ HighestPage(m) \in Nat
    BY <1>2, HighestPageType
  <2>3. f \in Nat /\ f < m[i].base + m[i].length
    BY <2>1, <1>3
  <2> DEFINE e == m[i].base + m[i].length
  <2>4. f \in Nat /\ e \in Nat /\ f < e /\ e <= HighestPage(m) /\ HighestPage(m) \in Nat
    BY <2>2, <2>3
  <2> HIDE DEF e
  <2> QED BY <2>4
<1> QED BY <1>4

\* The bits the two roundings of bitmap_size leave out are fewer than 8.
LEMMA StrayBound ==
  ASSUME NEW m \in MemMaps, Holders(m) # {},
         NEW S \in SUBSET UsableFrames(m),
         \A f \in S : f >= BitmapBytes(m) * BitsPerByte
  PROVE  IsFiniteSet(S) /\ Cardinality(S) < BitsPerByte
<1> DEFINE H == HighestPage(m)
           q == H \div BitsPerByte
           n == BitmapBytes(m) * BitsPerByte
<1>1. m \in Seq(Entry) /\ BitmapBytes(m) \in Nat
  BY HolderProperties
<1>2. H \in Nat /\ \A f \in S : f \in Nat /\ f < H
  BY <1>1, HighestPageType, UsableFramesType
<1>3. q \in Nat /\ H = q * BitsPerByte + (H % BitsPerByte) /\ H % BitsPerByte \in 0 .. BitsPerByte - 1
  BY <1>2, PageAssumption
<1>4. BitmapBytes(m) >= q
  BY <1>3, AlignUpProperties, PageAssumption DEF BitmapBytes
<1>5. n >= q * BitsPerByte /\ n \in Nat /\ q * BitsPerByte \in Nat
  <2>1. /\ q \in Nat /\ BitmapBytes(m) \in Nat /\ BitmapBytes(m) - q \in Nat
        /\ BitsPerByte \in Nat
    <3>1. q \in Nat /\ BitmapBytes(m) \in Nat /\ BitmapBytes(m) >= q
      BY <1>1, <1>3, <1>4
    <3> HIDE DEF q
    <3> QED BY <3>1, PageAssumption
  <2> HIDE DEF q
  <2>2. (BitmapBytes(m) - q) * BitsPerByte \in Nat /\ q * BitsPerByte \in Nat
    BY <2>1
  <2>3. n = q * BitsPerByte + (BitmapBytes(m) - q) * BitsPerByte
    BY <2>1
  <2> HIDE DEF n
  <2> QED BY <2>2, <2>3
<1>6. H - n < BitsPerByte
  BY <1>2, <1>3, <1>5, PageAssumption
<1>7. S \subseteq n .. H - 1
  BY <1>2, <1>5
<1>8. IsFiniteSet(n .. H - 1) /\ Cardinality(n .. H - 1) < BitsPerByte
  <2>1. n \in Int /\ H - 1 \in Int /\ H \in Nat
    BY <1>2, <1>5
  <2> HIDE DEF n, H
  <2>2. /\ IsFiniteSet(n .. H - 1)
        /\ Cardinality(n .. H - 1) = IF n > H - 1 THEN 0 ELSE (H - 1) - n + 1
    BY <2>1, FS_Interval
  <2> QED BY <2>1, <2>2, <1>6, PageAssumption
<1>9. IsFiniteSet(S) /\ Cardinality(S) <= Cardinality(n .. H - 1) /\ Cardinality(S) \in Nat
  BY <1>7, <1>8, FS_Subset, FS_CardinalityType
<1>10. Cardinality(n .. H - 1) \in Nat
  BY <1>8, FS_CardinalityType
<1> QED BY <1>8, <1>9, <1>10, PageAssumption
-----------------------------------------------------------------------------
(* The inductive invariant.  The invariants the runs check are not          *)
(* inductive by themselves: that a clear bit is a usable frame other than 0 *)
(* needs what pmm_init knew of the map, and that the window is private      *)
(* needs that nothing was handed out before the heap was set aside.         *)

NotYetBuilt == phase \in {"off", "nobitmap"} => nbits = 0
NotYetUsed  == phase # "ready" => heap = {} /\ held = {} /\ window = {}
ZeroUnusable == 0 \notin UsableFrames(entries)

IInv == /\ TypeOK /\ OwnedAreMarked /\ BitmapSurvives /\ NothingLeaks
        /\ WindowIsPrivate
        /\ NotYetBuilt /\ NotYetUsed /\ ZeroUnusable

LEMMA InitEstablishesIInv == Init => IInv
<1> SUFFICES ASSUME Init PROVE IInv
  OBVIOUS
<1> USE DEF Init
<1>1. UsableFrames(<<>>) = {}
  BY DEF UsableFrames, UsableEntries
<1>2. Clear = {}
  BY DEF Clear
<1>3. Cardinality({}) = 0
  BY FS_EmptySet
<1>4. TypeOK
  BY DEF TypeOK
<1>5. NothingLeaks
  BY <1>1, <1>2, <1>3, PageAssumption DEF NothingLeaks
<1> QED BY <1>1, <1>2, <1>4, <1>5
        DEF IInv, OwnedAreMarked, BitmapSurvives, WindowIsPrivate,
            NotYetBuilt, NotYetUsed, ZeroUnusable

\* Building the bitmap from a map.
LEMMA BuildPreservesIInv ==
  ASSUME IInv, phase = "off", NEW m \in MemMaps, BuildBitmap(m),
         UNCHANGED <<heap, window, held, ret>>
  PROVE  IInv'
<1> DEFINE free == UsableFrames(Carved(m))
           n == BitmapBytes(m) * BitsPerByte
<1>1. /\ Holders(m) # {}
      /\ phase' = "mapped" /\ entries' = Carved(m) /\ nbits' = n
      /\ storage' = BitmapFrames(m)
      /\ marked' = (0 .. n - 1) \ free
      /\ stray' = free \ (0 .. n - 1)
  BY DEF BuildBitmap
<1>2. heap' = {} /\ held' = {} /\ window' = {} /\ ret' \in Nat
  BY DEF IInv, NotYetUsed, TypeOK
<1>3. n \in Nat
  BY <1>1, HolderProperties, PageAssumption
<1>4. /\ free \cap BitmapFrames(m) = {}
      /\ free \subseteq UsableFrames(m)
      /\ BitmapFrames(m) \subseteq Nat
  BY <1>1, CarvedFrames
<1>5. free \subseteq Nat /\ 0 \notin free
  BY <1>1, <1>4, HolderProperties, UsableFramesType, MapAssumption DEF GoodMap
<1> HIDE DEF free, n
<1>6. Clear' = (0 .. n - 1) \cap free
  BY <1>1 DEF Clear
<1>7. Cardinality(stray') < BitsPerByte
  <2>1. \A f \in stray' : f >= n
    BY <1>1, <1>3, <1>5
  <2>2. stray' \in SUBSET UsableFrames(m)
    BY <1>1, <1>4
  <2> QED BY <1>1, <2>1, <2>2, StrayBound DEF n
<1>8. entries' = Carved(m) /\ UsableFrames(entries') = free
  BY <1>1 DEF free
<1>9. TypeOK'
  BY <1>1, <1>2, <1>3, <1>4, <1>5 DEF TypeOK
<1>10. NothingLeaks'
  BY <1>1, <1>2, <1>6, <1>7, <1>8 DEF NothingLeaks
<1> QED BY <1>1, <1>2, <1>4, <1>5, <1>6, <1>8, <1>9, <1>10
        DEF IInv, OwnedAreMarked, BitmapSurvives, WindowIsPrivate,
            NotYetBuilt, NotYetUsed, ZeroUnusable

LEMMA FirstClearProperties ==
  ASSUME TypeOK, Clear # {}
  PROVE  FirstClear \in Clear /\ \A g \in Clear : FirstClear <= g
<1>1. Clear \in SUBSET Nat
  BY DEF Clear, TypeOK
<1> QED BY <1>1, MinOfNaturals DEF FirstClear

\* The frames set aside for the heap contain its first frame and every clear
\* bit in the n pages from there on, whatever holes the map has.
LEMMA LowestClearCovers ==
  ASSUME TypeOK, Clear # {}, NEW n \in Nat
  PROVE  /\ LowestClear(n) \subseteq Clear
         /\ FirstClear \in LowestClear(n)
         /\ Clear \cap (FirstClear .. FirstClear + n - 1) \subseteq LowestClear(n)
<1>1. /\ FirstClear \in Nat /\ Clear \subseteq Nat
      /\ FirstClear \in Clear /\ \A g \in Clear : FirstClear <= g
  BY FirstClearProperties DEF Clear, TypeOK
<1>2. ASSUME NEW f \in Clear, f <= FirstClear + n
      PROVE  f \in LowestClear(n)
  <2> DEFINE Below == {g \in Clear : g < f}
  <2>1. f \in Nat /\ FirstClear <= f
    BY <1>1
  <2>2. Below \subseteq FirstClear .. f - 1
    <3>1. ASSUME NEW g \in Clear, g < f PROVE g \in FirstClear .. f - 1
      <4>1. g \in Nat /\ FirstClear <= g
        BY <1>1
      <4> QED BY <4>1, <3>1, <2>1, <1>1
    <3> QED BY <3>1
  <2>3. /\ IsFiniteSet(FirstClear .. f - 1)
        /\ Cardinality(FirstClear .. f - 1) = f - FirstClear
    <3>1. Cardinality(FirstClear .. f - 1) =
             IF FirstClear > f - 1 THEN 0 ELSE (f - 1) - FirstClear + 1
      BY <1>1, <2>1, FS_Interval
    <3>2. IsFiniteSet(FirstClear .. f - 1)
      BY <1>1, <2>1, FS_Interval
    <3> QED BY <1>1, <2>1, <3>1, <3>2
  <2>4. Cardinality(Below) <= f - FirstClear /\ Cardinality(Below) \in Nat
    <3>1. IsFiniteSet(Below) /\ Cardinality(Below) <= Cardinality(FirstClear .. f - 1)
      <4> HIDE DEF Below
      <4> QED BY <2>2, <2>3, FS_Subset, Zenon
    <3>2. Cardinality(Below) \in Nat
      BY <3>1, FS_CardinalityType, Zenon
    <3> HIDE DEF Below
    <3> QED BY <2>3, <3>1, <3>2
  <2> HIDE DEF Below
  <2>5. Cardinality(Below) <= n
    BY <2>1, <2>4, <1>1, <1>2
  <2> QED BY <2>5 DEF LowestClear, Below
<1>3. Clear \cap (FirstClear .. FirstClear + n - 1) \subseteq LowestClear(n)
  BY <1>1, <1>2
<1>4. FirstClear \in LowestClear(n)
  BY <1>1, <1>2
<1> QED BY <1>3, <1>4 DEF LowestClear

\* A call moves frames between three sets: the clear bits, the heap's frames
\* and the callers' frames.
LEMMA OwnersAndClearBits ==
  ASSUME IInv
  PROVE  /\ Clear \subseteq Nat \ {0}
         /\ Clear \cap (heap \cup held) = {}
         /\ heap \cup held \subseteq 0 .. nbits - 1
         /\ 0 \notin heap \cup held
  BY DEF IInv, TypeOK, OwnedAreMarked, BitmapSurvives, ZeroUnusable, Clear

\* No operation lets go of what the invariant says.
LEMMA NextPreservesIInv == IInv /\ [Next]_vars => IInv'
<1> SUFFICES ASSUME IInv, [Next]_vars PROVE IInv'
  OBVIOUS
<1> USE OwnersAndClearBits
<1>t. TypeOK
  BY DEF IInv
<1>1. CASE pmm_init
  <2>1. PICK m \in MemMaps : BuildBitmap(m) \/ BitmapNull(m)
    BY <1>1 DEF pmm_init
  <2>2. phase = "off" /\ UNCHANGED <<heap, window, held, ret>>
    BY <1>1 DEF pmm_init
  <2>3. CASE BuildBitmap(m)
    BY <2>2, <2>3, BuildPreservesIInv
  <2>4. CASE BitmapNull(m)
    <3>1. /\ phase' = "nobitmap"
          /\ UNCHANGED <<entries, nbits, storage, marked, stray, heap, window, held, ret>>
      BY <2>2, <2>4 DEF BitmapNull
    <3>2. Clear' = Clear
      BY <3>1 DEF Clear
    <3> QED BY <2>2, <3>1, <3>2
            DEF IInv, TypeOK, OwnedAreMarked, BitmapSurvives, NothingLeaks,
                WindowIsPrivate, NotYetBuilt, NotYetUsed, ZeroUnusable
  <2> QED BY <2>1, <2>3, <2>4
<1>2. CASE pmm_alloc_heap_base
  <2>1. /\ phase' = "ready" /\ heap' = LowestClear(NHeapPages)
        /\ marked' = marked \cup heap'
        /\ window' = ret' .. ret' + NHeapPages - 1
        /\ UNCHANGED <<entries, nbits, storage, stray, held>>
        /\ ret' = IF Clear = {} THEN 0 ELSE FirstClear
    BY <1>2 DEF pmm_alloc_heap_base
  <2>2. heap = {} /\ held = {}
    BY <1>2 DEF pmm_alloc_heap_base, IInv, NotYetUsed
  <2>3. heap' \subseteq Clear /\ ret' \in Nat
    BY <2>1, <1>t, FirstClearProperties DEF LowestClear
  <2>4. Clear' = Clear \ heap'
    BY <2>1 DEF Clear
  <2>5. window' \cap Clear' = {}
    <3>1. CASE Clear = {}
      BY <3>1, <2>4
    <3>2. CASE Clear # {}
      <4>1. Clear \cap (FirstClear .. FirstClear + NHeapPages - 1) \subseteq LowestClear(NHeapPages)
        BY <3>2, <1>t, LowestClearCovers, HeapAssumption
      <4>2. window' = FirstClear .. FirstClear + NHeapPages - 1
        BY <2>1, <3>2
      <4> QED BY <4>1, <4>2, <2>1, <2>4
    <3> QED BY <3>1, <3>2
  <2>6. TypeOK'
    <3>1. heap' \subseteq 0 .. nbits - 1
      BY <2>3 DEF Clear
    <3>2. window' \subseteq Nat
      <4>1. \A a, n \in Nat : a .. a + n - 1 \subseteq Nat
        OBVIOUS
      <4> QED BY <4>1, <2>1, <2>3, HeapAssumption
    <3> QED BY <2>1, <2>3, <3>1, <3>2, <1>t DEF TypeOK
  <2>7. OwnedAreMarked' /\ BitmapSurvives' /\ NothingLeaks' /\ WindowIsPrivate'
    BY <2>1, <2>2, <2>3, <2>4, <2>5
       DEF IInv, OwnedAreMarked, BitmapSurvives, NothingLeaks, WindowIsPrivate
  <2> QED BY <2>1, <2>6, <2>7, <1>2
          DEF IInv, NotYetBuilt, NotYetUsed, ZeroUnusable, pmm_alloc_heap_base
<1>3. CASE pmm_alloc_frame
  <2>1. /\ phase = "ready" /\ UNCHANGED <<phase, entries, nbits, storage, stray, heap, window>>
        /\ marked' = marked \cup {ret'} /\ held' = held \cup {ret'}
        /\ ret' \in Clear
    BY <1>3, <1>t, FirstClearProperties DEF pmm_alloc_frame, boot
  <2>2. Clear' = Clear \ {ret'}
    BY <2>1 DEF Clear
  <2>3. TypeOK'
    BY <2>1, <1>t DEF TypeOK, Clear
  <2>4. OwnedAreMarked' /\ BitmapSurvives' /\ NothingLeaks' /\ WindowIsPrivate'
    BY <2>1, <2>2
       DEF IInv, OwnedAreMarked, BitmapSurvives, NothingLeaks, WindowIsPrivate
  <2> QED BY <2>1, <2>3, <2>4 DEF IInv, NotYetBuilt, NotYetUsed, ZeroUnusable
<1>4. CASE pmm_alloc_frame_fails
  <2>1. /\ UNCHANGED <<phase, entries, nbits, storage, stray, heap, window, marked, held>>
        /\ ret' = 0
    BY <1>4 DEF pmm_alloc_frame_fails, boot
  <2>2. Clear' = Clear
    BY <2>1 DEF Clear
  <2> QED BY <2>1, <2>2
          DEF IInv, TypeOK, OwnedAreMarked, BitmapSurvives, NothingLeaks,
              WindowIsPrivate, NotYetBuilt, NotYetUsed, ZeroUnusable
<1>5. ASSUME NEW f \in held, pmm_free_frame(f) PROVE IInv'
  <2>1. /\ phase = "ready" /\ UNCHANGED <<phase, entries, nbits, storage, stray, heap, window, ret>>
        /\ marked' = marked \ {f} /\ held' = held \ {f}
    BY <1>5 DEF pmm_free_frame, boot
  <2>2. Clear' = Clear \cup {f}
    BY <2>1 DEF Clear
  <2>3. f \notin heap
    BY <1>5 DEF IInv, OwnedAreMarked
  <2>4. TypeOK'
    BY <2>1, <1>t DEF TypeOK
  <2>5. OwnedAreMarked' /\ BitmapSurvives' /\ NothingLeaks' /\ WindowIsPrivate'
    BY <2>1, <2>2, <2>3, <1>5
       DEF IInv, OwnedAreMarked, BitmapSurvives, NothingLeaks, WindowIsPrivate
  <2> QED BY <2>1, <2>4, <2>5 DEF IInv, NotYetBuilt, NotYetUsed, ZeroUnusable
<1>6. CASE UNCHANGED vars
  <2>1. Clear' = Clear
    BY <1>6 DEF vars, Clear
  <2> QED BY <1>6, <2>1
          DEF vars, IInv, TypeOK, OwnedAreMarked, BitmapSurvives, NothingLeaks,
              WindowIsPrivate, NotYetBuilt, NotYetUsed, ZeroUnusable
<1> QED BY <1>1, <1>2, <1>3, <1>4, <1>5, <1>6 DEF Next

LEMMA InvariantHolds == Spec => []IInv
  BY InitEstablishesIInv, NextPreservesIInv, PTL DEF Spec

\* The variables keep their types, for every map and heap size.
THEOREM TypeCorrect == Spec => []TypeOK
  BY InvariantHolds, PTL DEF IInv

\* An owned frame is never offered again.
THEOREM OwnedStayMarked == Spec => []OwnedAreMarked
  BY InvariantHolds, PTL DEF IInv

\* Zeroing a returned frame never wipes the bitmap or reserved memory.
THEOREM BitmapIsSafe == Spec => []BitmapSurvives
  BY InvariantHolds, PTL DEF IInv

\* Usable memory is conserved, up to fewer than BitsPerByte frames.
THEOREM MemoryIsConserved == Spec => []NothingLeaks
  BY InvariantHolds, PTL DEF IInv

\* No frame under the remapped heap addresses is ever somebody else's.
THEOREM WindowStaysPrivate == Spec => []WindowIsPrivate
  BY InvariantHolds, PTL DEF IInv

\* Every answer is a frame nobody owned, or 0 when no bit was clear.
THEOREM AnswersAreFresh == Spec => FreshOrExhausted
<1> DEFINE Fresh == ret' # ret \/ held' # held =>
                      \/ ret' # 0 /\ ret' \in Clear \ (heap \cup held)
                      \/ ret' = 0 /\ Clear = {} /\ held' = held
                      \/ \E f \in held : held' = held \ {f}
<1>1. IInv /\ [Next]_vars => [Fresh]_vars
  <2> SUFFICES ASSUME IInv, Next PROVE Fresh
    BY DEF vars
  <2>0. TypeOK
    BY DEF IInv
  <2>1. CASE pmm_init
    BY <2>1 DEF pmm_init
  <2>2. CASE pmm_alloc_heap_base
    BY <2>2, <2>0, OwnersAndClearBits, FirstClearProperties DEF pmm_alloc_heap_base
  <2>3. CASE pmm_alloc_frame
    BY <2>3, <2>0, OwnersAndClearBits, FirstClearProperties DEF pmm_alloc_frame
  <2>4. CASE pmm_alloc_frame_fails
    BY <2>4 DEF pmm_alloc_frame_fails
  <2>5. ASSUME NEW f \in held, pmm_free_frame(f) PROVE Fresh
    BY <2>5 DEF pmm_free_frame
  <2> QED BY <2>1, <2>2, <2>3, <2>4, <2>5 DEF Next
<1> QED BY <1>1, InvariantHolds, PTL DEF Spec, FreshOrExhausted

\* The bitmap and its linear scan implement the allocator that keeps a set of
\* available and a set of held frames: pmm_init donates, the heap's frames are
\* one grant, and only an empty set refuses.
THEOREM PmmImplementsAllocator == Spec => ImplementsAllocator
<1>1. Init => Abstract!Init
  BY DEF Init, Abstract!Init, Clear
<1>2. IInv /\ [Next]_vars => [Abstract!Next]_(Abstract!vars)
  <2> SUFFICES ASSUME IInv, [Next]_vars
               PROVE  Abstract!Next \/ UNCHANGED Abstract!vars
    OBVIOUS
  <2> USE OwnersAndClearBits
  <2>0. TypeOK
    BY DEF IInv
  <2>1. CASE pmm_init
    <3>1. /\ phase = "off" /\ heap = {} /\ held = {}
          /\ UNCHANGED <<heap, held, ret>>
      BY <2>1 DEF pmm_init, IInv, NotYetUsed
    <3>2. Clear = {}
      BY <3>1, <2>0 DEF Clear, IInv, NotYetBuilt
    <3>3. IInv'
      BY NextPreservesIInv
    <3>4. Clear' \subseteq Nat \ {0}
      <4>1. Clear' \subseteq UsableFrames(entries)' /\ 0 \notin UsableFrames(entries)'
        BY <3>3 DEF IInv, BitmapSurvives, ZeroUnusable
      <4>2. Clear' \subseteq 0 .. nbits' - 1
        BY DEF Clear
      <4> QED BY <4>1, <4>2
    <3>5. Abstract!Donate
      BY <3>1, <3>2, <3>4 DEF Abstract!Donate
    <3> QED BY <3>5 DEF Abstract!Next
  <2>2. CASE pmm_alloc_heap_base
    <3>1. heap = {} /\ held = {} /\ held' = held
      BY <2>2 DEF pmm_alloc_heap_base, IInv, NotYetUsed
    <3>2. Clear' = Clear \ heap' /\ heap' = LowestClear(NHeapPages)
      BY <2>2 DEF pmm_alloc_heap_base, Clear
    <3>3. CASE Clear = {}
      <4>1. heap' = {} /\ ret' = 0
        BY <2>2, <3>3 DEF pmm_alloc_heap_base, LowestClear
      <4>2. Abstract!Refuse
        BY <3>1, <3>2, <3>3, <4>1 DEF Abstract!Refuse
      <4> QED BY <4>2 DEF Abstract!Next
    <3>4. CASE Clear # {}
      <4>1. ret' = FirstClear /\ heap' \in SUBSET Clear /\ ret' \in heap'
        BY <2>2, <2>0, <3>2, <3>4, LowestClearCovers, HeapAssumption
           DEF pmm_alloc_heap_base
      <4>2. Abstract!Grant(heap', ret')
        BY <3>1, <3>2, <4>1 DEF Abstract!Grant
      <4> QED BY <4>1, <4>2 DEF Abstract!Next
    <3> QED BY <3>3, <3>4
  <2>3. CASE pmm_alloc_frame
    <3>1. /\ ret' \in Clear /\ heap' = heap /\ held' = held \cup {ret'}
          /\ Clear' = Clear \ {ret'}
      BY <2>3, <2>0, FirstClearProperties DEF pmm_alloc_frame, boot, Clear
    <3>2. Abstract!Grant({ret'}, ret')
      BY <3>1 DEF Abstract!Grant
    <3>3. {ret'} \in SUBSET Clear /\ ret' \in {ret'}
      BY <3>1
    <3> QED BY <3>2, <3>3 DEF Abstract!Next
  <2>4. CASE pmm_alloc_frame_fails
    <3>1. Abstract!Refuse
      BY <2>4 DEF pmm_alloc_frame_fails, boot, Clear, Abstract!Refuse
    <3> QED BY <3>1 DEF Abstract!Next
  <2>5. ASSUME NEW f \in held, pmm_free_frame(f) PROVE Abstract!Next
    <3>1. f \notin heap /\ f \in 0 .. nbits - 1
      BY <2>5 DEF IInv, OwnedAreMarked
    <3>2. /\ heap' = heap /\ ret' = ret /\ held' = held \ {f}
          /\ Clear' = Clear \cup {f}
      BY <2>5, <3>1 DEF pmm_free_frame, boot, Clear
    <3>3. Abstract!Release(f)
      BY <3>1, <3>2, <2>5 DEF Abstract!Release
    <3> QED BY <3>3, <2>5 DEF Abstract!Next
  <2>6. CASE UNCHANGED vars
    BY <2>6 DEF vars, Clear, Abstract!vars
  <2> QED BY <2>1, <2>2, <2>3, <2>4, <2>5, <2>6 DEF Next
<1> QED BY <1>1, <1>2, InvariantHolds, PTL DEF Spec, ImplementsAllocator, Abstract!Spec
=============================================================================
