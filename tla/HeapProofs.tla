-------------------------------- MODULE HeapProofs ---------------------------
(***************************************************************************)
(* Every cell of a swept page is an object or in the one list from which   *)
(* such objects are made (MajorHeap), for any number of segments, pages,   *)
(* handles and sweepers.  Vectors have the blocks they have got and contain*)
(* what was pushed to them (Blocks), for blocks and chunks of any length.  *)
(* What is on a stack is scanned by somebody (StackScan), for any number of*)
(* processors, stacks and objects, as long as the phase does not change    *)
(* during a scavenge.                                                      *)
(***************************************************************************)
EXTENDS MajorHeap, Integers, FiniteSetTheorems, SequenceTheorems, NaturalsInduction,
        WellFoundedInduction, TLAPS

CONSTANTS
  Vecs, Elems, BlockLen, ChunkBlocks, MaxChunks,  \* Blocks
  Runners, Stacks, Refs, Overlap  \* StackScan

VARIABLES
  blockChunks, nextBlock, blocksCount, freeList, vec, usedList, bumped, content,
  global, local, running, holder, onStack, dirtyOf, stackColor, found, gray, field,
  fieldScanned, state, slice, todoStacks

B == INSTANCE Blocks
Scan == INSTANCE StackScan

CellSizes == {CellSize(size) : size \in Sizes}
Cell == Page \X Nat

SegmentType ==
  [page : [Page -> CellSizes \cup {FreePage}], end : 0 .. PagesPerSegment,
   sweep : 0 .. PagesPerSegment, alive : BOOLEAN, freePages : Seq(Page),
   free : [Bins -> Seq(Cell)]]

(* The pages that are settled, and the cells that have to be somewhere.    *)
Done(g) == {p \in Page : g.sweep <= p /\ p < g.end}
CellsOf(g) == {c \in Cell : c[1] \in Done(g) /\ c[2] \in Offsets(g.page[c[1]])}
Room(cell, b) == \A size \in Sizes : Bin(size) = b => size + Header <= cell

(* A segment with objects in the cells occ.                                *)
PagesGood(g) ==
  /\ IsInjective(g.freePages)
  /\ ToSet(g.freePages) = {p \in Done(g) : g.page[p] = FreePage}

ListsGood(g, occ) ==
  /\ \A b \in Bins : IsInjective(g.free[b])
  /\ \A b, c \in Bins : b # c => ToSet(g.free[b]) \cap ToSet(g.free[c]) = {}
  /\ \A b \in Bins : \A c \in ToSet(g.free[b]) :
       c \in CellsOf(g) /\ c \notin occ /\ Room(g.page[c[1]], b)
  /\ \A c \in CellsOf(g) : c \notin occ => \E b \in Bins : c \in ToSet(g.free[b])

Good(g, occ) ==
  /\ g \in SegmentType /\ g.sweep <= g.end
  /\ \A c \in occ : c \in Cell /\ c[1] < g.end /\ c[2] \in Offsets(g.page[c[1]])
  /\ PagesGood(g)
  /\ ListsGood(g, occ)

(* The cells of a segment that are objects.                                *)
ObjectsIn(objects, s) == {c \in Cell : <<s, c[1], c[2]>> \in objects}

ShapeInv == kind \in {"small", "medium", "large"} /\ DOMAIN place = DOMAIN segment

GoodInv == \A s \in DOMAIN segment : Good(segment[s], ObjectsIn(DOMAIN object, s))

ObjectInv ==
  \A a \in DOMAIN object :
    /\ a \in (DOMAIN segment) \X Page \X Nat
    /\ object[a] + Header <= segment[a[1]].page[a[2]]

(* Only a segment that is being swept has pages that are not settled, and  *)
(* it is not called alive before an object has been found.                 *)
SweepInv ==
  \A s \in DOMAIN segment :
    IF place[s] \in Sweepers \cup {"partial"}
    THEN ~segment[s].alive => \A c \in ObjectsIn(DOMAIN object, s) : c[1] < segment[s].sweep
    ELSE segment[s].sweep = 0

CountInv ==
  /\ IsFiniteSet(DOMAIN segment) /\ total = Cardinality(DOMAIN segment)
  /\ IsFiniteSet(DOMAIN large) /\ totalWords = Cardinality(DOMAIN large)

MajorInv == ShapeInv /\ GoodInv /\ ObjectInv /\ SweepInv /\ CountInv

-----------------------------------------------------------------------------
(* The list made of a finite set has its members once.                     *)
LEMMA SetList ==
  ASSUME NEW S, IsFiniteSet(S)
  PROVE  /\ SetToSeq(S) \in Seq(S) /\ IsInjective(SetToSeq(S)) /\ ToSet(SetToSeq(S)) = S
<1> DEFINE n == Cardinality(S)
           F(f) == f \in [1 .. n -> S] /\ IsInjective(f)
           q == CHOOSE f \in [1 .. n -> S] : IsInjective(f)
<1>1. n \in Nat /\ ExistsBijection(1 .. n, S)
  BY FS_CardinalityType
<1>2. \E f \in [1 .. n -> S] : IsInjective(f)
  BY <1>1 DEF ExistsBijection, Bijection, Injection
<1>3. q \in [1 .. n -> S] /\ IsInjective(q)
  BY <1>2
<1> HIDE DEF q
<1>4. IsFiniteSet(1 .. n) /\ Cardinality(1 .. n) = n
  <2>1. 1 \in Int /\ n \in Int /\ (1 > n => n = 0) /\ n - 1 + 1 = n
    BY <1>1
  <2> HIDE DEF n
  <2> QED BY <2>1, FS_Interval
<1>5. q \in Injection(1 .. n, S)
  BY <1>3 DEF Injection
<1>6. q \in Surjection(1 .. n, S)
  BY <1>4, <1>5, FS_Injection
<1>7. q \in Seq(S) /\ DOMAIN q = 1 .. n
  BY <1>1, <1>3
<1>8. \A x \in S : \E i \in 1 .. n : q[i] = x
  BY <1>6 DEF Surjection
<1>9. ToSet(q) = S
  BY <1>3, <1>7, <1>8 DEF ToSet
<1>10. SetToSeq(S) = q
  BY DEF SetToSeq, q
<1> QED BY <1>3, <1>7, <1>9, <1>10

(* A list without its first member.                                        *)
LEMMA TailList ==
  ASSUME NEW S, NEW q \in Seq(S), q # <<>>, IsInjective(q)
  PROVE  /\ Tail(q) \in Seq(S) /\ IsInjective(Tail(q))
         /\ Head(q) \in ToSet(q) /\ ToSet(Tail(q)) = ToSet(q) \ {Head(q)}
<1>1. Len(q) \in Nat /\ Len(q) > 0 /\ DOMAIN q = 1 .. Len(q) /\ Head(q) = q[1]
  OBVIOUS
<1>2. /\ Tail(q) \in Seq(S) /\ DOMAIN Tail(q) = 1 .. Len(q) - 1
      /\ \A i \in 1 .. Len(q) - 1 : Tail(q)[i] = q[i + 1]
  BY <1>1
<1>3. IsInjective(Tail(q))
  BY <1>1, <1>2 DEF IsInjective
<1>4. \A x \in ToSet(q) \ {Head(q)} : x \in ToSet(Tail(q))
  <2> SUFFICES ASSUME NEW i \in 1 .. Len(q), i # 1
               PROVE  q[i] \in ToSet(Tail(q))
    BY <1>1 DEF ToSet
  <2>1. i - 1 \in 1 .. Len(q) - 1 /\ (i - 1) + 1 = i
    BY <1>1
  <2> QED BY <1>2, <2>1 DEF ToSet
<1>5. \A x \in ToSet(Tail(q)) : x \in ToSet(q) \ {Head(q)}
  <2> SUFFICES ASSUME NEW i \in 1 .. Len(q) - 1
               PROVE  q[i + 1] \in ToSet(q) \ {q[1]}
    BY <1>1, <1>2 DEF ToSet
  <2>1. i + 1 \in DOMAIN q /\ 1 \in DOMAIN q /\ i + 1 # 1
    BY <1>1
  <2> QED BY <2>1 DEF ToSet, IsInjective
<1>6. ToSet(Tail(q)) = ToSet(q) \ {Head(q)}
  BY <1>4, <1>5
<1>7. Head(q) \in ToSet(q)
  BY <1>1 DEF ToSet
<1> QED BY <1>2, <1>3, <1>6, <1>7

(* Two lists one after the other.                                          *)
LEMMA JoinList ==
  ASSUME NEW S, NEW q \in Seq(S), NEW r \in Seq(S), IsInjective(q), IsInjective(r),
         ToSet(q) \cap ToSet(r) = {}
  PROVE  q \o r \in Seq(S) /\ IsInjective(q \o r) /\ ToSet(q \o r) = ToSet(q) \cup ToSet(r)
<1>1. /\ Len(q) \in Nat /\ Len(r) \in Nat /\ DOMAIN q = 1 .. Len(q) /\ DOMAIN r = 1 .. Len(r)
  OBVIOUS
<1>2. /\ q \o r \in Seq(S) /\ DOMAIN (q \o r) = 1 .. Len(q) + Len(r)
      /\ \A i \in 1 .. Len(q) + Len(r) :
           (q \o r)[i] = IF i <= Len(q) THEN q[i] ELSE r[i - Len(q)]
  BY <1>1
<1>3. \A i \in 1 .. Len(q) : (q \o r)[i] = q[i] /\ i \in 1 .. Len(q) + Len(r)
  BY <1>1, <1>2
<1>4. \A i \in 1 .. Len(r) : (q \o r)[i + Len(q)] = r[i] /\ i + Len(q) \in 1 .. Len(q) + Len(r)
  BY <1>1, <1>2
<1>5. \A i \in 1 .. Len(q) + Len(r) :
        i \in 1 .. Len(q) \/ (i - Len(q) \in 1 .. Len(r) /\ (i - Len(q)) + Len(q) = i)
  BY <1>1
<1>6. ToSet(q \o r) = ToSet(q) \cup ToSet(r)
  <2>1. \A x \in ToSet(q \o r) : x \in ToSet(q) \cup ToSet(r)
    BY <1>1, <1>2, <1>3, <1>4, <1>5 DEF ToSet
  <2>2. \A x \in ToSet(q) : x \in ToSet(q \o r)
    BY <1>1, <1>2, <1>3 DEF ToSet
  <2>3. \A x \in ToSet(r) : x \in ToSet(q \o r)
    <3> SUFFICES ASSUME NEW i \in 1 .. Len(r)
                 PROVE  r[i] \in ToSet(q \o r)
      BY <1>1 DEF ToSet
    <3> QED BY <1>2, <1>4 DEF ToSet
  <2> QED BY <2>1, <2>2, <2>3
<1>7. IsInjective(q \o r)
  <2> SUFFICES ASSUME NEW i \in 1 .. Len(q) + Len(r), NEW j \in 1 .. Len(q) + Len(r),
                      (q \o r)[i] = (q \o r)[j]
               PROVE  i = j
    BY <1>2 DEF IsInjective
  <2>1. CASE i \in 1 .. Len(q) /\ j \in 1 .. Len(q)
    BY <1>1, <1>3, <2>1 DEF IsInjective
  <2>2. CASE i \notin 1 .. Len(q) /\ j \notin 1 .. Len(q)
    <3>1. r[i - Len(q)] = r[j - Len(q)] /\ i - Len(q) \in DOMAIN r /\ j - Len(q) \in DOMAIN r
      BY <1>1, <1>4, <1>5, <2>2
    <3>2. i - Len(q) = j - Len(q)
      BY <3>1 DEF IsInjective
    <3> QED BY <1>1, <3>2
  <2>3. CASE i \in 1 .. Len(q) /\ j \notin 1 .. Len(q)
    <3>1. q[i] = r[j - Len(q)] /\ i \in DOMAIN q /\ j - Len(q) \in DOMAIN r
      BY <1>1, <1>3, <1>4, <1>5, <2>3
    <3> QED BY <3>1 DEF ToSet
  <2>4. CASE i \notin 1 .. Len(q) /\ j \in 1 .. Len(q)
    <3>1. q[j] = r[i - Len(q)] /\ j \in DOMAIN q /\ i - Len(q) \in DOMAIN r
      BY <1>1, <1>3, <1>4, <1>5, <2>4
    <3> QED BY <3>1 DEF ToSet
  <2> QED BY <2>1, <2>2, <2>3, <2>4
<1> QED BY <1>2, <1>6, <1>7

(* One more member in front.                                               *)
LEMMA ConsList ==
  ASSUME NEW S, NEW q \in Seq(S), NEW x \in S, IsInjective(q), x \notin ToSet(q)
  PROVE  <<x>> \o q \in Seq(S) /\ IsInjective(<<x>> \o q) /\ ToSet(<<x>> \o q) = ToSet(q) \cup {x}
<1> DEFINE o == <<x>>
<1>1. o \in Seq(S) /\ IsInjective(o) /\ ToSet(o) = {x}
  BY DEF IsInjective, ToSet
<1>2. ToSet(o) \cap ToSet(q) = {}
  BY <1>1
<1> HIDE DEF o
<1>3. o \o q \in Seq(S) /\ IsInjective(o \o q) /\ ToSet(o \o q) = ToSet(o) \cup ToSet(q)
  BY <1>1, <1>2, JoinList
<1> QED BY <1>1, <1>3 DEF o

-----------------------------------------------------------------------------
(* A size is served from the bin the sweeper finds for its cells, and they *)
(* hold all objects of this bin.                                           *)
LEMMA SizeFacts ==
  ASSUME HeapValid, ShapeInv, NEW size \in Sizes
  PROVE  /\ CellSize(size) \in Nat /\ CellSize(size) # FreePage /\ CellSize(size) <= PageWords
         /\ Room(CellSize(size), Bin(size)) /\ SweepBin(CellSize(size)) = Bin(size)
         /\ Bin(size) \in Bins /\ CellSize(size) \in CellSizes
<1>1. Bin(size) \in Bins /\ CellSize(size) \in CellSizes
  BY DEF Bins, CellSizes
<1>2. CASE linear
  <2>1. size \in SmallSizes /\ Sizes = SmallSizes /\ PageWords = SmallPage
    BY <1>2 DEF Sizes, PageWords
  <2>2. SmallSizes \subseteq Nat \ {0} /\ size + 1 <= SmallPage
    BY <2>1 DEF HeapValid, Header
  <2>3. CellSize(size) = size + 1 /\ Bin(size) = size - 1
    BY <1>2 DEF CellSize, Bin, Header
  <2>4. SweepBin(CellSize(size)) = size - 1
    BY <1>2, <2>1, <2>2, <2>3 DEF SweepBin, Header
  <2>5. Room(CellSize(size), Bin(size))
    BY <1>2, <2>1, <2>2, <2>3 DEF Room, Bin, Header
  <2> QED BY <1>1, <2>1, <2>2, <2>3, <2>4, <2>5 DEF FreePage
<1>3. CASE ~linear
  <2>1. size \in MediumSizes /\ Sizes = MediumSizes /\ PageWords = MediumPage
    BY <1>3 DEF Sizes, PageWords
  <2>2. MediumCell(size) \in 1 .. MediumPage /\ MediumPage \in Nat
    BY <2>1 DEF HeapValid
  <2>3. CellSize(size) = MediumCell(size)
    BY <1>3 DEF CellSize
  <2>4. SweepBin(CellSize(size)) = Bin(size)
    BY <1>3, <2>1, <2>3 DEF SweepBin, Bin, HeapValid
  <2>5. Room(CellSize(size), Bin(size))
    BY <1>3, <2>1, <2>3 DEF Room, Bin, HeapValid
  <2> QED BY <1>1, <2>1, <2>2, <2>3, <2>4, <2>5 DEF FreePage
<1> QED BY <1>2, <1>3

(* A page has a first cell and finitely many.                              *)
LEMMA OffsetsFinite ==
  ASSUME HeapValid, ShapeInv, NEW cell \in CellSizes \cup {FreePage}
  PROVE  /\ IsFiniteSet(Offsets(cell)) /\ Offsets(cell) \subseteq Nat
         /\ cell # FreePage => 0 \in Offsets(cell)
         /\ Offsets(FreePage) = {}
<1>1. Offsets(FreePage) = {}
  BY DEF Offsets
<1>2. CASE cell = FreePage
  BY <1>1, <1>2, FS_EmptySet
<1>3. CASE cell # FreePage
  <2>1. PICK size \in Sizes : cell = CellSize(size)
    BY <1>3 DEF CellSizes
  <2>2. cell \in Nat /\ cell # 0 /\ cell <= PageWords
    BY <2>1, SizeFacts DEF FreePage
  <2>3. PageWords \in Nat
    BY DEF PageWords, HeapValid
  <2>4. PageWords - cell \in Nat
    BY <2>2, <2>3
  <2>5. IsFiniteSet(0 .. PageWords - cell)
    BY <2>4, FS_Interval
  <2>6. Offsets(cell) \subseteq 0 .. PageWords - cell
    BY <1>3 DEF Offsets
  <2>7. 0 % cell = 0
    BY <2>2
  <2>8. 0 \in Offsets(cell)
    BY <1>3, <2>4, <2>7 DEF Offsets
  <2>9. IsFiniteSet(Offsets(cell))
    BY <2>5, <2>6, FS_Subset
  <2> QED BY <1>1, <2>4, <2>6, <2>8, <2>9
<1> QED BY <1>2, <1>3

(* The list of cells of a page.                                            *)
LEMMA CellList ==
  ASSUME NEW p \in Page, NEW offsets \in SUBSET Nat, IsFiniteSet(offsets)
  PROVE  /\ Cells(p, offsets) \in Seq(Cell) /\ IsInjective(Cells(p, offsets))
         /\ ToSet(Cells(p, offsets)) = {p} \X offsets
<1>1. IsFiniteSet({p} \X offsets)
  BY FS_Singleton, FS_Product
<1>2. /\ SetToSeq({p} \X offsets) \in Seq({p} \X offsets)
      /\ IsInjective(SetToSeq({p} \X offsets))
      /\ ToSet(SetToSeq({p} \X offsets)) = {p} \X offsets
  BY <1>1, SetList
<1>3. {p} \X offsets \subseteq Cell
  BY DEF Cell
<1>4. SetToSeq({p} \X offsets) \in Seq(Cell)
  BY <1>2, <1>3
<1> QED BY <1>2, <1>4 DEF Cells

-----------------------------------------------------------------------------
(* What a segment is good for does not change as long as the kind is the   *)
(* same.                                                                   *)
LEMMA KindSame ==
  ASSUME kind' = kind
  PROVE  \A g, occ : Good(g, occ) => Good(g, occ)'
<1>1. linear' = linear /\ Sizes' = Sizes /\ PageWords' = PageWords
  BY DEF linear, Sizes, PageWords
<1>2. \A size : Bin(size)' = Bin(size) /\ CellSize(size)' = CellSize(size)
  BY <1>1 DEF Bin, CellSize
<1>3. Bins' = Bins /\ CellSizes' = CellSizes
  BY <1>1, <1>2 DEF Bins, CellSizes
<1>4. \A cell : Offsets(cell)' = Offsets(cell)
  BY <1>1 DEF Offsets
<1>5. \A cell, b : Room(cell, b) => Room(cell, b)'
  BY <1>1, <1>2 DEF Room
<1>6. \A g : CellsOf(g)' = CellsOf(g)
  BY <1>4 DEF CellsOf
<1>7. SegmentType' = SegmentType
  BY <1>3 DEF SegmentType
<1>8. \A g, occ : ListsGood(g, occ) => ListsGood(g, occ)'
  BY <1>3, <1>5, <1>6 DEF ListsGood
<1> QED BY <1>4, <1>7, <1>8 DEF Good

(* A cell is taken from its list: it was no object, and now it is one.     *)
LEMMA TakeCell ==
  ASSUME NEW g, NEW occ, Good(g, occ), NEW b \in Bins, g.free[b] # <<>>
  PROVE  LET c == Head(g.free[b])
         IN  /\ c \in CellsOf(g) /\ c \notin occ /\ Room(g.page[c[1]], b)
             /\ Good([g EXCEPT !.free[b] = Tail(@)], occ \cup {c})
<1> DEFINE c == Head(g.free[b])
           q == Tail(g.free[b])
           g2 == [g EXCEPT !.free[b] = Tail(@)]
<1>1. g \in SegmentType /\ g.sweep <= g.end /\ PagesGood(g) /\ ListsGood(g, occ)
  BY DEF Good
<1>2. g.free \in [Bins -> Seq(Cell)] /\ g.free[b] \in Seq(Cell) /\ IsInjective(g.free[b])
  BY <1>1 DEF SegmentType, ListsGood
<1>3. /\ q \in Seq(Cell) /\ IsInjective(q) /\ c \in ToSet(g.free[b])
      /\ ToSet(q) = ToSet(g.free[b]) \ {c}
  BY <1>2, TailList
<1>4. c \in CellsOf(g) /\ c \notin occ /\ Room(g.page[c[1]], b)
  BY <1>1, <1>3 DEF ListsGood
<1>5. /\ g2.page = g.page /\ g2.end = g.end /\ g2.sweep = g.sweep
      /\ g2.freePages = g.freePages /\ g2.free = [g.free EXCEPT ![b] = q]
  BY <1>1 DEF SegmentType
<1>6. g2 \in SegmentType
  BY <1>1, <1>2, <1>3 DEF SegmentType
<1> HIDE DEF g2, q, c
<1>7. Done(g2) = Done(g) /\ CellsOf(g2) = CellsOf(g)
  BY <1>5 DEF Done, CellsOf
<1>8. PagesGood(g2)
  BY <1>1, <1>5, <1>7 DEF PagesGood
<1>9. /\ g2.free[b] = q
      /\ \A d \in Bins : d # b => g2.free[d] = g.free[d]
  BY <1>2, <1>5
<1>10. \A d \in Bins : ToSet(g2.free[d]) = ToSet(g.free[d]) \ {c}
  BY <1>1, <1>3, <1>9 DEF ListsGood
<1>11. ListsGood(g2, occ \cup {c})
  <2>1. \A d \in Bins : IsInjective(g2.free[d])
    BY <1>1, <1>3, <1>9 DEF ListsGood
  <2>2. \A d, e \in Bins : d # e => ToSet(g2.free[d]) \cap ToSet(g2.free[e]) = {}
    BY <1>1, <1>10 DEF ListsGood
  <2>3. \A d \in Bins : \A x \in ToSet(g2.free[d]) :
          x \in CellsOf(g2) /\ x \notin occ \cup {c} /\ Room(g2.page[x[1]], d)
    BY <1>1, <1>5, <1>7, <1>10 DEF ListsGood
  <2>4. \A x \in CellsOf(g2) : x \notin occ \cup {c} => \E d \in Bins : x \in ToSet(g2.free[d])
    BY <1>1, <1>7, <1>10 DEF ListsGood
  <2> QED BY <2>1, <2>2, <2>3, <2>4 DEF ListsGood
<1>12. \A x \in occ \cup {c} : x \in Cell /\ x[1] < g2.end /\ x[2] \in Offsets(g2.page[x[1]])
  BY <1>4, <1>5 DEF Good, CellsOf, Done
<1>13. Good(g2, occ \cup {c})
  BY <1>1, <1>5, <1>6, <1>8, <1>11, <1>12 DEF Good
<1> QED BY <1>4, <1>13 DEF g2, c

(* A page is added to the lists: one that was swept and not cut into cells *)
(* before.  Its cells are no objects.                                      *)
Adds(g, h, occ, b, p, offsets) ==
  /\ b \in Bins /\ p \in Page /\ offsets \in SUBSET Nat /\ IsFiniteSet(offsets)
  /\ h.free = [g.free EXCEPT ![b] = Cells(p, offsets) \o @]
  /\ CellsOf(h) = CellsOf(g) \cup ({p} \X Offsets(h.page[p]))
  /\ \A c \in CellsOf(g) : c[1] # p /\ h.page[c[1]] = g.page[c[1]]
  /\ Room(h.page[p], b)
  /\ \A o \in Offsets(h.page[p]) : o \in offsets <=> <<p, o>> \notin occ
  /\ offsets \subseteq Offsets(h.page[p])

(* So the lists stay good.                                                 *)
LEMMA AddCells ==
  ASSUME NEW g, NEW h, NEW occ, NEW b, NEW p, NEW offsets, Adds(g, h, occ, b, p, offsets),
         ListsGood(g, occ), g.free \in [Bins -> Seq(Cell)]
  PROVE  ListsGood(h, occ) /\ h.free \in [Bins -> Seq(Cell)]
<1> USE DEF Adds
<1> DEFINE new == Cells(p, offsets)
<1>1. new \in Seq(Cell) /\ IsInjective(new) /\ ToSet(new) = {p} \X offsets
  BY CellList
<1> HIDE DEF new
<1>2. /\ g.free[b] \in Seq(Cell) /\ IsInjective(g.free[b])
      /\ \A d \in Bins : \A x \in ToSet(g.free[d]) : x \in CellsOf(g) /\ x[1] # p
  BY DEF ListsGood
<1>3. ToSet(new) \cap ToSet(g.free[b]) = {}
  BY <1>1, <1>2
<1>4. /\ new \o g.free[b] \in Seq(Cell) /\ IsInjective(new \o g.free[b])
      /\ ToSet(new \o g.free[b]) = ToSet(new) \cup ToSet(g.free[b])
  BY <1>1, <1>2, <1>3, JoinList
<1>5. h.free[b] = new \o g.free[b] /\ \A d \in Bins : d # b => h.free[d] = g.free[d]
  BY DEF new
<1>6. h.free \in [Bins -> Seq(Cell)]
  BY <1>4 DEF new
<1>7. /\ ToSet(h.free[b]) = ToSet(g.free[b]) \cup ({p} \X offsets)
      /\ \A d \in Bins : d # b => ToSet(h.free[d]) = ToSet(g.free[d])
  BY <1>1, <1>4, <1>5
<1>8. \A d \in Bins : IsInjective(h.free[d])
  BY <1>4, <1>5 DEF ListsGood
<1>9. \A d, e \in Bins : d # e => ToSet(h.free[d]) \cap ToSet(h.free[e]) = {}
  <2>1. \A x \in {p} \X offsets : x[1] = p
    OBVIOUS
  <2>2. \A d \in Bins : ToSet(g.free[d]) \cap ({p} \X offsets) = {}
    BY <1>2, <2>1
  <2> QED BY <1>7, <2>2 DEF ListsGood
<1>10. \A x \in {p} \X offsets : x \in CellsOf(h) /\ x \notin occ /\ Room(h.page[x[1]], b)
  <2> SUFFICES ASSUME NEW x \in {p} \X offsets
               PROVE  x \in CellsOf(h) /\ x \notin occ /\ Room(h.page[x[1]], b)
    OBVIOUS
  <2>1. x[1] = p /\ x[2] \in offsets /\ x = <<p, x[2]>>
    OBVIOUS
  <2>2. <<p, x[2]>> \in {p} \X Offsets(h.page[p]) /\ <<p, x[2]>> \notin occ
    BY <2>1
  <2> QED BY <2>1, <2>2
<1>11. \A d \in Bins : \A x \in ToSet(g.free[d]) :
         x \in CellsOf(h) /\ x \notin occ /\ Room(h.page[x[1]], d)
  BY <1>2 DEF ListsGood
<1>12. \A d \in Bins : \A x \in ToSet(h.free[d]) :
         x \in CellsOf(h) /\ x \notin occ /\ Room(h.page[x[1]], d)
  BY <1>7, <1>10, <1>11
<1>13. \A x \in CellsOf(h) : x \notin occ => \E d \in Bins : x \in ToSet(h.free[d])
  <2>1. \A x \in CellsOf(g) : x \notin occ => \E d \in Bins : x \in ToSet(h.free[d])
    BY <1>7 DEF ListsGood
  <2>2. \A o \in Offsets(h.page[p]) : <<p, o>> \notin occ => <<p, o>> \in ToSet(h.free[b])
    BY <1>7
  <2>3. \A x \in {p} \X Offsets(h.page[p]) : x = <<p, x[2]>> /\ x[2] \in Offsets(h.page[p])
    OBVIOUS
  <2> QED BY <2>1, <2>2, <2>3
<1> QED BY <1>6, <1>8, <1>9, <1>12, <1>13 DEF ListsGood

(* A free page is cut into cells: the free cells are no objects, and there *)
(* is one for the size.                                                    *)
LEMMA MakePage ==
  ASSUME HeapValid, ShapeInv, NEW occ, NEW s \in DOMAIN segment, Good(segment[s], occ),
         segment[s].sweep = 0, HasPage(s), NEW size \in Sizes
  PROVE  /\ Good(WithPage(s, size), occ) /\ WithPage(s, size).free[Bin(size)] # <<>>
         /\ WithPage(s, size).sweep = 0
         /\ \A c \in occ : WithPage(s, size).page[c[1]] = segment[s].page[c[1]]
<1> DEFINE g == segment[s]
           cell == CellSize(size)
           b == Bin(size)
           p == IF g.freePages # <<>> THEN Head(g.freePages) ELSE g.end
           h == WithPage(s, size)
<1>1. g \in SegmentType /\ PagesGood(g) /\ ListsGood(g, occ) /\ PagesPerSegment \in Nat
  BY DEF Good, HeapValid
<1>2. /\ g.page \in [Page -> CellSizes \cup {FreePage}] /\ g.end \in 0 .. PagesPerSegment
      /\ g.freePages \in Seq(Page) /\ g.free \in [Bins -> Seq(Cell)] /\ IsInjective(g.freePages)
  BY <1>1 DEF SegmentType, PagesGood
<1>3. /\ b \in Bins /\ cell \in CellSizes /\ cell # FreePage /\ Room(cell, b)
  BY SizeFacts
<1>4. h = [g EXCEPT !.page[p] = cell,
                    !.freePages = IF @ # <<>> THEN Tail(@) ELSE @,
                    !.end = IF g.freePages # <<>> THEN @ ELSE @ + 1,
                    !.free[b] = Cells(p, Offsets(cell)) \o @]
  BY DEF WithPage
<1>5. /\ h.page = [g.page EXCEPT ![p] = cell] /\ h.sweep = 0
      /\ h.freePages = IF g.freePages # <<>> THEN Tail(g.freePages) ELSE g.freePages
      /\ h.end = IF g.freePages # <<>> THEN g.end ELSE g.end + 1
      /\ h.free = [g.free EXCEPT ![b] = Cells(p, Offsets(cell)) \o @]
  BY <1>1, <1>4 DEF SegmentType
<1>6. h = [page |-> h.page, end |-> h.end, sweep |-> h.sweep, alive |-> g.alive,
           freePages |-> h.freePages, free |-> h.free]
  BY <1>1, <1>4 DEF SegmentType
<1>7. /\ IsFiniteSet(Offsets(cell)) /\ Offsets(cell) \subseteq Nat /\ 0 \in Offsets(cell)
      /\ Offsets(FreePage) = {}
  BY <1>3, OffsetsFinite
<1> DEFINE PageFacts ==
             /\ p \in Page /\ PagesGood(h) /\ h.freePages \in Seq(Page) /\ h.end \in 0 .. PagesPerSegment
             /\ p \in Done(h)
             /\ \A x \in Done(h) : x = p \/ x \in Done(g)
             /\ \A x \in Done(g) : x \in Done(h)
           CellFacts ==
             /\ \A c \in CellsOf(g) : c[1] # p
             /\ \A c \in occ : c \in Cell /\ c[1] < h.end /\ c[1] # p
<1>8. ASSUME g.freePages # <<>>
      PROVE  PageFacts /\ CellFacts
  <2>1. /\ Tail(g.freePages) \in Seq(Page) /\ IsInjective(Tail(g.freePages))
        /\ p \in ToSet(g.freePages) /\ ToSet(Tail(g.freePages)) = ToSet(g.freePages) \ {p}
    BY <1>2, <1>8, TailList
  <2>2. p \in Done(g) /\ g.page[p] = FreePage /\ p \in Page
    BY <1>1, <2>1 DEF PagesGood, Done
  <2> HIDE DEF h
  <2>3. h.freePages = Tail(g.freePages) /\ h.end = g.end
    BY <1>5, <1>8
  <2>4. Done(h) = Done(g)
    BY <1>5, <2>3 DEF Done
  <2>5. ToSet(h.freePages) = {x \in Done(h) : h.page[x] = FreePage}
    <3>1. ToSet(g.freePages) = {x \in Done(g) : g.page[x] = FreePage}
      BY <1>1 DEF PagesGood
    <3>2. \A x \in Done(g) : h.page[x] = FreePage <=> g.page[x] = FreePage /\ x # p
      BY <1>2, <1>3, <1>5, <2>2 DEF Done
    <3> QED BY <2>1, <2>3, <2>4, <3>1, <3>2
  <2>6. PagesGood(h)
    BY <2>1, <2>3, <2>5 DEF PagesGood
  <2>7. \A c \in CellsOf(g) \cup occ : c[1] # p
    BY <1>7, <2>2 DEF CellsOf, Good
  <2>8. \A c \in occ : c \in Cell /\ c[1] < h.end
    BY <2>3 DEF Good
  <2>9. Page = 0 .. PagesPerSegment - 1 /\ h.end \in 0 .. PagesPerSegment
    BY <1>2, <2>3 DEF Page
  <2>10. /\ p \in Page /\ PagesGood(h) /\ h.freePages \in Seq(Page) /\ p \in Done(h)
         /\ \A x \in Done(h) : x = p \/ x \in Done(g)
         /\ \A x \in Done(g) : x \in Done(h)
    BY <2>1, <2>2, <2>3, <2>4, <2>6
  <2> QED BY <2>7, <2>8, <2>9, <2>10
<1>9. ASSUME g.freePages = <<>>
      PROVE  PageFacts /\ CellFacts
  <2>1. p = g.end /\ g.end < PagesPerSegment
    BY <1>9 DEF HasPage
  <2>2. p \in Page /\ p \notin Done(g)
    BY <1>1, <1>2, <2>1 DEF Page, Done
  <2> HIDE DEF h
  <2>3. h.freePages = <<>> /\ h.end = g.end + 1 /\ h.end \in 0 .. PagesPerSegment
    BY <1>1, <1>2, <1>5, <1>9, <2>1
  <2>4. \A x \in Page : x \in Done(h) <=> x \in Done(g) \/ x = p
    BY <1>2, <1>5, <2>1, <2>3 DEF Done, Page
  <2>5. ToSet(h.freePages) = {}
    BY <2>3 DEF ToSet
  <2>6. \A x \in Done(h) : h.page[x] # FreePage
    <3>1. \A x \in Done(g) : g.page[x] # FreePage /\ x # p
      BY <1>1, <1>9, <2>2, <2>3, <2>5 DEF PagesGood, Done
    <3>2. \A x \in Done(h) : x \in Page
      BY DEF Done
    <3> QED BY <1>2, <1>3, <1>5, <2>4, <3>1, <3>2
  <2>7. PagesGood(h)
    BY <1>2, <1>9, <2>3, <2>5, <2>6 DEF PagesGood
  <2>8. \A c \in CellsOf(g) : c[1] # p
    BY <2>2 DEF CellsOf
  <2>9. \A c \in occ : c \in Cell /\ c[1] < h.end /\ c[1] # p
    BY <1>2, <2>1, <2>3 DEF Good, Cell, Page
  <2>10. h.freePages \in Seq(Page)
    BY <2>3
  <2>11. /\ p \in Done(h)
         /\ \A x \in Done(h) : x = p \/ x \in Done(g)
         /\ \A x \in Done(g) : x \in Done(h)
    BY <2>2, <2>4 DEF Done
  <2> QED BY <2>2, <2>3, <2>7, <2>8, <2>9, <2>10, <2>11
<1> HIDE DEF h, p, cell, b
<1>10. /\ p \in Page /\ PagesGood(h) /\ h.freePages \in Seq(Page) /\ h.end \in 0 .. PagesPerSegment
       /\ p \in Done(h)
       /\ \A x \in Done(h) : x = p \/ x \in Done(g)
       /\ \A x \in Done(g) : x \in Done(h)
  BY <1>8, <1>9
<1>11. /\ \A c \in CellsOf(g) : c[1] # p
       /\ \A c \in occ : c \in Cell /\ c[1] < h.end /\ c[1] # p
  BY <1>8, <1>9
<1>12. h.page \in [Page -> CellSizes \cup {FreePage}] /\ h.page[p] = cell
  BY <1>2, <1>3, <1>5, <1>10
<1>13. \A x \in Page : x # p => h.page[x] = g.page[x]
  BY <1>2, <1>5
<1>14. CellsOf(h) = CellsOf(g) \cup ({p} \X Offsets(h.page[p]))
  <2>1. \A c \in CellsOf(h) : c \in CellsOf(g) \cup ({p} \X Offsets(h.page[p]))
    BY <1>10, <1>13 DEF CellsOf, Cell
  <2>2. \A c \in CellsOf(g) : c \in CellsOf(h)
    BY <1>10, <1>11, <1>13 DEF CellsOf, Cell
  <2>3. \A o \in Offsets(h.page[p]) : <<p, o>> \in CellsOf(h)
    BY <1>7, <1>10, <1>12 DEF CellsOf, Cell
  <2> QED BY <2>1, <2>2, <2>3
<1>15. /\ \A c \in CellsOf(g) : c[1] # p /\ h.page[c[1]] = g.page[c[1]]
       /\ \A o \in Offsets(h.page[p]) : o \in Offsets(cell) <=> <<p, o>> \notin occ
  BY <1>11, <1>12, <1>13 DEF CellsOf, Cell
<1>16. ListsGood(h, occ) /\ h.free \in [Bins -> Seq(Cell)]
  <2>1. Adds(g, h, occ, b, p, Offsets(cell))
    BY <1>3, <1>5, <1>7, <1>10, <1>12, <1>14, <1>15 DEF Adds
  <2> QED BY <1>1, <1>2, <2>1, AddCells
<1>17. h \in SegmentType
  <2>1. g.alive \in BOOLEAN /\ h.sweep \in 0 .. PagesPerSegment
    BY <1>1, <1>5 DEF SegmentType
  <2>2. [page |-> h.page, end |-> h.end, sweep |-> h.sweep, alive |-> g.alive,
         freePages |-> h.freePages, free |-> h.free] \in SegmentType
    BY <1>10, <1>12, <1>16, <2>1 DEF SegmentType
  <2> QED BY <1>6, <2>2
<1>18. \A c \in occ : h.page[c[1]] = g.page[c[1]] /\ c[2] \in Offsets(h.page[c[1]])
  BY <1>11, <1>13 DEF Good, Cell
<1>19. h.sweep <= h.end
  BY <1>5, <1>10, <1>1 DEF SegmentType
<1>20. Good(h, occ)
  BY <1>10, <1>11, <1>16, <1>17, <1>18, <1>19 DEF Good
<1>21. h.free[b] # <<>>
  <2>1. <<p, 0>> \in ToSet(Cells(p, Offsets(cell)))
    BY <1>7, <1>10, CellList
  <2>2. Cells(p, Offsets(cell)) \in Seq(Cell) /\ Cells(p, Offsets(cell)) # <<>>
    BY <1>7, <1>10, <2>1, CellList DEF ToSet
  <2>3. h.free[b] = Cells(p, Offsets(cell)) \o g.free[b] /\ g.free[b] \in Seq(Cell)
    BY <1>2, <1>3, <1>5
  <2> QED BY <2>2, <2>3
<1> QED BY <1>5, <1>18, <1>20, <1>21 DEF h, b

(* A segment that is about to be swept has no page that is settled.        *)
LEMMA ResetGood ==
  ASSUME NEW g, NEW occ, Good(g, occ)
  PROVE  Good(Reset(g), occ) /\ Reset(g).page = g.page /\ Reset(g).sweep = g.end /\ ~Reset(g).alive
<1> DEFINE h == Reset(g)
<1>1. g \in SegmentType
  BY DEF Good
<1>2. /\ h.page = g.page /\ h.end = g.end /\ h.sweep = g.end /\ h.freePages = <<>>
      /\ h.free = [b \in Bins |-> <<>>] /\ h.alive = FALSE
  BY <1>1 DEF Reset, SegmentType
<1>3. h \in SegmentType
  <2>1. [b \in Bins |-> <<>>] \in [Bins -> Seq(Cell)] /\ <<>> \in Seq(Page)
    OBVIOUS
  <2>2. g.sweep \in 0 .. PagesPerSegment /\ g.end \in 0 .. PagesPerSegment
    BY <1>1 DEF SegmentType
  <2> DEFINE none == [b \in Bins |-> <<>>]
  <2>3. Reset(g) = [g EXCEPT !.sweep = g.end, !.alive = FALSE, !.freePages = <<>>, !.free = none]
    BY DEF Reset
  <2> HIDE DEF none
  <2>4. none \in [Bins -> Seq(Cell)]
    BY <2>1 DEF none
  <2> QED BY <1>1, <2>1, <2>2, <2>3, <2>4 DEF SegmentType
<1> HIDE DEF h
<1>4. g.end \in Nat
  BY <1>1 DEF SegmentType
<1>5. Done(h) = {}
  BY <1>2, <1>4 DEF Done, Page
<1>6. CellsOf(h) = {}
  BY <1>5 DEF CellsOf
<1>7. PagesGood(h)
  BY <1>2, <1>5 DEF PagesGood, ToSet, IsInjective
<1>8. ListsGood(h, occ)
  BY <1>2, <1>6 DEF ListsGood, ToSet, IsInjective
<1>9. Good(h, occ)
  BY <1>2, <1>3, <1>4, <1>7, <1>8 DEF Good
<1> QED BY <1>2, <1>9 DEF h

(* The next page to be swept, from behind.                                 *)
LEMMA NextPage ==
  ASSUME HeapValid, NEW g, NEW occ, Good(g, occ), g.sweep > 0
  PROVE  /\ g.sweep - 1 \in Page /\ g.sweep - 1 \in 0 .. PagesPerSegment /\ g.sweep - 1 < g.end
         /\ g.sweep - 1 \notin Done(g)
         /\ \A x \in Page : g.sweep - 1 <= x <=> g.sweep <= x \/ x = g.sweep - 1
<1>1. /\ g.sweep \in 0 .. PagesPerSegment /\ g.end \in 0 .. PagesPerSegment /\ g.sweep <= g.end
      /\ PagesPerSegment \in Nat
  BY DEF Good, SegmentType, HeapValid
<1> QED BY <1>1 DEF Page, Done

(* A page without objects is free.                                         *)
LEMMA FreePageGood ==
  ASSUME HeapValid, ShapeInv, NEW g, NEW occ, NEW kept, Good(g, occ), g.sweep > 0, kept \subseteq occ,
         \A c \in occ : c[1] # g.sweep - 1 => c \in kept,
         \A c \in kept : c[1] # g.sweep - 1
  PROVE  Good([g EXCEPT !.sweep = g.sweep - 1, !.page[g.sweep - 1] = FreePage,
                        !.freePages = <<g.sweep - 1>> \o @], kept)
<1> DEFINE p == g.sweep - 1
           h == [g EXCEPT !.sweep = p, !.page[p] = FreePage, !.freePages = <<p>> \o @]
<1>1. g \in SegmentType /\ PagesGood(g) /\ ListsGood(g, occ)
  BY DEF Good
<1>2. /\ g.page \in [Page -> CellSizes \cup {FreePage}] /\ g.end \in 0 .. PagesPerSegment
      /\ g.freePages \in Seq(Page) /\ g.free \in [Bins -> Seq(Cell)] /\ g.alive \in BOOLEAN
      /\ IsInjective(g.freePages)
  BY <1>1 DEF SegmentType, PagesGood
<1>3. /\ p \in Page /\ p \in 0 .. PagesPerSegment /\ p < g.end /\ p \notin Done(g)
      /\ \A x \in Page : p <= x <=> g.sweep <= x \/ x = p
  BY NextPage
<1>4. /\ h.page = [g.page EXCEPT ![p] = FreePage] /\ h.sweep = p /\ h.end = g.end
      /\ h.freePages = <<p>> \o g.freePages /\ h.free = g.free
  BY <1>1 DEF SegmentType
<1> HIDE DEF p
<1> DEFINE cut == [g.page EXCEPT ![p] = FreePage]
           pages == <<p>> \o g.freePages
<1>5. h = [g EXCEPT !.sweep = p, !.page = cut, !.freePages = pages]
  BY <1>1 DEF SegmentType
<1> HIDE DEF h
<1>6. p \notin ToSet(g.freePages)
  BY <1>1, <1>3 DEF PagesGood
<1>7. /\ h.freePages \in Seq(Page) /\ IsInjective(h.freePages)
      /\ ToSet(h.freePages) = ToSet(g.freePages) \cup {p}
  BY <1>2, <1>3, <1>4, <1>6, ConsList
<1>8. h.page \in [Page -> CellSizes \cup {FreePage}]
  BY <1>2, <1>4
<1>9. h \in SegmentType
  <2>1. cut \in [Page -> CellSizes \cup {FreePage}] /\ pages \in Seq(Page)
    BY <1>4, <1>7, <1>8
  <2> HIDE DEF cut, pages
  <2> QED BY <1>1, <1>3, <1>5, <2>1 DEF SegmentType
<1> HIDE DEF cut, pages
<1>10. /\ \A x \in Page : x \in Done(h) <=> x \in Done(g) \/ x = p
       /\ h.page[p] = FreePage
       /\ \A x \in Page : x # p => h.page[x] = g.page[x]
  BY <1>2, <1>3, <1>4 DEF Done
<1>11. PagesGood(h)
  <2>1. ToSet(g.freePages) = {x \in Done(g) : g.page[x] = FreePage}
    BY <1>1 DEF PagesGood
  <2>2. \A x \in Done(h) \cup Done(g) : x \in Page
    BY DEF Done
  <2>3. \A x : x \in Done(h) /\ h.page[x] = FreePage <=> x \in ToSet(g.freePages) \cup {p}
    BY <1>3, <1>10, <2>1, <2>2
  <2> QED BY <1>7, <2>3 DEF PagesGood
<1>12. Offsets(FreePage) = {}
  BY OffsetsFinite
<1>13. /\ \A c \in CellsOf(g) : c[1] # p /\ h.page[c[1]] = g.page[c[1]]
       /\ \A c : c \in CellsOf(h) <=> c \in CellsOf(g)
  BY <1>3, <1>10, <1>12 DEF CellsOf, Cell
<1>14. ListsGood(h, kept)
  <2>1. \A b \in Bins : IsInjective(h.free[b])
    BY <1>1, <1>4 DEF ListsGood
  <2>2. \A b, c \in Bins : b # c => ToSet(h.free[b]) \cap ToSet(h.free[c]) = {}
    BY <1>1, <1>4 DEF ListsGood
  <2>3. \A b \in Bins : \A c \in ToSet(h.free[b]) :
          c \in CellsOf(h) /\ c \notin kept /\ Room(h.page[c[1]], b)
    BY <1>1, <1>4, <1>13 DEF ListsGood
  <2>4. \A c \in CellsOf(h) : c \notin kept => \E b \in Bins : c \in ToSet(h.free[b])
    <3>1. \A c \in CellsOf(h) : c \notin kept => c \in CellsOf(g) /\ c \notin occ
      BY <1>13 DEF p
    <3> QED BY <1>1, <1>4, <3>1 DEF ListsGood
  <2> QED BY <2>1, <2>2, <2>3, <2>4 DEF ListsGood
<1>15. \A c \in kept : c \in Cell /\ c[1] < h.end /\ c[2] \in Offsets(h.page[c[1]])
  BY <1>4, <1>10 DEF Good, Cell, p
<1>16. h.sweep <= h.end
  BY <1>2, <1>3, <1>4
<1> QED BY <1>9, <1>11, <1>14, <1>15, <1>16 DEF Good, h, p

(* The cells of a page that are not objects, or no longer, go to the list  *)
(* they came from.                                                         *)
LEMMA CellsFreed ==
  ASSUME HeapValid, ShapeInv, NEW g, NEW occ, NEW kept, Good(g, occ), g.sweep > 0, kept \subseteq occ,
         \A c \in occ : c[1] # g.sweep - 1 => c \in kept,
         g.page[g.sweep - 1] # FreePage,
         NEW unused,
         unused = {o \in Offsets(g.page[g.sweep - 1]) : <<g.sweep - 1, o>> \notin kept}
  PROVE  Good([g EXCEPT !.sweep = g.sweep - 1, !.alive = TRUE,
                        !.free[SweepBin(g.page[g.sweep - 1])] = Cells(g.sweep - 1, unused) \o @], kept)
<1> DEFINE p == g.sweep - 1
           b == SweepBin(g.page[p])
           h == [g EXCEPT !.sweep = p, !.alive = TRUE, !.free[b] = Cells(p, unused) \o @]
<1>1. g \in SegmentType /\ PagesGood(g) /\ ListsGood(g, occ)
  BY DEF Good
<1>2. /\ g.page \in [Page -> CellSizes \cup {FreePage}] /\ g.end \in 0 .. PagesPerSegment
      /\ g.freePages \in Seq(Page) /\ g.free \in [Bins -> Seq(Cell)] /\ IsInjective(g.freePages)
  BY <1>1 DEF SegmentType, PagesGood
<1>3. /\ p \in Page /\ p \in 0 .. PagesPerSegment /\ p < g.end /\ p \notin Done(g)
      /\ \A x \in Page : p <= x <=> g.sweep <= x \/ x = p
  BY NextPage
<1>4. PICK size \in Sizes : g.page[p] = CellSize(size)
  BY <1>2, <1>3 DEF CellSizes
<1>5. b \in Bins /\ Room(g.page[p], b) /\ g.page[p] \in CellSizes
  BY <1>4, SizeFacts
<1>6. IsFiniteSet(Offsets(g.page[p])) /\ Offsets(g.page[p]) \subseteq Nat
  BY <1>5, OffsetsFinite
<1>7. unused \subseteq Offsets(g.page[p])
  OBVIOUS
<1>8. IsFiniteSet(unused) /\ unused \in SUBSET Nat
  BY <1>6, <1>7, FS_Subset
<1>9. /\ h.page = g.page /\ h.sweep = p /\ h.end = g.end /\ h.freePages = g.freePages
      /\ h.free = [g.free EXCEPT ![b] = Cells(p, unused) \o @]
  BY <1>1 DEF SegmentType
<1> HIDE DEF p, b
<1> DEFINE lists == [g.free EXCEPT ![b] = Cells(p, unused) \o @]
<1>10. h = [g EXCEPT !.sweep = p, !.alive = TRUE, !.free = lists]
  BY <1>1 DEF SegmentType
<1> HIDE DEF h
<1>11. \A x \in Page : x \in Done(h) <=> x \in Done(g) \/ x = p
  BY <1>3, <1>9 DEF Done
<1>12. PagesGood(h)
  <2>1. ToSet(g.freePages) = {x \in Done(g) : g.page[x] = FreePage}
    BY <1>1 DEF PagesGood
  <2>2. \A x \in Done(h) \cup Done(g) : x \in Page
    BY DEF Done
  <2>3. \A x : x \in Done(h) /\ h.page[x] = FreePage <=> x \in ToSet(g.freePages)
    BY <1>3, <1>9, <1>11, <2>1, <2>2 DEF p
  <2> QED BY <1>2, <1>9, <2>3 DEF PagesGood
<1>13. /\ \A c \in CellsOf(g) : c[1] # p /\ h.page[c[1]] = g.page[c[1]]
       /\ CellsOf(h) = CellsOf(g) \cup ({p} \X Offsets(h.page[p]))
  <2>1. \A c \in CellsOf(g) : c[1] # p /\ c \in CellsOf(h)
    BY <1>3, <1>9, <1>11 DEF CellsOf, Cell
  <2>2. \A c \in CellsOf(h) : c \in CellsOf(g) \cup ({p} \X Offsets(h.page[p]))
    BY <1>9, <1>11 DEF CellsOf, Cell
  <2>3. \A o \in Offsets(h.page[p]) : <<p, o>> \in CellsOf(h)
    BY <1>3, <1>6, <1>9, <1>11 DEF CellsOf, Cell
  <2> QED BY <1>9, <2>1, <2>2, <2>3
<1>14. ListsGood(g, kept)
  <2>1. \A c \in CellsOf(g) : c \notin kept => c \notin occ
    BY <1>13 DEF p
  <2>2. \A d \in Bins : \A c \in ToSet(g.free[d]) : c \notin kept
    BY <1>1 DEF ListsGood
  <2> QED BY <1>1, <2>1, <2>2 DEF ListsGood
<1>15. \A o \in Offsets(h.page[p]) : o \in unused <=> <<p, o>> \notin kept
  BY <1>9 DEF p
<1>16. ListsGood(h, kept) /\ h.free \in [Bins -> Seq(Cell)]
  <2>1. Room(h.page[p], b) /\ unused \subseteq Offsets(h.page[p]) /\ p \in Page /\ b \in Bins
    BY <1>3, <1>5, <1>7, <1>9
  <2>2. g.free \in [Bins -> Seq(Cell)] /\ h.free = [g.free EXCEPT ![b] = Cells(p, unused) \o @]
    BY <1>2, <1>9
  <2>3. /\ CellsOf(h) = CellsOf(g) \cup ({p} \X Offsets(h.page[p]))
        /\ \A c \in CellsOf(g) : c[1] # p /\ h.page[c[1]] = g.page[c[1]]
    BY <1>13
  <2>4. Adds(g, h, kept, b, p, unused)
    BY <1>8, <1>15, <2>1, <2>2, <2>3 DEF Adds
  <2>5. ListsGood(h, kept)
    BY ONLY <1>14, <2>2, <2>4, AddCells
  <2>6. h.free \in [Bins -> Seq(Cell)]
    BY ONLY <1>14, <2>2, <2>4, AddCells
  <2> QED BY <2>5, <2>6
<1>17. h \in SegmentType
  <2>1. lists \in [Bins -> Seq(Cell)]
    BY <1>9, <1>16
  <2> HIDE DEF lists
  <2> QED BY <1>1, <1>3, <1>10, <2>1 DEF SegmentType
<1>18. \A c \in kept : c \in Cell /\ c[1] < h.end /\ c[2] \in Offsets(h.page[c[1]])
  BY <1>9 DEF Good
<1>19. h.sweep <= h.end
  BY <1>2, <1>3, <1>9
<1> QED BY <1>12, <1>16, <1>17, <1>18, <1>19 DEF Good, h, p, b

-----------------------------------------------------------------------------
(* The steps.                                                              *)

(* Who allocates from a segment does not sweep it.                         *)
LEMMA Apart ==
  ASSUME HeapValid
  PROVE  \A x \in Handles \cup {"free", "full", "unswept"} : x \notin Sweepers \cup {"partial"}
BY DEF HeapValid, Lists

(* A step changes one segment, and the objects in it.                      *)
LEMMA GoodFrame ==
  ASSUME GoodInv, kind' = kind, NEW t,
         \A s \in DOMAIN segment' : s # t => s \in DOMAIN segment /\ segment'[s] = segment[s],
         \A s, p, o : s # t => (<<s, p, o>> \in DOMAIN object' <=> <<s, p, o>> \in DOMAIN object),
         t \in DOMAIN segment' => Good(segment'[t], ObjectsIn(DOMAIN object', t))
  PROVE  GoodInv'
<1> SUFFICES ASSUME NEW s \in DOMAIN segment'
             PROVE  Good(segment[s], ObjectsIn(DOMAIN object, s))'
  BY DEF GoodInv
<1>1. Good(segment'[s], ObjectsIn(DOMAIN object', s))
  <2>1. CASE s = t
    BY <2>1
  <2>2. CASE s # t
    <3>1. ObjectsIn(DOMAIN object', s) = ObjectsIn(DOMAIN object, s)
      BY <2>2 DEF ObjectsIn
    <3> QED BY <2>2, <3>1 DEF GoodInv
  <2> QED BY <2>1, <2>2
<1> QED BY <1>1, KindSame

(* Or it changes none.                                                     *)
LEMMA SegmentsSame ==
  ASSUME MajorInv, UNCHANGED <<kind, segment, object>>
  PROVE  GoodInv' /\ ObjectInv'
<1>1. \A s \in DOMAIN segment' : s \in DOMAIN segment /\ segment'[s] = segment[s]
  OBVIOUS
<1>2. \A s, p, o : <<s, p, o>> \in DOMAIN object' <=> <<s, p, o>> \in DOMAIN object
  OBVIOUS
<1>3. \A s \in DOMAIN segment' : Good(segment'[s], ObjectsIn(DOMAIN object', s))
  <2>1. \A s \in DOMAIN segment : Good(segment[s], ObjectsIn(DOMAIN object, s))
    BY DEF MajorInv, GoodInv
  <2> QED BY <2>1
<1>4. GoodInv'
  BY <1>3, KindSame DEF GoodInv
<1> QED BY <1>4 DEF MajorInv, ObjectInv

(* A segment that changes hands while nobody sweeps it.                    *)
LEMMA HandsChange ==
  ASSUME HeapValid, MajorInv, UNCHANGED <<kind, segment, object, total, large, totalWords>>,
         DOMAIN place' = DOMAIN place,
         \A s \in DOMAIN place :
           IF place[s] \in Sweepers \cup {"partial"}
           THEN place'[s] \in Sweepers \cup {"partial"} \/ segment[s].sweep = 0
           ELSE place'[s] \notin Sweepers \cup {"partial"}
  PROVE  MajorInv'
<1>1. GoodInv' /\ ObjectInv'
  BY SegmentsSame
<1>2. ShapeInv'
  BY DEF MajorInv, ShapeInv
<1>3. CountInv'
  BY DEF MajorInv, CountInv
<1>4. SweepInv'
  BY DEF MajorInv, ShapeInv, SweepInv
<1> QED BY <1>1, <1>2, <1>3, <1>4 DEF MajorInv

(* The full segment goes to the list of full ones (segmentFull).           *)
LEMMA FullStep ==
  ASSUME HeapValid, MajorInv, NEW h \in Handles, NEW size \in Sizes, Full(h, size)
  PROVE  MajorInv'
<1>1. UNCHANGED <<kind, segment, object, total, large, totalWords>>
  BY DEF Full, NoLarge
<1>2. h \notin Sweepers \cup {"partial"}
  BY Apart
<1>3. PICK s \in Of(h) : IF Of("free") = {} THEN place' = [place EXCEPT ![s] = "full"]
                         ELSE \E f \in Of("free") : place' = [place EXCEPT ![s] = "full", ![f] = h]
  BY DEF Full
<1>4. s \in DOMAIN place /\ place[s] = h
  BY DEF Of
<1>5. CASE place' = [place EXCEPT ![s] = "full"]
  BY <1>1, <1>2, <1>4, <1>5, Apart, HandsChange
<1>6. CASE \E f \in Of("free") : place' = [place EXCEPT ![s] = "full", ![f] = h]
  <2>1. PICK f \in Of("free") : place' = [place EXCEPT ![s] = "full", ![f] = h]
    BY <1>6
  <2>2. f \in DOMAIN place /\ place[f] = "free"
    BY DEF Of
  <2> QED BY <1>1, <1>2, <1>4, <2>1, <2>2, Apart, HandsChange
<1> QED BY <1>3, <1>5, <1>6

(* A handle takes a segment from the free ones (segmentAcquire).           *)
LEMMA AcquireExistingStep ==
  ASSUME HeapValid, MajorInv, NEW h \in Handles, AcquireExisting(h)
  PROVE  MajorInv'
<1>1. UNCHANGED <<kind, segment, object, total, large, totalWords>>
  BY DEF AcquireExisting, NoLarge
<1>2. PICK f \in Of("free") : place' = [place EXCEPT ![f] = h]
  BY DEF AcquireExisting
<1>3. f \in DOMAIN place /\ place[f] = "free" /\ h \notin Sweepers \cup {"partial"}
  BY Apart DEF Of
<1> QED BY <1>1, <1>2, <1>3, Apart, HandsChange

(* A handle gives its segment back (segmentDestroy).                       *)
LEMMA HandleDestroyStep ==
  ASSUME HeapValid, MajorInv, NEW h \in Handles, HandleDestroy(h)
  PROVE  MajorInv'
<1>1. UNCHANGED <<kind, segment, object, total, large, totalWords>>
  BY DEF HandleDestroy, NoLarge
<1>2. PICK s \in Of(h) : place' = [place EXCEPT ![s] = "free"]
  BY DEF HandleDestroy
<1>3. s \in DOMAIN place /\ place[s] = h /\ h \notin Sweepers \cup {"partial"}
  BY Apart DEF Of
<1> QED BY <1>1, <1>2, <1>3, Apart, HandsChange

(* A sweeper leaves the rest to another one (chiSweepSlice).               *)
LEMMA SweepTimeoutStep ==
  ASSUME HeapValid, MajorInv, NEW w \in Sweepers, SweepTimeout(w)
  PROVE  MajorInv'
<1>1. UNCHANGED <<kind, segment, object, total, large, totalWords>>
  BY DEF SweepTimeout, NoLarge
<1>2. PICK s \in Of(w) : place' = [place EXCEPT ![s] = "partial"]
  BY DEF SweepTimeout
<1>3. s \in DOMAIN place /\ place[s] = w
  BY DEF Of
<1> QED BY <1>1, <1>2, <1>3, HandsChange

(* A step that only concerns large objects.                                *)
LEMMA LargeChange ==
  ASSUME MajorInv, UNCHANGED <<kind, segment, place, object, total>>,
         IsFiniteSet(DOMAIN large') /\ totalWords' = Cardinality(DOMAIN large')
  PROVE  MajorInv'
<1>1. GoodInv' /\ ObjectInv'
  BY SegmentsSame
<1>2. ShapeInv' /\ SweepInv'
  BY DEF MajorInv, ShapeInv, SweepInv
<1>3. CountInv'
  BY DEF MajorInv, CountInv
<1> QED BY <1>1, <1>2, <1>3 DEF MajorInv

(* A large object more is counted (largeNew).                              *)
LEMMA LargeNewStep ==
  ASSUME MajorInv, NEW l \in LargeObjects, LargeNew(l)
  PROVE  MajorInv'
<1>1. /\ l \notin DOMAIN large /\ large' = With(large, l, "heap") /\ totalWords' = totalWords + 1
      /\ UNCHANGED <<kind, segment, place, object, total>>
  BY DEF LargeNew
<1>2. DOMAIN large' = DOMAIN large \cup {l}
  BY <1>1 DEF With
<1>3. IsFiniteSet(DOMAIN large) /\ totalWords = Cardinality(DOMAIN large)
  BY DEF MajorInv, CountInv
<1>4. /\ IsFiniteSet(DOMAIN large \cup {l})
      /\ Cardinality(DOMAIN large \cup {l}) = Cardinality(DOMAIN large) + 1
  BY <1>1, <1>3, FS_AddElement
<1> QED BY <1>1, <1>2, <1>3, <1>4, LargeChange

(* Large objects that are garbage are no longer counted (largeSweep).      *)
LEMMA LargeSweepStep ==
  ASSUME MajorInv, NEW w \in Sweepers, LargeSweep(w)
  PROVE  MajorInv'
<1>1. PICK dead \in SUBSET LargeAt(w) :
        /\ large' = [l \in DOMAIN large \ dead |-> IF large[l] = w THEN "heap" ELSE large[l]]
        /\ totalWords' = totalWords - Cardinality(dead)
  BY DEF LargeSweep
<1>2. DOMAIN large' = DOMAIN large \ dead /\ DOMAIN large \cap dead = dead
  BY <1>1 DEF LargeAt
<1>3. IsFiniteSet(DOMAIN large) /\ totalWords = Cardinality(DOMAIN large)
  BY DEF MajorInv, CountInv
<1>4. /\ IsFiniteSet(DOMAIN large \ dead)
      /\ Cardinality(DOMAIN large \ dead) = Cardinality(DOMAIN large) - Cardinality(DOMAIN large \cap dead)
  BY <1>3, FS_Difference
<1> QED BY <1>1, <1>2, <1>3, <1>4, LargeChange DEF LargeSweep

(* The segments that were full wait for the sweepers.                      *)
LEMMA SweepAcquireStep ==
  ASSUME HeapValid, MajorInv, SweepAcquire
  PROVE  MajorInv'
<1>1. /\ place' = [s \in DOMAIN place |-> IF place[s] = "full" THEN "unswept" ELSE place[s]]
      /\ UNCHANGED <<kind, segment, object, total, totalWords>>
      /\ DOMAIN large' = DOMAIN large
  BY DEF SweepAcquire
<1>2. GoodInv' /\ ObjectInv'
  BY <1>1, SegmentsSame
<1>3. ShapeInv'
  BY <1>1 DEF MajorInv, ShapeInv
<1>4. CountInv'
  BY <1>1 DEF MajorInv, CountInv
<1>5. SweepInv'
  <2>1. \A s \in DOMAIN place : place'[s] \in Sweepers \cup {"partial"} <=> place[s] \in Sweepers \cup {"partial"}
    BY <1>1, Apart
  <2> QED BY <1>1, <2>1 DEF MajorInv, ShapeInv, SweepInv
<1> QED BY <1>2, <1>3, <1>4, <1>5 DEF MajorInv

(* An object is put into the first free cell of its bin.                   *)
LEMMA NewStep ==
  ASSUME HeapValid, MajorInv, NEW h \in Handles, NEW size \in Sizes, New(h, size)
  PROVE  MajorInv'
<1>1. /\ UNCHANGED <<kind, place, total, large, totalWords>>
      /\ \E s \in Of(h) :
           /\ FirstCell(h, s, size) \/ HasPage(s)
           /\ LET g == IF FirstCell(h, s, size) THEN segment[s] ELSE WithPage(s, size)
                  c == Head(g.free[Bin(size)])
              IN  /\ segment' = [segment EXCEPT ![s] = [g EXCEPT !.free[Bin(size)] = Tail(@)]]
                  /\ object' = With(object, <<s, c[1], c[2]>>, size)
  BY DEF New, NoLarge
<1>2. PICK s \in Of(h) :
        /\ FirstCell(h, s, size) \/ HasPage(s)
        /\ LET g == IF FirstCell(h, s, size) THEN segment[s] ELSE WithPage(s, size)
               c == Head(g.free[Bin(size)])
           IN  /\ segment' = [segment EXCEPT ![s] = [g EXCEPT !.free[Bin(size)] = Tail(@)]]
               /\ object' = With(object, <<s, c[1], c[2]>>, size)
  BY <1>1
<1> DEFINE g == IF FirstCell(h, s, size) THEN segment[s] ELSE WithPage(s, size)
           b == Bin(size)
           c == Head(g.free[b])
           g2 == [g EXCEPT !.free[b] = Tail(@)]
           occ == ObjectsIn(DOMAIN object, s)
<1>3. segment' = [segment EXCEPT ![s] = g2] /\ object' = With(object, <<s, c[1], c[2]>>, size)
  BY <1>2
<1>4. /\ s \in DOMAIN segment /\ place[s] = h /\ segment[s].sweep = 0
      /\ Good(segment[s], occ) /\ ShapeInv /\ b \in Bins
  <2>1. s \in DOMAIN segment /\ place[s] = h /\ ShapeInv
    BY DEF Of, MajorInv, ShapeInv
  <2>2. segment[s].sweep = 0
    BY <2>1, Apart DEF MajorInv, SweepInv
  <2> QED BY <2>1, <2>2, SizeFacts DEF MajorInv, GoodInv
<1>5. /\ Good(g, occ) /\ g.free[b] # <<>> /\ g.sweep = 0
      /\ \A x \in occ : g.page[x[1]] = segment[s].page[x[1]]
  <2>1. CASE FirstCell(h, s, size)
    BY <1>4, <2>1 DEF FirstCell, HasCell
  <2>2. CASE ~FirstCell(h, s, size)
    <3>1. HasPage(s)
      BY <1>2, <2>2
    <3> HIDE DEF occ
    <3> QED BY <1>4, <2>2, <3>1, MakePage
  <2> QED BY <2>1, <2>2
<1> HIDE DEF g
<1>6. /\ c \in CellsOf(g) /\ c \notin occ /\ Room(g.page[c[1]], b)
      /\ Good(g2, occ \cup {c})
  <2> HIDE DEF occ, b
  <2> QED BY <1>4, <1>5, TakeCell
<1>7. g \in SegmentType /\ g2.page = g.page /\ g2.sweep = 0
  BY <1>5 DEF Good, SegmentType
<1> HIDE DEF g2, c
<1>8. c \in Cell /\ c = <<c[1], c[2]>> /\ size + Header <= g.page[c[1]]
  BY <1>6 DEF CellsOf, Cell, Room
<1>9. /\ DOMAIN object' = DOMAIN object \cup {<<s, c[1], c[2]>>}
      /\ object'[<<s, c[1], c[2]>>] = size
      /\ \A a \in DOMAIN object : a # <<s, c[1], c[2]>> => object'[a] = object[a]
  BY <1>3 DEF With
<1>10. DOMAIN segment' = DOMAIN segment /\ segment'[s] = g2
       /\ \A t \in DOMAIN segment : t # s => segment'[t] = segment[t]
  BY <1>3, <1>4
<1>11. ObjectsIn(DOMAIN object', s) = occ \cup {c}
  <2>1. \A x \in Cell : x = <<x[1], x[2]>>
    BY DEF Cell
  <2>2. \A x \in Cell : <<s, x[1], x[2]>> \in DOMAIN object' <=> <<s, x[1], x[2]>> \in DOMAIN object \/ x = c
    BY <1>8, <1>9, <2>1
  <2> QED BY <1>8, <2>2 DEF ObjectsIn
<1>12. GoodInv'
  <2>1. GoodInv /\ kind' = kind
    BY <1>1 DEF MajorInv
  <2>2. \A t \in DOMAIN segment' : t # s => t \in DOMAIN segment /\ segment'[t] = segment[t]
    BY <1>10
  <2>3. \A t, p, o : t # s => (<<t, p, o>> \in DOMAIN object' <=> <<t, p, o>> \in DOMAIN object)
    BY <1>9
  <2>4. Good(segment'[s], ObjectsIn(DOMAIN object', s))
    BY <1>6, <1>10, <1>11
  <2> QED BY <2>1, <2>2, <2>3, <2>4, GoodFrame
<1>13. ObjectInv'
  <2> SUFFICES ASSUME NEW a \in DOMAIN object'
               PROVE  /\ a \in (DOMAIN segment) \X Page \X Nat
                      /\ object'[a] + Header <= segment'[a[1]].page[a[2]]
    BY <1>10 DEF ObjectInv
  <2>1. CASE a = <<s, c[1], c[2]>>
    BY <1>4, <1>7, <1>8, <1>9, <1>10, <2>1 DEF Cell
  <2>2. CASE a # <<s, c[1], c[2]>>
    <3>1. /\ a \in DOMAIN object /\ a \in (DOMAIN segment) \X Page \X Nat /\ object'[a] = object[a]
          /\ object[a] + Header <= segment[a[1]].page[a[2]]
      BY <1>9, <2>2 DEF MajorInv, ObjectInv
    <3>2. CASE a[1] = s
      <4>1. <<a[2], a[3]>> \in occ
        BY <3>1, <3>2 DEF ObjectsIn, Cell
      <4>2. g.page[a[2]] = segment[s].page[a[2]]
        BY <1>5, <4>1
      <4> QED BY <1>7, <1>10, <3>1, <3>2, <4>2
    <3>3. CASE a[1] # s
      BY <1>10, <3>1, <3>3
    <3> QED BY <3>2, <3>3
  <2> QED BY <2>1, <2>2
<1>14. SweepInv'
  <2>1. \A t \in DOMAIN segment : t # s => ObjectsIn(DOMAIN object', t) = ObjectsIn(DOMAIN object, t)
    BY <1>9 DEF ObjectsIn
  <2>2. place' = place /\ place[s] \notin Sweepers \cup {"partial"}
    BY <1>1, <1>4, Apart
  <2> QED BY <1>7, <1>10, <2>1, <2>2 DEF MajorInv, SweepInv
<1>15. ShapeInv' /\ CountInv'
  BY <1>1, <1>10 DEF MajorInv, ShapeInv, CountInv
<1> QED BY <1>12, <1>13, <1>14, <1>15 DEF MajorInv

(* A new segment has no page and no object.                                *)
LEMMA EmptyGood ==
  ASSUME HeapValid
  PROVE  Good(Empty, {}) /\ Empty.sweep = 0
<1>1. /\ Empty.page = [p \in Page |-> FreePage] /\ Empty.end = 0 /\ Empty.sweep = 0
      /\ Empty.freePages = <<>> /\ Empty.free = [b \in Bins |-> <<>>]
  BY DEF Empty
<1>2. Empty \in SegmentType
  <2>1. [b \in Bins |-> <<>>] \in [Bins -> Seq(Cell)] /\ <<>> \in Seq(Page)
    OBVIOUS
  <2>2. [p \in Page |-> FreePage] \in [Page -> CellSizes \cup {FreePage}]
    OBVIOUS
  <2>3. 0 \in 0 .. PagesPerSegment
    BY DEF HeapValid
  <2> QED BY <2>1, <2>2, <2>3 DEF Empty, SegmentType
<1>3. Done(Empty) = {}
  BY <1>1 DEF Done, Page
<1>4. CellsOf(Empty) = {}
  BY <1>3 DEF CellsOf
<1>5. PagesGood(Empty)
  BY <1>1, <1>3 DEF PagesGood, ToSet, IsInjective
<1>6. ListsGood(Empty, {})
  BY <1>1, <1>4 DEF ListsGood, ToSet, IsInjective
<1> QED BY <1>1, <1>2, <1>5, <1>6 DEF Good

(* A segment more is counted (segmentAcquireNew).                          *)
LEMMA AcquireNewStep ==
  ASSUME HeapValid, MajorInv, NEW h \in Handles, AcquireNew(h)
  PROVE  MajorInv'
<1>1. /\ UNCHANGED <<kind, object, large, totalWords>> /\ total' = total + 1
      /\ \E s \in Segment \ DOMAIN segment : segment' = With(segment, s, Empty) /\ place' = With(place, s, h)
  BY DEF AcquireNew, NoLarge
<1>2. PICK s \in Segment \ DOMAIN segment :
        segment' = With(segment, s, Empty) /\ place' = With(place, s, h)
  BY <1>1
<1>3. DOMAIN place = DOMAIN segment
  BY DEF MajorInv, ShapeInv
<1>4. /\ DOMAIN segment' = DOMAIN segment \cup {s} /\ DOMAIN place' = DOMAIN segment'
      /\ segment'[s] = Empty /\ place'[s] = h
      /\ \A t \in DOMAIN segment : t # s /\ segment'[t] = segment[t] /\ place'[t] = place[t]
  BY <1>2, <1>3 DEF With
<1>5. ObjectsIn(DOMAIN object', s) = {}
  <2>1. \A p, o : <<s, p, o>> \notin DOMAIN object
    BY DEF MajorInv, ObjectInv
  <2> QED BY <1>1, <2>1 DEF ObjectsIn
<1>6. GoodInv'
  <2>1. GoodInv /\ kind' = kind
    BY <1>1 DEF MajorInv
  <2>2. \A t \in DOMAIN segment' : t # s => t \in DOMAIN segment /\ segment'[t] = segment[t]
    BY <1>4
  <2>3. \A t, p, o : t # s => (<<t, p, o>> \in DOMAIN object' <=> <<t, p, o>> \in DOMAIN object)
    BY <1>1
  <2>4. Good(segment'[s], ObjectsIn(DOMAIN object', s))
    BY <1>4, <1>5, EmptyGood
  <2> QED BY <2>1, <2>2, <2>3, <2>4, GoodFrame
<1>7. ObjectInv'
  <2>1. \A a \in DOMAIN object' : /\ a \in (DOMAIN segment) \X Page \X Nat
                                  /\ object'[a] + Header <= segment[a[1]].page[a[2]]
    BY <1>1 DEF MajorInv, ObjectInv
  <2>2. \A a \in DOMAIN object' : /\ a[1] \in DOMAIN segment /\ a \in (DOMAIN segment') \X Page \X Nat
    BY <1>4, <2>1
  <2> QED BY <1>4, <2>1, <2>2 DEF ObjectInv
<1>8. SweepInv'
  BY <1>1, <1>4, EmptyGood, Apart DEF MajorInv, SweepInv
<1>9. CountInv'
  <2>1. IsFiniteSet(DOMAIN segment) /\ total = Cardinality(DOMAIN segment)
    BY DEF MajorInv, CountInv
  <2>2. /\ IsFiniteSet(DOMAIN segment \cup {s})
        /\ Cardinality(DOMAIN segment \cup {s}) = Cardinality(DOMAIN segment) + 1
    BY <1>2, <2>1, FS_AddElement
  <2> QED BY <1>1, <1>4, <2>1, <2>2 DEF MajorInv, CountInv
<1>10. ShapeInv'
  BY <1>1, <1>4 DEF MajorInv, ShapeInv
<1> QED BY <1>6, <1>7, <1>8, <1>9, <1>10 DEF MajorInv

(* A segment is handed to a sweeper, its pages not yet settled.            *)
LEMMA SweepTakeStep ==
  ASSUME HeapValid, MajorInv, NEW w \in Sweepers, SweepTake(w)
  PROVE  MajorInv'
<1>1. UNCHANGED <<kind, total, object, totalWords>>
  BY DEF SweepTake
<1>2. CASE UNCHANGED <<segment, large>> /\ \E s \in Of("partial") : place' = [place EXCEPT ![s] = w]
  <2>1. PICK s \in Of("partial") : place' = [place EXCEPT ![s] = w]
    BY <1>2
  <2>2. s \in DOMAIN place /\ place[s] = "partial"
    BY DEF Of
  <2> QED BY <1>1, <1>2, <2>1, <2>2, HandsChange
<1>3. CASE /\ \E s \in Of("unswept") : /\ place' = [place EXCEPT ![s] = w]
                                       /\ segment' = [segment EXCEPT ![s] = Reset(@)]
           /\ UNCHANGED large
  <2>1. PICK s \in Of("unswept") : /\ place' = [place EXCEPT ![s] = w]
                                   /\ segment' = [segment EXCEPT ![s] = Reset(segment[s])]
    BY <1>3
  <2>2. s \in DOMAIN place /\ DOMAIN place = DOMAIN segment
    BY DEF Of, MajorInv, ShapeInv
  <2>3. /\ DOMAIN segment' = DOMAIN segment /\ DOMAIN place' = DOMAIN segment
        /\ segment'[s] = Reset(segment[s]) /\ place'[s] = w
        /\ \A t \in DOMAIN segment : t # s => segment'[t] = segment[t] /\ place'[t] = place[t]
    BY <2>1, <2>2
  <2>4. Good(segment[s], ObjectsIn(DOMAIN object, s))
    BY <2>2 DEF MajorInv, GoodInv
  <2>5. /\ Good(Reset(segment[s]), ObjectsIn(DOMAIN object, s))
        /\ Reset(segment[s]).page = segment[s].page
        /\ Reset(segment[s]).sweep = segment[s].end
    BY <2>4, ResetGood
  <2>6. GoodInv'
    <3>1. GoodInv /\ kind' = kind
      BY <1>1 DEF MajorInv
    <3>2. \A t \in DOMAIN segment' : t # s => t \in DOMAIN segment /\ segment'[t] = segment[t]
      BY <2>3
    <3>3. \A t, p, o : t # s => (<<t, p, o>> \in DOMAIN object' <=> <<t, p, o>> \in DOMAIN object)
      BY <1>1
    <3>4. Good(segment'[s], ObjectsIn(DOMAIN object', s))
      BY <1>1, <2>3, <2>5
    <3> QED BY <3>1, <3>2, <3>3, <3>4, GoodFrame
  <2>7. ObjectInv'
    <3>1. \A t \in DOMAIN segment : segment'[t].page = segment[t].page
      BY <2>3, <2>5
    <3>2. \A a \in DOMAIN object : a \in (DOMAIN segment) \X Page \X Nat
      BY DEF MajorInv, ObjectInv
    <3>3. \A a \in DOMAIN object : a[1] \in DOMAIN segment
      BY <3>2
    <3> QED BY <1>1, <2>3, <3>1, <3>3 DEF MajorInv, ObjectInv
  <2>8. SweepInv'
    <3>1. \A c \in ObjectsIn(DOMAIN object, s) : c[1] < segment[s].end
      BY <2>4 DEF Good
    <3> QED BY <1>1, <2>3, <2>5, <3>1 DEF MajorInv, SweepInv
  <2>9. ShapeInv' /\ CountInv'
    BY <1>1, <1>3, <2>3 DEF MajorInv, ShapeInv, CountInv
  <2> QED BY <2>6, <2>7, <2>8, <2>9 DEF MajorInv
<1>4. CASE UNCHANGED <<place, segment>> /\ DOMAIN large' = DOMAIN large
  <2>1. IsFiniteSet(DOMAIN large') /\ totalWords' = Cardinality(DOMAIN large')
    BY <1>1, <1>4 DEF MajorInv, CountInv
  <2> QED BY <1>1, <1>4, <2>1, LargeChange
<1>5. DOMAIN [l \in DOMAIN large |-> IF large[l] = "sweep" THEN w ELSE large[l]] = DOMAIN large
  OBVIOUS
<1> QED BY <1>2, <1>3, <1>4, <1>5 DEF SweepTake

(* The objects of a page that are no garbage stay, and it is settled.      *)
LEMMA SweepPageStep ==
  ASSUME HeapValid, MajorInv, NEW w \in Sweepers, SweepPage(w)
  PROVE  MajorInv'
<1>1. UNCHANGED <<kind, place, total, large, totalWords>>
  BY DEF SweepPage, NoLarge
<1>2. PICK s \in Of(w) :
        /\ segment[s].sweep > 0
        /\ \E dead \in SUBSET Objects(s, segment[s].sweep - 1) :
             LET g == segment[s]
                 p == g.sweep - 1
                 cell == g.page[p]
                 free == Garbage(s, p, dead)
             IN  /\ segment' = [segment EXCEPT ![s] =
                      IF cell = FreePage \/ free = Offsets(cell)
                      THEN [g EXCEPT !.sweep = p, !.page[p] = FreePage, !.freePages = <<p>> \o @]
                      ELSE [g EXCEPT !.sweep = p, !.alive = TRUE,
                                     !.free[SweepBin(cell)] = Cells(p, free) \o @]]
                 /\ object' = Without(object, dead)
  BY DEF SweepPage
<1> DEFINE g == segment[s]
           p == g.sweep - 1
           cell == g.page[p]
           occ == ObjectsIn(DOMAIN object, s)
           kept == ObjectsIn(DOMAIN object', s)
           swept == [g EXCEPT !.sweep = p, !.page[p] = FreePage, !.freePages = <<p>> \o @]
           reused(free) == [g EXCEPT !.sweep = p, !.alive = TRUE,
                                     !.free[SweepBin(cell)] = Cells(p, free) \o @]
<1>3. PICK dead \in SUBSET Objects(s, p) :
        /\ segment' = [segment EXCEPT ![s] =
             IF cell = FreePage \/ Garbage(s, p, dead) = Offsets(cell)
             THEN swept ELSE reused(Garbage(s, p, dead))]
        /\ object' = Without(object, dead)
  BY <1>2
<1>4. /\ s \in DOMAIN segment /\ place[s] = w /\ ShapeInv /\ Good(g, occ) /\ g.sweep > 0
      /\ g \in SegmentType
  BY <1>2 DEF Of, MajorInv, ShapeInv, GoodInv, Good
<1>5. /\ p \in Page /\ \A x \in Page : g.sweep <= x \/ x = p <=> p <= x
  BY <1>4, NextPage
<1>6. /\ DOMAIN object' = DOMAIN object \ dead
      /\ \A a \in DOMAIN object' : object'[a] = object[a]
      /\ \A a \in dead : a[1] = s /\ a[2] = p
  BY <1>3 DEF Without, Objects
<1> DEFINE unused == {o \in Offsets(cell) : <<p, o>> \notin kept}
<1>7. Garbage(s, p, dead) = unused
  <2>1. cell \in CellSizes \cup {FreePage}
    BY <1>4, <1>5 DEF SegmentType
  <2>2. Offsets(cell) \subseteq Nat
    BY <1>4, <2>1, OffsetsFinite
  <2>3. \A o \in Nat : <<p, o>> \in Cell
    BY <1>5 DEF Cell
  <2>4. \A o \in Nat : <<p, o>> \in kept <=> <<s, p, o>> \in DOMAIN object'
    BY <2>3 DEF ObjectsIn
  <2>5. \A o \in Nat : <<s, p, o>> \in Objects(s, p) \ dead <=> <<s, p, o>> \in DOMAIN object'
    BY <1>6 DEF Objects
  <2> QED BY <2>2, <2>4, <2>5 DEF Garbage
<1>8. /\ kept \subseteq occ
      /\ \A c \in occ : c[1] # p => c \in kept
  BY <1>6 DEF ObjectsIn
<1> DEFINE g2 == segment'[s]
<1>9. /\ DOMAIN segment' = DOMAIN segment
      /\ \A t \in DOMAIN segment : t # s => segment'[t] = segment[t]
  BY <1>3
<1>10. g2 = IF cell = FreePage \/ unused = Offsets(cell) THEN swept ELSE reused(unused)
  BY <1>3, <1>4, <1>7
<1>11. /\ swept.page = [g.page EXCEPT ![p] = FreePage] /\ swept.sweep = p /\ swept.alive = g.alive
       /\ \A free : reused(free).page = g.page /\ reused(free).alive = TRUE
  BY <1>4 DEF SegmentType
<1> DEFINE empties == cell = FreePage \/ unused = Offsets(cell)
<1>12. ASSUME empties
       PROVE  \A c \in kept : c[1] # p
  <2> SUFFICES ASSUME NEW c \in kept, c[1] = p
               PROVE  FALSE
    OBVIOUS
  <2>1. c \in occ /\ c \in Cell /\ c = <<p, c[2]>>
    BY <1>8 DEF ObjectsIn, Cell
  <2>2. c[2] \in Offsets(cell)
    BY <1>4, <2>1 DEF Good
  <2>3. cell # FreePage
    BY <1>4, <2>2, OffsetsFinite
  <2>4. c[2] \in unused
    BY <1>12, <2>2, <2>3
  <2> QED BY <2>1, <2>4
<1>13. Good(g2, kept)
  <2>1. CASE empties
    <3>1. g2 = swept
      BY <1>10, <2>1
    <3>2. \A c \in kept : c[1] # p
      BY <1>12, <2>1
    <3> HIDE DEF g, g2, occ, kept
    <3> QED BY <1>4, <1>8, <3>1, <3>2, FreePageGood
  <2>2. CASE ~empties
    <3>1. g2 = reused(unused) /\ cell # FreePage
      BY <1>10, <2>2
    <3> HIDE DEF g, g2, occ, kept
    <3> QED BY <1>4, <1>8, <3>1, CellsFreed
  <2> QED BY <2>1, <2>2
<1>14. GoodInv'
  <2>1. GoodInv /\ kind' = kind
    BY <1>1 DEF MajorInv
  <2>2. \A t \in DOMAIN segment' : t # s => t \in DOMAIN segment /\ segment'[t] = segment[t]
    BY <1>9
  <2>3. \A t, q, o : t # s => (<<t, q, o>> \in DOMAIN object' <=> <<t, q, o>> \in DOMAIN object)
    BY <1>6
  <2>4. s \in DOMAIN segment' => Good(segment'[s], ObjectsIn(DOMAIN object', s))
    BY <1>13
  <2> QED BY <2>1, <2>2, <2>3, <2>4, GoodFrame
<1>15. ObjectInv'
  <2> SUFFICES ASSUME NEW a \in DOMAIN object'
               PROVE  /\ a \in (DOMAIN segment) \X Page \X Nat
                      /\ object'[a] + Header <= segment'[a[1]].page[a[2]]
    BY <1>9 DEF ObjectInv
  <2>1. /\ a \in DOMAIN object /\ a \in (DOMAIN segment) \X Page \X Nat /\ object'[a] = object[a]
        /\ object[a] + Header <= segment[a[1]].page[a[2]]
    BY <1>6 DEF MajorInv, ObjectInv
  <2>2. CASE a[1] # s
    BY <1>9, <2>1, <2>2
  <2>3. CASE a[1] = s
    <3>1. CASE empties
      <4>1. <<a[2], a[3]>> \in kept
        BY <2>1, <2>3 DEF ObjectsIn, Cell
      <4>2. a[2] # p /\ a[2] \in Page
        BY <1>12, <2>1, <3>1, <4>1
      <4>3. g2.page[a[2]] = g.page[a[2]]
        BY <1>4, <1>10, <1>11, <3>1, <4>2 DEF SegmentType
      <4> QED BY <2>1, <2>3, <4>3
    <3>2. CASE ~empties
      <4>1. g2.page = g.page
        BY <1>10, <1>11, <3>2
      <4> QED BY <2>1, <2>3, <4>1
    <3> QED BY <3>1, <3>2
  <2> QED BY <2>2, <2>3
<1>16. SweepInv'
  <2> SUFFICES ASSUME NEW t \in DOMAIN segment
               PROVE  IF place[t] \in Sweepers \cup {"partial"}
                      THEN ~segment'[t].alive =>
                             \A c \in ObjectsIn(DOMAIN object', t) : c[1] < segment'[t].sweep
                      ELSE segment'[t].sweep = 0
    BY <1>1, <1>9 DEF SweepInv
  <2>1. CASE t # s
    <3>1. ObjectsIn(DOMAIN object', t) = ObjectsIn(DOMAIN object, t)
      BY <1>6, <2>1 DEF ObjectsIn
    <3> QED BY <1>9, <2>1, <3>1 DEF MajorInv, SweepInv
  <2>2. CASE t = s
    <3>1. CASE empties
      <4>1. g2.sweep = p /\ g2.alive = g.alive
        BY <1>10, <1>11, <3>1
      <4>2. ~g.alive => \A c \in occ : c[1] < g.sweep
        BY <1>4 DEF MajorInv, SweepInv
      <4>3. \A c \in kept : c \in occ /\ c[1] \in Page /\ c[1] # p
        BY <1>8, <1>12, <3>1 DEF ObjectsIn, Cell
      <4>4. g.sweep \in Nat /\ \A x \in Page : x \in Nat
        BY <1>4 DEF SegmentType, Page
      <4>5. ~g.alive => \A c \in kept : c[1] < p
        BY <4>2, <4>3, <4>4
      <4> QED BY <1>4, <2>2, <4>1, <4>5
    <3>2. CASE ~empties
      BY <1>4, <1>10, <1>11, <2>2, <3>2
    <3> QED BY <3>1, <3>2
  <2> QED BY <2>1, <2>2
<1>17. ShapeInv' /\ CountInv'
  BY <1>1, <1>9 DEF MajorInv, ShapeInv, CountInv
<1> QED BY <1>14, <1>15, <1>16, <1>17 DEF MajorInv

(* A segment in which nothing was found alive has no object.               *)
LEMMA SweepReleaseStep ==
  ASSUME HeapValid, MajorInv, NEW w \in Sweepers, SweepRelease(w)
  PROVE  MajorInv'
<1>1. UNCHANGED <<kind, object, large, totalWords>>
  BY DEF SweepRelease, NoLarge
<1>2. PICK s \in Of(w) :
        /\ segment[s].sweep = 0
        /\ IF segment[s].alive
           THEN place' = [place EXCEPT ![s] = "free"] /\ UNCHANGED <<segment, total>>
           ELSE /\ place' = Without(place, {s}) /\ segment' = Without(segment, {s})
                /\ total' = total - 1
  BY DEF SweepRelease
<1>3. s \in DOMAIN segment /\ place[s] = w /\ DOMAIN place = DOMAIN segment
  BY DEF Of, MajorInv, ShapeInv
<1>4. CASE segment[s].alive
  BY <1>1, <1>2, <1>3, <1>4, Apart, HandsChange
<1>5. CASE ~segment[s].alive
  <2>1. /\ DOMAIN segment' = DOMAIN segment \ {s} /\ DOMAIN place' = DOMAIN segment'
        /\ \A t \in DOMAIN segment' : segment'[t] = segment[t] /\ place'[t] = place[t]
        /\ total' = total - 1
    BY <1>2, <1>3, <1>5 DEF Without
  <2>2. \A a \in DOMAIN object : a[1] # s
    <3> SUFFICES ASSUME NEW a \in DOMAIN object, a[1] = s
                 PROVE  FALSE
      OBVIOUS
    <3>1. a \in (DOMAIN segment) \X Page \X Nat
      BY DEF MajorInv, ObjectInv
    <3>2. <<a[2], a[3]>> \in ObjectsIn(DOMAIN object, s) /\ a[2] \in Nat
      BY <3>1 DEF ObjectsIn, Cell, Page
    <3>3. a[2] < 0
      BY <1>2, <1>3, <1>5, <3>2 DEF MajorInv, SweepInv
    <3> QED BY <3>2, <3>3
  <2>3. GoodInv'
    <3>1. GoodInv /\ kind' = kind
      BY <1>1 DEF MajorInv
    <3>2. \A t \in DOMAIN segment' : t # s => t \in DOMAIN segment /\ segment'[t] = segment[t]
      BY <2>1
    <3>3. \A t, p, o : t # s => (<<t, p, o>> \in DOMAIN object' <=> <<t, p, o>> \in DOMAIN object)
      BY <1>1
    <3>4. s \notin DOMAIN segment'
      BY <2>1
    <3> QED BY <3>1, <3>2, <3>3, <3>4, GoodFrame
  <2>4. ObjectInv'
    <3>1. \A a \in DOMAIN object : /\ a \in (DOMAIN segment) \X Page \X Nat
                                   /\ object[a] + Header <= segment[a[1]].page[a[2]]
      BY DEF MajorInv, ObjectInv
    <3>2. \A a \in DOMAIN object : a[1] \in DOMAIN segment' /\ a \in (DOMAIN segment') \X Page \X Nat
      BY <2>1, <2>2, <3>1
    <3> QED BY <1>1, <2>1, <3>1, <3>2 DEF ObjectInv
  <2>5. SweepInv'
    BY <1>1, <2>1 DEF MajorInv, SweepInv
  <2>6. CountInv'
    <3>1. IsFiniteSet(DOMAIN segment) /\ total = Cardinality(DOMAIN segment)
      BY DEF MajorInv, CountInv
    <3>2. /\ IsFiniteSet(DOMAIN segment \ {s})
          /\ Cardinality(DOMAIN segment \ {s}) = Cardinality(DOMAIN segment) - 1
      BY <1>3, <3>1, FS_RemoveElement
    <3> QED BY <1>1, <2>1, <3>1, <3>2 DEF MajorInv, CountInv
  <2>7. ShapeInv'
    BY <1>1, <2>1 DEF MajorInv, ShapeInv
  <2> QED BY <2>3, <2>4, <2>5, <2>6, <2>7 DEF MajorInv
<1> QED BY <1>4, <1>5

(* At first there is nothing (chiHeapSetup).                               *)
LEMMA MajorInit ==
  ASSUME HeapValid, Init
  PROVE  MajorInv
<1>1. /\ DOMAIN segment = {} /\ DOMAIN place = {} /\ DOMAIN object = {} /\ DOMAIN large = {}
      /\ total = 0 /\ totalWords = 0 /\ kind \in {"small", "medium", "large"}
  BY DEF Init
<1>2. IsFiniteSet({}) /\ Cardinality({}) = 0
  BY FS_EmptySet
<1>3. CountInv
  BY <1>1, <1>2 DEF CountInv
<1> QED BY <1>1, <1>3 DEF MajorInv, ShapeInv, GoodInv, ObjectInv, SweepInv

(* Each step keeps the invariant.                                          *)
LEMMA MajorStep ==
  ASSUME HeapValid, MajorInv, [Next]_vars
  PROVE  MajorInv'
<1>1. ASSUME NEW h \in Handles, NEW size \in Sizes, New(h, size) \/ Full(h, size)
      PROVE  MajorInv'
  BY <1>1, NewStep, FullStep
<1>2. ASSUME NEW h \in Handles, AcquireExisting(h) \/ AcquireNew(h) \/ HandleDestroy(h)
      PROVE  MajorInv'
  BY <1>2, AcquireExistingStep, AcquireNewStep, HandleDestroyStep
<1>3. ASSUME NEW l \in LargeObjects, LargeNew(l)
      PROVE  MajorInv'
  BY <1>3, LargeNewStep
<1>4. ASSUME NEW w \in Sweepers,
             SweepTake(w) \/ SweepPage(w) \/ SweepTimeout(w) \/ SweepRelease(w) \/ LargeSweep(w)
      PROVE  MajorInv'
  BY <1>4, SweepTakeStep, SweepPageStep, SweepTimeoutStep, SweepReleaseStep, LargeSweepStep
<1>5. CASE SweepAcquire
  BY <1>5, SweepAcquireStep
<1>6. CASE UNCHANGED vars
  <2>1. UNCHANGED <<kind, segment, place, object, total, large, totalWords>>
    BY <1>6 DEF vars
  <2>2. IsFiniteSet(DOMAIN large') /\ totalWords' = Cardinality(DOMAIN large')
    BY <2>1 DEF MajorInv, CountInv
  <2> QED BY <2>1, <2>2, LargeChange
<1> QED BY <1>1, <1>2, <1>3, <1>4, <1>5, <1>6 DEF Next

(* The invariant implies what a run checks.                                *)
LEMMA MajorInvSound ==
  ASSUME HeapValid, MajorInv
  PROVE  HeapSound
<1>1. \A a \in DOMAIN object :
        /\ a[1] \in DOMAIN segment /\ a = <<a[1], a[2], a[3]>>
        /\ <<a[2], a[3]>> \in ObjectsIn(DOMAIN object, a[1])
        /\ object[a] + Header <= segment[a[1]].page[a[2]]
  BY DEF MajorInv, ObjectInv, ObjectsIn, Cell
<1>2. \A s \in DOMAIN segment : Good(segment[s], ObjectsIn(DOMAIN object, s))
  BY DEF MajorInv, GoodInv
<1>3. CellsFit
  BY <1>1, <1>2 DEF CellsFit, Good
<1>4. CellsListed
  <2> SUFFICES ASSUME NEW s \in DOMAIN segment
               PROVE  LET g == segment[s]
                          listed(b) == ToSet(g.free[b])
                      IN  /\ IsInjective(g.freePages)
                          /\ ToSet(g.freePages) = {p \in Settled(s) : g.page[p] = FreePage}
                          /\ \A b \in Bins : IsInjective(g.free[b])
                          /\ \A b \in Bins, c \in Bins : b # c => listed(b) \cap listed(c) = {}
                          /\ \A p \in Settled(s) : g.page[p] # FreePage =>
                               {c \in UNION {listed(b) : b \in Bins} : c[1] = p}
                                 = {<<p, o>> : o \in {x \in Offsets(g.page[p]) : <<s, p, x>> \notin DOMAIN object}}
                          /\ \A b \in Bins : \A c \in listed(b) :
                               /\ c[1] \in Settled(s)
                               /\ \A size \in Sizes : Bin(size) = b => size + Header <= g.page[c[1]]
    BY DEF CellsListed
  <2> DEFINE g == segment[s]
             listed(b) == ToSet(g.free[b])
             occ == ObjectsIn(DOMAIN object, s)
  <2>1. g \in SegmentType /\ PagesGood(g) /\ ListsGood(g, occ) /\ Settled(s) = Done(g)
    BY <1>2 DEF Good, Settled, Done
  <2>2. IsInjective(g.freePages) /\ ToSet(g.freePages) = {p \in Settled(s) : g.page[p] = FreePage}
    BY <2>1 DEF PagesGood
  <2>3. /\ \A b \in Bins : IsInjective(g.free[b])
        /\ \A b \in Bins, c \in Bins : b # c => listed(b) \cap listed(c) = {}
    BY <2>1 DEF ListsGood
  <2>4. \A b \in Bins : \A c \in listed(b) :
          c \in CellsOf(g) /\ c \notin occ /\ Room(g.page[c[1]], b)
    BY <2>1 DEF ListsGood
  <2>5. \A b \in Bins : \A c \in listed(b) :
          c[1] \in Settled(s) /\ \A size \in Sizes : Bin(size) = b => size + Header <= g.page[c[1]]
    BY <2>1, <2>4 DEF CellsOf, Room
  <2>6. ASSUME NEW p \in Settled(s), g.page[p] # FreePage
        PROVE  {c \in UNION {listed(b) : b \in Bins} : c[1] = p}
                 = {<<p, o>> : o \in {x \in Offsets(g.page[p]) : <<s, p, x>> \notin DOMAIN object}}
    <3>1. p \in Page /\ p \in Done(g) /\ g.page[p] \in CellSizes \cup {FreePage} /\ ShapeInv
      BY <2>1 DEF Done, SegmentType, MajorInv
    <3>2. Offsets(g.page[p]) \subseteq Nat
      BY <3>1, OffsetsFinite
    <3>3. \A o \in Offsets(g.page[p]) :
            <<p, o>> \in CellsOf(g) /\ (<<p, o>> \in occ <=> <<s, p, o>> \in DOMAIN object)
      BY <3>1, <3>2 DEF CellsOf, Cell, ObjectsIn
    <3>4. \A b \in Bins : \A c \in listed(b) : c[1] = p =>
            /\ c = <<p, c[2]>> /\ c[2] \in Offsets(g.page[p]) /\ <<s, p, c[2]>> \notin DOMAIN object
      BY <2>4, <3>3 DEF CellsOf, Cell
    <3>5. \A o \in Offsets(g.page[p]) : <<s, p, o>> \notin DOMAIN object =>
            \E b \in Bins : <<p, o>> \in listed(b)
      BY <2>1, <3>3 DEF ListsGood
    <3> DEFINE here == {c \in UNION {listed(b) : b \in Bins} : c[1] = p}
               unused == {<<p, o>> : o \in {x \in Offsets(g.page[p]) : <<s, p, x>> \notin DOMAIN object}}
    <3>6. ASSUME NEW c \in here
          PROVE  c \in unused
      <4>1. PICK b \in Bins : c \in listed(b) /\ c[1] = p
        OBVIOUS
      <4>2. c = <<p, c[2]>> /\ c[2] \in Offsets(g.page[p]) /\ <<s, p, c[2]>> \notin DOMAIN object
        BY <3>4, <4>1
      <4> QED BY <4>2
    <3>7. ASSUME NEW o \in Offsets(g.page[p]), <<s, p, o>> \notin DOMAIN object
          PROVE  <<p, o>> \in here
      <4>1. PICK b \in Bins : <<p, o>> \in listed(b)
        BY <3>5, <3>7
      <4>2. <<p, o>>[1] = p
        OBVIOUS
      <4> HIDE DEF listed
      <4> QED BY <4>1, <4>2
    <3>8. \A c \in unused : c \in here
      BY <3>7
    <3> HIDE DEF here, unused
    <3>9. here = unused
      BY <3>6, <3>8
    <3> QED BY <3>9 DEF here, unused
  <2> QED BY <2>2, <2>3, <2>5, <2>6
<1>5. Counted
  BY DEF MajorInv, CountInv, Counted
<1> QED BY <1>3, <1>4, <1>5 DEF HeapSound

(* An object is in a cell that holds it, each other cell of a settled page *)
(* is in one list, once, whose objects it holds, and the counts are right, *)
(* whoever allocates and sweeps (segmentNew, pageAlloc, segmentSweep).     *)
THEOREM HeapIsSound ==
  ASSUME HeapValid
  PROVE  Spec => []HeapSound
<1>1. Init => MajorInv
  BY MajorInit
<1>2. MajorInv /\ [Next]_vars => MajorInv'
  BY MajorStep
<1>3. MajorInv => HeapSound
  BY MajorInvSound
<1> QED BY <1>1, <1>2, <1>3, PTL DEF Spec

-----------------------------------------------------------------------------
(* The number of elements of a set, by either name.                        *)
LEMMA SameCard ==
  ASSUME NEW S
  PROVE  B!Cardinality(S) = Cardinality(S)
BY DEF B!Cardinality, Cardinality

(* Lists of blocks without duplicates: two in one,                         *)
LEMMA ListsJoined ==
  ASSUME NEW S, NEW p \in Seq(S), NEW q \in Seq(S), B!IsInjective(p), B!IsInjective(q),
         B!Range(p) \cap B!Range(q) = {}
  PROVE  /\ p \o q \in Seq(S) /\ B!IsInjective(p \o q) /\ Len(p \o q) = Len(p) + Len(q)
         /\ B!Range(p \o q) = B!Range(p) \cup B!Range(q)
<1> DEFINE r == p \o q
           m == Len(p)
           n == Len(q)
<1>1. m \in Nat /\ n \in Nat /\ DOMAIN p = 1 .. m /\ DOMAIN q = 1 .. n
  OBVIOUS
<1>2. r \in Seq(S) /\ Len(r) = m + n
  OBVIOUS
<1>3. DOMAIN r = 1 .. m + n
  BY <1>2
<1>4. /\ \A i \in 1 .. m : r[i] = p[i]
      /\ \A i \in 1 .. m + n : i > m => r[i] = q[i - m]
  BY <1>1
<1> HIDE DEF r, m, n
<1>5. \A i \in 1 .. m + n : \/ i \in DOMAIN p /\ r[i] = p[i] /\ i <= m
                            \/ i - m \in DOMAIN q /\ r[i] = q[i - m] /\ i > m
  BY <1>1, <1>4
<1>6. \A i \in DOMAIN p, j \in DOMAIN q : p[i] # q[j]
  BY DEF B!Range
<1>7. B!IsInjective(r)
  <2> SUFFICES ASSUME NEW i \in 1 .. m + n, NEW j \in 1 .. m + n, r[i] = r[j]
               PROVE  i = j
    BY <1>3 DEF B!IsInjective
  <2>1. CASE i <= m /\ j <= m
    <3>1. i \in DOMAIN p /\ j \in DOMAIN p /\ p[i] = p[j]
      BY <1>1, <1>4, <2>1
    <3> QED BY <3>1 DEF B!IsInjective
  <2>2. CASE i > m /\ j > m
    <3>1. i - m \in DOMAIN q /\ j - m \in DOMAIN q /\ q[i - m] = q[j - m]
      BY <1>1, <1>5, <2>2
    <3>2. i - m = j - m
      BY <3>1 DEF B!IsInjective
    <3> QED BY <1>1, <3>2
  <2>3. ~(i <= m /\ j > m) /\ ~(i > m /\ j <= m)
    BY <1>1, <1>5, <1>6
  <2> QED BY <1>1, <2>1, <2>2, <2>3
<1>8. \A x \in B!Range(r) : x \in B!Range(p) \cup B!Range(q)
  BY <1>3, <1>5 DEF B!Range
<1>9. \A x \in B!Range(p) \cup B!Range(q) : x \in B!Range(r)
  <2>1. ASSUME NEW i \in DOMAIN p
        PROVE  p[i] \in B!Range(r)
    <3>1. i \in 1 .. m + n /\ r[i] = p[i]
      BY <1>1, <1>4
    <3> QED BY <1>3, <3>1 DEF B!Range
  <2>2. ASSUME NEW i \in DOMAIN q
        PROVE  q[i] \in B!Range(r)
    <3>1. i + m \in 1 .. m + n /\ i + m > m /\ (i + m) - m = i
      BY <1>1
    <3>2. r[i + m] = q[i]
      BY <1>4, <3>1
    <3> QED BY <1>3, <3>1, <3>2 DEF B!Range
  <2> QED BY <2>1, <2>2 DEF B!Range
<1>10. B!Range(r) = B!Range(p) \cup B!Range(q)
  BY <1>8, <1>9
<1> QED BY <1>2, <1>7, <1>10 DEF r, m, n

(* one block,                                                              *)
LEMMA ListOfOne ==
  ASSUME NEW S, NEW b \in S
  PROVE  <<b>> \in Seq(S) /\ B!IsInjective(<<b>>) /\ B!Range(<<b>>) = {b} /\ Len(<<b>>) = 1
BY DEF B!IsInjective, B!Range

(* the rest of a list,                                                     *)
LEMMA ListRest ==
  ASSUME NEW S, NEW q \in Seq(S), q # <<>>, B!IsInjective(q)
  PROVE  /\ Tail(q) \in Seq(S) /\ B!IsInjective(Tail(q)) /\ Len(Tail(q)) = Len(q) - 1
         /\ Head(q) \in S /\ Head(q) \in B!Range(q) /\ B!Range(Tail(q)) = B!Range(q) \ {Head(q)}
<1>1. Len(q) \in Nat /\ Len(q) > 0 /\ DOMAIN q = 1 .. Len(q) /\ Head(q) = q[1] /\ q[1] \in S
  OBVIOUS
<1>2. /\ Tail(q) \in Seq(S) /\ DOMAIN Tail(q) = 1 .. Len(q) - 1 /\ Len(Tail(q)) = Len(q) - 1
      /\ \A i \in 1 .. Len(q) - 1 : Tail(q)[i] = q[i + 1]
  BY <1>1
<1>3. B!IsInjective(Tail(q))
  BY <1>1, <1>2 DEF B!IsInjective
<1>4. \A x \in B!Range(q) \ {Head(q)} : x \in B!Range(Tail(q))
  <2> SUFFICES ASSUME NEW i \in 1 .. Len(q), i # 1
               PROVE  q[i] \in B!Range(Tail(q))
    BY <1>1 DEF B!Range
  <2>1. i - 1 \in 1 .. Len(q) - 1 /\ (i - 1) + 1 = i
    BY <1>1
  <2> QED BY <1>2, <2>1 DEF B!Range
<1>5. \A x \in B!Range(Tail(q)) : x \in B!Range(q) \ {Head(q)}
  <2> SUFFICES ASSUME NEW i \in 1 .. Len(q) - 1
               PROVE  q[i + 1] \in B!Range(q) \ {q[1]}
    BY <1>1, <1>2 DEF B!Range
  <2>1. i + 1 \in DOMAIN q /\ 1 \in DOMAIN q /\ i + 1 # 1
    BY <1>1
  <2> QED BY <2>1 DEF B!Range, B!IsInjective
<1>6. B!Range(Tail(q)) = B!Range(q) \ {Head(q)}
  BY <1>4, <1>5
<1>7. Head(q) \in B!Range(q)
  BY <1>1 DEF B!Range
<1> QED BY <1>1, <1>2, <1>3, <1>6, <1>7

(* and its length.                                                         *)
LEMMA ListLength ==
  ASSUME NEW S, NEW q \in Seq(S), B!IsInjective(q)
  PROVE  IsFiniteSet(B!Range(q)) /\ Cardinality(B!Range(q)) = Len(q)
<1>1. Len(q) \in Nat /\ DOMAIN q = 1 .. Len(q) /\ q \in [1 .. Len(q) -> S]
  OBVIOUS
<1>2. IsFiniteSet(1 .. Len(q)) /\ Cardinality(1 .. Len(q)) = Len(q)
  BY <1>1, FS_Interval
<1>3. q \in [1 .. Len(q) -> B!Range(q)]
  BY <1>1 DEF B!Range
<1>4. q \in Bijection(1 .. Len(q), B!Range(q))
  BY <1>1, <1>3 DEF Bijection, Injection, Surjection, IsInjective, B!IsInjective, B!Range
<1>5. ExistsBijection(1 .. Len(q), B!Range(q))
  BY <1>4 DEF ExistsBijection
<1> QED BY <1>2, <1>5, FS_Bijection

-----------------------------------------------------------------------------
(* The manager, with the blocks it has given away.                         *)
BlockId == B!Chunks \X (1 .. ChunkBlocks)
ManagerRec == [chunks : SUBSET B!Chunks, next : BlockId \cup {B!NoBlock}, count : Nat,
               free : Seq(BlockId)]
Given(m, out) == out \cup B!Range(m.free)
Managed(m, out) ==
  /\ m \in ManagerRec
  /\ IsFiniteSet(out) /\ out \subseteq BlockId
  /\ B!IsInjective(m.free) /\ B!Range(m.free) \cap out = {}
  /\ m.count = Cardinality(out) + Len(m.free)
  /\ \A b \in Given(m, out) : b[1] \in m.chunks /\ (b[1] = m.next[1] => b[2] < m.next[2])
  /\ m.next # B!NoBlock => m.next[1] \in m.chunks
Thrifty(m, out) == Managed(m, out) /\ (out = {} => m.chunks = {})

(* The chunk of a new block is one that is not in use.                     *)
LEMMA NewChunk ==
  ASSUME B!BlocksValid, NEW U \in SUBSET B!Chunks, U # B!Chunks
  PROVE  LET c == CHOOSE x \in B!Chunks \ U : \A d \in B!Chunks \ U : x <= d
         IN  c \in B!Chunks \ U
<1> DEFINE T == B!Chunks \ U
           R == {ss \in Nat \X Nat : ss[1] < ss[2]}
<1>1. T # {} /\ T \subseteq Nat
  <2>1. B!Chunks \subseteq Nat
    BY DEF B!Chunks, B!BlocksValid
  <2> QED BY <2>1
<1>2. IsWellFoundedOn(R, Nat)
  BY NatLessThanWellFounded DEF OpToRel
<1> HIDE DEF T, R
<1>3. PICK x \in T : \A y \in T : ~ (<<y, x>> \in R)
  BY <1>1, <1>2, WFMin
<1>4. \A y \in T : x <= y
  <2> TAKE y \in T
  <2>1. ~(<<y, x>> \in R) /\ x \in Nat /\ y \in Nat
    BY <1>1, <1>3
  <2>2. <<y, x>>[1] = y /\ <<y, x>>[2] = x
    OBVIOUS
  <2>3. ~(y < x)
    BY <2>1, <2>2 DEF R
  <2> QED BY <2>1, <2>3
<1>5. (CHOOSE z \in T : \A d \in T : z <= d) \in T
  BY <1>3, <1>4
<1> QED BY <1>5 DEF T

(* There is one if a block can be allocated and no other is left.          *)
LEMMA ChunkLeft ==
  ASSUME B!BlocksValid, NEW m \in ManagerRec, B!CanAlloc(m, 1), m.free = <<>>,
         m.next = B!NoBlock
  PROVE  m.chunks # B!Chunks
<1> SUFFICES ASSUME m.chunks = B!Chunks
             PROVE  FALSE
  OBVIOUS
<1>1. Cardinality(B!Chunks) = MaxChunks
  BY FS_Interval DEF B!Chunks, B!BlocksValid
<1>2. Len(m.free) = 0
  OBVIOUS
<1>3. ChunkBlocks * (MaxChunks - Cardinality(m.chunks)) = 0
  BY <1>1 DEF B!BlocksValid
<1>4. (IF m.next = B!NoBlock THEN 0 ELSE 1 + (ChunkBlocks - m.next[2])) = 0
  OBVIOUS
<1> DEFINE x == ChunkBlocks * (MaxChunks - Cardinality(m.chunks))
           y == IF m.next = B!NoBlock THEN 0 ELSE 1 + (ChunkBlocks - m.next[2])
<1>5. Len(m.free) + y + x >= 1
  BY SameCard DEF B!CanAlloc
<1>6. x = 0 /\ y = 0
  BY <1>3, <1>4
<1> HIDE DEF x, y
<1> QED BY <1>2, <1>5, <1>6

(* A block that is allocated is a new one, or was free.                    *)
LEMMA Allocated ==
  ASSUME B!BlocksValid, NEW m, NEW out, Managed(m, out), B!CanAlloc(m, 1)
  PROVE  /\ B!Alloc(m).b \in BlockId \ out
         /\ Thrifty(B!Alloc(m).m, out \cup {B!Alloc(m).b})
<1>1. /\ m \in ManagerRec /\ m.free \in Seq(BlockId) /\ IsFiniteSet(out) /\ out \subseteq BlockId
      /\ m.next \in BlockId \cup {B!NoBlock} /\ m.chunks \subseteq B!Chunks /\ m.count \in Nat
      /\ B!IsInjective(m.free) /\ B!Range(m.free) \cap out = {}
      /\ m.count = Cardinality(out) + Len(m.free)
  BY DEF Managed, ManagerRec
<1>2. \A b \in Given(m, out) : b[1] \in m.chunks /\ (b[1] = m.next[1] => b[2] < m.next[2])
  BY DEF Managed
<1>3. m.next # B!NoBlock => m.next[1] \in m.chunks
  BY DEF Managed
<1>4. Cardinality(out) \in Nat /\ ChunkBlocks \in Nat \ {0} /\ MaxChunks \in Nat
  BY <1>1, FS_CardinalityType DEF B!BlocksValid
<1>5. CASE m.free # <<>>
  <2> DEFINE b == Head(m.free)
             g == [m EXCEPT !.free = Tail(m.free)]
  <2>1. B!Alloc(m) = [m |-> g, b |-> b]
    BY <1>5 DEF B!Alloc
  <2>2. /\ Tail(m.free) \in Seq(BlockId) /\ B!IsInjective(Tail(m.free))
        /\ Len(Tail(m.free)) = Len(m.free) - 1 /\ Len(m.free) \in Nat
        /\ b \in BlockId /\ b \in B!Range(m.free)
        /\ B!Range(Tail(m.free)) = B!Range(m.free) \ {b}
    BY <1>1, <1>5, ListRest
  <2>3. /\ g \in ManagerRec /\ g.free = Tail(m.free) /\ g.next = m.next /\ g.chunks = m.chunks
        /\ g.count = m.count
    BY <1>1, <2>2 DEF ManagerRec
  <2> HIDE DEF b, g
  <2>4. b \notin out
    BY <1>1, <2>2
  <2>5. IsFiniteSet(out \cup {b}) /\ Cardinality(out \cup {b}) = Cardinality(out) + 1
    BY <1>1, <2>4, FS_AddElement
  <2>6. g.count = Cardinality(out \cup {b}) + Len(g.free)
    BY <1>1, <1>4, <2>2, <2>3, <2>5
  <2>7. Given(g, out \cup {b}) = Given(m, out)
    BY <2>2, <2>3 DEF Given
  <2>8. Managed(g, out \cup {b})
    BY <1>1, <1>2, <1>3, <2>2, <2>3, <2>5, <2>6, <2>7 DEF Managed
  <2> QED BY <2>1, <2>2, <2>4, <2>8 DEF Thrifty
<1>6. CASE m.free = <<>>
  <2> DEFINE c == CHOOSE x \in B!Chunks \ m.chunks : \A d \in B!Chunks \ m.chunks : x <= d
             new == m.next = B!NoBlock
             b == IF new THEN <<c, 1>> ELSE m.next
             cs == IF new THEN m.chunks \cup {c} ELSE m.chunks
             g == [m EXCEPT !.next = B!After(b), !.count = m.count + 1, !.chunks = cs]
  <2>1. B!Alloc(m) = [m |-> g, b |-> b]
    BY <1>6 DEF B!Alloc, B!Fresh
  <2>2. new => c \in B!Chunks \ m.chunks
    BY <1>1, <1>6, ChunkLeft, NewChunk
  <2> HIDE DEF c
  <2>3. b \in BlockId /\ cs \subseteq B!Chunks /\ b[1] \in cs /\ m.chunks \subseteq cs
    BY <1>1, <1>3, <1>4, <2>2 DEF BlockId
  <2>4. \A x \in out : x[1] = b[1] => x[2] < b[2]
    BY <1>2, <2>2, <2>3 DEF Given
  <2> HIDE DEF b, cs
  <2>5. b[1] \in B!Chunks /\ b[2] \in 1 .. ChunkBlocks /\ b = <<b[1], b[2]>>
    BY <2>3 DEF BlockId
  <2>6. b \notin out
    BY <2>4, <2>5
  <2>7. /\ B!After(b) \in BlockId \cup {B!NoBlock}
        /\ B!After(b) # B!NoBlock => B!After(b) = <<b[1], b[2] + 1>>
        /\ B!NoBlock[1] = 0 /\ 0 \notin B!Chunks
    BY <1>4, <2>5 DEF B!After, BlockId, B!NoBlock, B!Chunks
  <2>8. /\ g \in ManagerRec /\ g.free = <<>> /\ g.next = B!After(b) /\ g.chunks = cs
        /\ g.count = m.count + 1
    <3>1. /\ g.free = m.free /\ g.next = B!After(b) /\ g.chunks = cs /\ g.count = m.count + 1
          /\ DOMAIN g = DOMAIN m
      BY <1>1 DEF ManagerRec
    <3>2. m.count + 1 \in Nat
      BY <1>1
    <3>3. g \in ManagerRec
      BY <1>1, <2>3, <2>7, <3>2 DEF ManagerRec
    <3> QED BY <1>6, <3>1, <3>3
  <2> HIDE DEF g
  <2>9. IsFiniteSet(out \cup {b}) /\ Cardinality(out \cup {b}) = Cardinality(out) + 1
    BY <1>1, <2>6, FS_AddElement
  <2>10. B!Range(<<>>) = {} /\ B!IsInjective(<<>>) /\ Len(<<>>) = 0
    BY DEF B!Range, B!IsInjective
  <2>11. g.count = Cardinality(out \cup {b}) + Len(g.free)
    BY <1>1, <1>4, <1>6, <2>8, <2>9, <2>10
  <2>12. Given(g, out \cup {b}) = out \cup {b} /\ Given(m, out) = out
    BY <1>6, <2>8, <2>10 DEF Given
  <2>13. ASSUME NEW x \in out \cup {b}
         PROVE  x[1] \in g.chunks /\ (x[1] = g.next[1] => x[2] < g.next[2])
    <3>1. x[1] \in cs /\ x[1] # 0 /\ x[2] \in Nat
      BY <1>1, <1>2, <2>3, <2>5, <2>7, <2>12 DEF BlockId
    <3>2. x[1] = b[1] => x[2] <= b[2]
      BY <2>4, <2>5, <3>1
    <3>3. CASE g.next = B!NoBlock
      BY <2>7, <2>8, <3>1, <3>3
    <3>4. CASE g.next = <<b[1], b[2] + 1>>
      <4>1. g.next[1] = b[1] /\ g.next[2] = b[2] + 1
        BY <3>4
      <4> QED BY <2>5, <2>8, <3>1, <3>2, <4>1
    <3> QED BY <2>7, <2>8, <3>3, <3>4
  <2>14. g.next # B!NoBlock => g.next[1] \in g.chunks
    BY <2>3, <2>7, <2>8
  <2>15. Managed(g, out \cup {b})
    BY <1>1, <2>3, <2>8, <2>9, <2>10, <2>11, <2>12, <2>13, <2>14 DEF Managed
  <2> QED BY <2>1, <2>3, <2>6, <2>15 DEF Thrifty
<1> QED BY <1>5, <1>6

(* The chunks go when nothing is in use.                                   *)
LEMMA ChunksFreed ==
  ASSUME NEW m, NEW out, Managed(m, out)
  PROVE  Thrifty(B!FreeChunkList(m), out)
<1>1. m \in ManagerRec /\ IsFiniteSet(out) /\ m.count = Cardinality(out) + Len(m.free)
      /\ m.free \in Seq(BlockId)
  BY DEF Managed, ManagerRec
<1>2. Cardinality(out) \in Nat /\ Len(m.free) \in Nat /\ (Cardinality(out) = 0 <=> out = {})
  BY <1>1, FS_CardinalityType, FS_EmptySet
<1>3. CASE m.count = Len(m.free)
  <2> DEFINE g == [chunks |-> {}, next |-> B!NoBlock, count |-> 0, free |-> <<>>]
  <2>1. out = {} /\ B!FreeChunkList(m) = g
    BY <1>1, <1>2, <1>3 DEF B!FreeChunkList
  <2>2. /\ g \in ManagerRec /\ g.free = <<>> /\ g.chunks = {} /\ g.next = B!NoBlock /\ g.count = 0
        /\ B!Range(<<>>) = {} /\ B!IsInjective(<<>>) /\ Len(<<>>) = 0
    BY DEF ManagerRec, B!Range, B!IsInjective
  <2> HIDE DEF g
  <2>3. Managed(g, {})
    BY <1>1, <1>2, <2>1, <2>2 DEF Managed, Given
  <2> QED BY <2>1, <2>2, <2>3 DEF Thrifty
<1>4. CASE m.count # Len(m.free)
  BY <1>1, <1>2, <1>4 DEF B!FreeChunkList, Thrifty
<1> QED BY <1>3, <1>4

(* Blocks that are given back are free.                                    *)
LEMMA Returned ==
  ASSUME NEW m, NEW out, Managed(m, out), NEW q \in Seq(BlockId), B!IsInjective(q),
         NEW S \in SUBSET out, B!Range(q) = B!Range(m.free) \cup S,
         Len(q) = Len(m.free) + Cardinality(S)
  PROVE  Managed([m EXCEPT !.free = q], out \ S)
<1> DEFINE g == [m EXCEPT !.free = q]
<1>1. /\ m \in ManagerRec /\ IsFiniteSet(out) /\ out \subseteq BlockId /\ m.count \in Nat
      /\ m.count = Cardinality(out) + Len(m.free) /\ B!Range(m.free) \cap out = {}
      /\ Len(m.free) \in Nat
  BY DEF Managed, ManagerRec
<1>2. g \in ManagerRec /\ g.free = q /\ g.next = m.next /\ g.chunks = m.chunks /\ g.count = m.count
  BY <1>1 DEF ManagerRec
<1> HIDE DEF g
<1>3. /\ IsFiniteSet(S) /\ IsFiniteSet(out \ S)
      /\ Cardinality(out \ S) = Cardinality(out) - Cardinality(S)
      /\ Cardinality(S) \in Nat /\ Cardinality(out) \in Nat
  <2>1. out \cap S = S
    OBVIOUS
  <2>2. IsFiniteSet(S)
    BY <1>1, FS_Subset
  <2>3. /\ IsFiniteSet(out \ S)
        /\ Cardinality(out \ S) = Cardinality(out) - Cardinality(out \cap S)
    BY <1>1, FS_Difference
  <2>4. Cardinality(S) \in Nat /\ Cardinality(out) \in Nat
    BY <1>1, <2>2, FS_CardinalityType
  <2> QED BY <2>1, <2>2, <2>3, <2>4
<1>4. g.count = Cardinality(out \ S) + Len(g.free)
  BY <1>1, <1>2, <1>3
<1>5. Given(g, out \ S) = Given(m, out)
  BY <1>2 DEF Given
<1>6. B!Range(g.free) \cap (out \ S) = {}
  BY <1>1, <1>2
<1>7. Managed(g, out \ S)
  BY <1>1, <1>2, <1>3, <1>4, <1>5, <1>6 DEF Managed
<1> QED BY <1>7 DEF g

(* chiBlockManagerFree                                                     *)
LEMMA BlockFreed ==
  ASSUME NEW m, NEW out, Managed(m, out), NEW b \in out
  PROVE  Thrifty(B!FreeBlock(m, b), out \ {b})
<1>1. /\ m.free \in Seq(BlockId) /\ B!IsInjective(m.free) /\ b \in BlockId
      /\ {b} \cap B!Range(m.free) = {}
  BY DEF Managed, ManagerRec
<1>2. <<b>> \in Seq(BlockId) /\ B!IsInjective(<<b>>) /\ B!Range(<<b>>) = {b} /\ Len(<<b>>) = 1
  BY <1>1, ListOfOne
<1> DEFINE p == <<b>>
           q == p \o m.free
<1>3. /\ q \in Seq(BlockId) /\ B!IsInjective(q) /\ Len(q) = Len(p) + Len(m.free)
      /\ B!Range(q) = B!Range(p) \cup B!Range(m.free)
  <2>1. p \in Seq(BlockId) /\ B!IsInjective(p) /\ B!Range(p) \cap B!Range(m.free) = {}
    BY <1>1, <1>2
  <2> HIDE DEF p
  <2> QED BY <1>1, <2>1, ListsJoined
<1> HIDE DEF q
<1>4. Len(q) = Len(m.free) + Cardinality({b}) /\ B!Range(q) = B!Range(m.free) \cup {b}
  <2>1. Len(m.free) \in Nat
    BY <1>1
  <2>2. Cardinality({b}) = 1
    BY FS_Singleton
  <2> QED BY <1>2, <1>3, <2>1, <2>2
<1>5. Managed([m EXCEPT !.free = q], out \ {b})
  BY <1>3, <1>4, Returned
<1> QED BY <1>5, ChunksFreed DEF B!FreeBlock, q

(* chiBlockManagerFreeList                                                 *)
LEMMA BlocksFreed ==
  ASSUME NEW m, NEW out, Thrifty(m, out), NEW s \in Seq(BlockId), B!IsInjective(s),
         B!Range(s) \subseteq out
  PROVE  Thrifty(B!FreeBlocks(m, s), out \ B!Range(s))
<1>1. CASE s = <<>>
  <2>1. B!Range(s) = {}
    BY <1>1 DEF B!Range
  <2>2. out \ B!Range(s) = out
    BY <2>1
  <2> QED BY <1>1, <2>2 DEF B!FreeBlocks
<1>2. CASE s # <<>>
  <2>1. /\ Managed(m, out) /\ m.free \in Seq(BlockId) /\ B!IsInjective(m.free)
        /\ B!Range(m.free) \cap B!Range(s) = {}
    BY DEF Thrifty, Managed, ManagerRec
  <2> DEFINE q == m.free \o s
  <2>2. /\ q \in Seq(BlockId) /\ B!IsInjective(q) /\ Len(q) = Len(m.free) + Len(s)
        /\ B!Range(q) = B!Range(m.free) \cup B!Range(s)
    BY <2>1, ListsJoined
  <2> HIDE DEF q
  <2>3. Len(q) = Len(m.free) + Cardinality(B!Range(s))
    BY <2>2, ListLength
  <2>4. Managed([m EXCEPT !.free = q], out \ B!Range(s))
    BY <2>1, <2>2, <2>3, Returned
  <2> QED BY <1>2, <2>4, ChunksFreed DEF B!FreeBlocks, q
<1> QED BY <1>1, <1>2
-----------------------------------------------------------------------------
(* The blocks of a vector with their elements.                             *)
VecNode == [block : BlockId, elems : Seq(Elems)]
Nodes(p) == p \in Seq(VecNode) /\ B!IsInjective(B!BlocksOf(p))
NoneEmpty(p) == \A i \in DOMAIN p : p[i].elems # <<>>
Whole(p) == Nodes(p) /\ (NoneEmpty(p) \/ Len(p) = 1)
BlocksIn(p) == B!Range(B!BlocksOf(p))
Num(p, e) == Cardinality(B!Found(p, e))

(* The blocks are a list of the same length.                               *)
LEMMA BlockList ==
  ASSUME NEW p \in Seq(VecNode)
  PROVE  /\ B!BlocksOf(p) \in Seq(BlockId) /\ Len(B!BlocksOf(p)) = Len(p)
         /\ DOMAIN B!BlocksOf(p) = 1 .. Len(p)
         /\ \A i \in 1 .. Len(p) : B!BlocksOf(p)[i] = p[i].block
<1>1. Len(p) \in Nat /\ DOMAIN p = 1 .. Len(p) /\ \A i \in 1 .. Len(p) : p[i] \in VecNode
  OBVIOUS
<1>2. B!BlocksOf(p) = [i \in 1 .. Len(p) |-> p[i].block]
  BY <1>1 DEF B!BlocksOf
<1>3. \A i \in 1 .. Len(p) : p[i].block \in BlockId
  BY <1>1 DEF VecNode
<1>4. [i \in 1 .. Len(p) |-> p[i].block] \in [1 .. Len(p) -> BlockId]
  BY <1>3
<1> QED BY <1>1, <1>2, <1>4

(* How often an element is in a block is a number.                         *)
LEMMA TimesNat ==
  ASSUME NEW s \in Seq(Elems), NEW e
  PROVE  /\ IsFiniteSet({i \in DOMAIN s : s[i] = e})
         /\ B!Times(s, e) = Cardinality({i \in DOMAIN s : s[i] = e}) /\ B!Times(s, e) \in Nat
<1>1. Len(s) \in Nat /\ DOMAIN s = 1 .. Len(s)
  OBVIOUS
<1>2. IsFiniteSet(DOMAIN s)
  BY <1>1, FS_Interval
<1>3. IsFiniteSet({i \in DOMAIN s : s[i] = e})
  BY <1>2, FS_Subset
<1> QED BY <1>3, FS_CardinalityType, SameCard DEF B!Times

(* So is how often it is in a vector.                                      *)
LEMMA NumNat ==
  ASSUME NEW p \in Seq(VecNode), NEW e
  PROVE  IsFiniteSet(B!Found(p, e)) /\ Num(p, e) \in Nat
<1> DEFINE places(i) == {i} \X DOMAIN p[i].elems
           S == {places(i) : i \in DOMAIN p}
           f == [i \in DOMAIN p |-> places(i)]
<1>1. Len(p) \in Nat /\ DOMAIN p = 1 .. Len(p) /\ \A i \in DOMAIN p : p[i] \in VecNode
  OBVIOUS
<1>2. IsFiniteSet(DOMAIN p)
  BY <1>1, FS_Interval
<1>3. f \in Surjection(DOMAIN p, S)
  BY DEF Surjection
<1>4. IsFiniteSet(S)
  <2> HIDE DEF f, S
  <2> QED BY <1>2, <1>3, FS_Surjection
<1>5. ASSUME NEW i \in DOMAIN p
      PROVE  IsFiniteSet(places(i))
  <2> DEFINE D == DOMAIN p[i].elems
  <2>1. p[i].elems \in Seq(Elems)
    BY <1>1 DEF VecNode
  <2>2. D = 1 .. Len(p[i].elems) /\ Len(p[i].elems) \in Nat
    BY <2>1
  <2>3. IsFiniteSet(D) /\ IsFiniteSet({i})
    <3>1. IsFiniteSet(1 .. Len(p[i].elems))
      BY <2>2, FS_Interval
    <3> QED BY <2>2, <3>1, FS_Singleton
  <2> HIDE DEF D
  <2>4. IsFiniteSet({i} \X D)
    BY <2>3, FS_Product
  <2> QED BY <2>4 DEF D
<1>6. IsFiniteSet(UNION S)
  <2>1. \A T \in S : IsFiniteSet(T)
    BY <1>5
  <2> HIDE DEF S
  <2> QED BY <1>4, <2>1, FS_UNION
<1>7. B!Found(p, e) \subseteq UNION S
  BY DEF B!Found
<1>8. IsFiniteSet(B!Found(p, e))
  BY <1>6, <1>7, FS_Subset
<1> QED BY <1>8, FS_CardinalityType DEF Num

(* A place in a vector.                                                    *)
LEMMA FoundIn ==
  ASSUME NEW p \in Seq(VecNode), NEW e
  PROVE  /\ \A x \in B!Found(p, e) :
              /\ x = <<x[1], x[2]>> /\ x[1] \in 1 .. Len(p)
              /\ x[2] \in DOMAIN p[x[1]].elems /\ p[x[1]].elems[x[2]] = e
         /\ \A i \in 1 .. Len(p) : \A j \in DOMAIN p[i].elems :
              p[i].elems[j] = e => <<i, j>> \in B!Found(p, e)
<1>1. Len(p) \in Nat /\ DOMAIN p = 1 .. Len(p)
  OBVIOUS
<1> QED BY <1>1 DEF B!Found

(* Two vectors in one: the blocks and the elements of both.                *)
LEMMA NumJoined ==
  ASSUME NEW p \in Seq(VecNode), NEW q \in Seq(VecNode), NEW e
  PROVE  Num(p \o q, e) = Num(p, e) + Num(q, e)
<1> DEFINE r == p \o q
           m == Len(p)
           n == Len(q)
           F == B!Found(p, e)
           G == B!Found(q, e)
           f == [x \in G |-> <<x[1] + m, x[2]>>]
           H == {f[x] : x \in G}
<1>1. /\ r \in Seq(VecNode) /\ m \in Nat /\ n \in Nat /\ Len(r) = m + n
      /\ \A i \in 1 .. m : r[i] = p[i]
      /\ \A i \in 1 .. m + n : i > m => r[i] = q[i - m]
      /\ \A i \in 1 .. n : r[i + m] = q[i]
  OBVIOUS
<1> HIDE DEF r, m, n
<1>2. /\ \A x \in F : /\ x = <<x[1], x[2]>> /\ x[1] \in 1 .. m
                      /\ x[2] \in DOMAIN p[x[1]].elems /\ p[x[1]].elems[x[2]] = e
      /\ \A i \in 1 .. m : \A j \in DOMAIN p[i].elems : p[i].elems[j] = e => <<i, j>> \in F
  BY FoundIn DEF m
<1>3. /\ \A x \in G : /\ x = <<x[1], x[2]>> /\ x[1] \in 1 .. n
                      /\ x[2] \in DOMAIN q[x[1]].elems /\ q[x[1]].elems[x[2]] = e
      /\ \A i \in 1 .. n : \A j \in DOMAIN q[i].elems : q[i].elems[j] = e => <<i, j>> \in G
  BY FoundIn DEF n
<1>4. /\ \A x \in B!Found(r, e) :
           /\ x = <<x[1], x[2]>> /\ x[1] \in 1 .. m + n
           /\ x[2] \in DOMAIN r[x[1]].elems /\ r[x[1]].elems[x[2]] = e
      /\ \A i \in 1 .. m + n : \A j \in DOMAIN r[i].elems :
           r[i].elems[j] = e => <<i, j>> \in B!Found(r, e)
  <2>1. r \in Seq(VecNode) /\ 1 .. Len(r) = 1 .. m + n
    BY <1>1
  <2>2. /\ \A x \in B!Found(r, e) :
              /\ x = <<x[1], x[2]>> /\ x[1] \in 1 .. Len(r)
              /\ x[2] \in DOMAIN r[x[1]].elems /\ r[x[1]].elems[x[2]] = e
        /\ \A i \in 1 .. Len(r) : \A j \in DOMAIN r[i].elems :
              r[i].elems[j] = e => <<i, j>> \in B!Found(r, e)
    BY <2>1, FoundIn
  <2> QED BY <2>1, <2>2
<1>5. IsFiniteSet(F) /\ IsFiniteSet(G) /\ Cardinality(F) \in Nat /\ Cardinality(G) \in Nat
  BY NumNat DEF Num
<1> HIDE DEF F, G
<1>6. IsFiniteSet(H) /\ Cardinality(H) = Cardinality(G)
  <2>1. ASSUME NEW x \in G, NEW y \in G, f[x] = f[y]
        PROVE  x = y
    <3>1. x[1] + m = y[1] + m /\ x[2] = y[2]
      BY <2>1
    <3>2. x[1] = y[1]
      BY <1>1, <1>3, <3>1
    <3> QED BY <1>3, <3>1, <3>2
  <2>2. f \in [G -> H] /\ \A y \in H : \E x \in G : f[x] = y
    OBVIOUS
  <2> HIDE DEF f, H
  <2>3. f \in Bijection(G, H)
    BY <2>1, <2>2 DEF Bijection, Injection, Surjection, IsInjective
  <2>4. ExistsBijection(G, H)
    BY <2>3 DEF ExistsBijection
  <2> QED BY <1>5, <2>4, FS_Bijection
<1>7. \A x \in H : x = <<x[1], x[2]>> /\ x[1] \in 1 .. m + n /\ x[1] > m /\ <<x[1] - m, x[2]>> \in G
  <2> SUFFICES ASSUME NEW y \in G
               PROVE  /\ y[1] + m \in 1 .. m + n /\ y[1] + m > m
                      /\ <<(y[1] + m) - m, y[2]>> \in G
    OBVIOUS
  <2>1. (y[1] + m) - m = y[1] /\ y[1] \in 1 .. n
    BY <1>1, <1>3
  <2>2. <<(y[1] + m) - m, y[2]>> = y
    BY <1>3, <2>1
  <2>3. y[1] + m \in 1 .. m + n /\ y[1] + m > m
    BY <1>1, <2>1
  <2> QED BY <2>2, <2>3
<1>8. \A x \in G : <<x[1] + m, x[2]>> \in H
  OBVIOUS
<1> HIDE DEF H, f
<1>9. F \cap H = {}
  <2> SUFFICES ASSUME NEW x \in F, x \in H
               PROVE  FALSE
    OBVIOUS
  <2>1. x[1] \in 1 .. m /\ x[1] > m
    BY <1>2, <1>7
  <2> QED BY <1>1, <2>1
<1>10. \A x \in B!Found(r, e) : x \in F \cup H
  <2> TAKE x \in B!Found(r, e)
  <2>1. CASE x[1] <= m
    <3>1. x[1] \in 1 .. m
      BY <1>1, <1>4, <2>1
    <3> QED BY <1>1, <1>2, <1>4, <3>1
  <2>2. CASE x[1] > m
    <3>1. x[1] - m \in 1 .. n /\ r[x[1]] = q[x[1] - m] /\ (x[1] - m) + m = x[1]
      BY <1>1, <1>4, <2>2
    <3>2. <<x[1] - m, x[2]>> \in G
      BY <1>3, <1>4, <3>1
    <3>3. <<(x[1] - m) + m, x[2]>> \in H
      BY <1>8, <3>2
    <3> QED BY <1>4, <3>1, <3>3
  <2> QED BY <1>1, <1>4, <2>1, <2>2
<1>11. \A x \in F : x \in B!Found(r, e)
  <2> TAKE x \in F
  <2>1. x[1] \in 1 .. m + n /\ r[x[1]] = p[x[1]]
    BY <1>1, <1>2
  <2> QED BY <1>2, <1>4, <2>1
<1>12. \A x \in H : x \in B!Found(r, e)
  <2> TAKE x \in H
  <2>1. r[x[1]] = q[x[1] - m]
    BY <1>1, <1>7
  <2>2. x[2] \in DOMAIN q[x[1] - m].elems /\ q[x[1] - m].elems[x[2]] = e
    <3> DEFINE y == <<x[1] - m, x[2]>>
    <3>1. y \in G /\ y[1] = x[1] - m /\ y[2] = x[2]
      BY <1>7
    <3> HIDE DEF y
    <3> QED BY <1>3, <3>1
  <2> QED BY <1>4, <1>7, <2>1, <2>2
<1>13. B!Found(r, e) = F \cup H
  BY <1>10, <1>11, <1>12
<1>14. Cardinality(F \cup H) = Cardinality(F) + Cardinality(H) - Cardinality(F \cap H)
  BY <1>5, <1>6, FS_Union
<1>15. Cardinality(F \cap H) = 0
  BY <1>9, FS_EmptySet
<1> QED BY <1>5, <1>6, <1>13, <1>14, <1>15 DEF Num, F, G, r

(* A vector of one block,                                                  *)
LEMMA NumOne ==
  ASSUME NEW n \in VecNode, NEW e
  PROVE  Num(<<n>>, e) = B!Times(n.elems, e)
<1> DEFINE p == <<n>>
           T == {i \in DOMAIN n.elems : n.elems[i] = e}
           f == [i \in T |-> <<1, i>>]
<1>1. p \in Seq(VecNode) /\ Len(p) = 1 /\ p[1] = n
  OBVIOUS
<1>2. n.elems \in Seq(Elems)
  BY DEF VecNode
<1>3. IsFiniteSet(T) /\ B!Times(n.elems, e) = Cardinality(T)
  BY <1>2, TimesNat
<1> HIDE DEF p
<1>4. /\ \A x \in B!Found(p, e) : x = <<x[1], x[2]>> /\ x[1] = 1 /\ x[2] \in T
      /\ \A i \in T : <<1, i>> \in B!Found(p, e)
  BY <1>1, FoundIn
<1>5. /\ f \in [T -> B!Found(p, e)]
      /\ \A i \in T, j \in T : f[i] = f[j] => i = j
      /\ \A x \in B!Found(p, e) : \E i \in T : f[i] = x
  BY <1>4
<1> HIDE DEF f, T
<1>6. f \in Bijection(T, B!Found(p, e))
  BY <1>5 DEF Bijection, Injection, Surjection, IsInjective
<1>7. ExistsBijection(T, B!Found(p, e))
  BY <1>6 DEF ExistsBijection
<1>8. Cardinality(B!Found(p, e)) = Cardinality(T)
  BY <1>3, <1>7, FS_Bijection
<1> QED BY <1>3, <1>8 DEF Num, p

(* and one without any.                                                    *)
LEMMA NumNone ==
  ASSUME NEW e
  PROVE  Num(<<>>, e) = 0 /\ BlocksIn(<<>>) = {} /\ Nodes(<<>>) /\ NoneEmpty(<<>>)
<1>1. B!Found(<<>>, e) = {}
  BY DEF B!Found
<1>2. Num(<<>>, e) = 0
  BY <1>1, FS_EmptySet DEF Num
<1> QED BY <1>2 DEF BlocksIn, Nodes, NoneEmpty, B!Range, B!IsInjective, B!BlocksOf

(* Vectors are joined,                                                     *)
LEMMA NodesJoined ==
  ASSUME NEW p, NEW q, Nodes(p), Nodes(q), BlocksIn(p) \cap BlocksIn(q) = {}
  PROVE  /\ Nodes(p \o q) /\ Len(p \o q) = Len(p) + Len(q)
         /\ BlocksIn(p \o q) = BlocksIn(p) \cup BlocksIn(q)
         /\ NoneEmpty(p \o q) <=> NoneEmpty(p) /\ NoneEmpty(q)
         /\ \A e : Num(p \o q, e) = Num(p, e) + Num(q, e)
<1> DEFINE r == p \o q
           m == Len(p)
           n == Len(q)
           bp == B!BlocksOf(p)
           bq == B!BlocksOf(q)
<1>1. /\ p \in Seq(VecNode) /\ q \in Seq(VecNode) /\ B!IsInjective(bp) /\ B!IsInjective(bq)
      /\ B!Range(bp) \cap B!Range(bq) = {}
  BY DEF Nodes, BlocksIn
<1>2. /\ r \in Seq(VecNode) /\ m \in Nat /\ n \in Nat /\ Len(r) = m + n
      /\ DOMAIN r = 1 .. m + n /\ DOMAIN p = 1 .. m /\ DOMAIN q = 1 .. n
      /\ \A i \in 1 .. m : r[i] = p[i]
      /\ \A i \in 1 .. m + n : i > m => r[i] = q[i - m]
      /\ \A i \in 1 .. n : r[i + m] = q[i]
  BY <1>1
<1>3. /\ bp \in Seq(BlockId) /\ Len(bp) = m /\ \A i \in 1 .. m : bp[i] = p[i].block
      /\ bq \in Seq(BlockId) /\ Len(bq) = n /\ \A i \in 1 .. n : bq[i] = q[i].block
  BY <1>1, BlockList
<1> HIDE DEF r, m, n
<1>4. /\ B!BlocksOf(r) \in Seq(BlockId) /\ Len(B!BlocksOf(r)) = m + n
      /\ \A i \in 1 .. m + n : B!BlocksOf(r)[i] = r[i].block
  <2>1. /\ B!BlocksOf(r) \in Seq(BlockId) /\ Len(B!BlocksOf(r)) = Len(r)
        /\ \A i \in 1 .. Len(r) : B!BlocksOf(r)[i] = r[i].block
    BY <1>2, BlockList
  <2> QED BY <1>2, <2>1
<1>5. B!BlocksOf(r) = bp \o bq
  <2> DEFINE br == B!BlocksOf(r)
             bs == bp \o bq
  <2>1. bs \in Seq(BlockId) /\ Len(bs) = m + n
    BY <1>3
  <2>2. /\ \A i \in 1 .. m : bs[i] = bp[i]
        /\ \A i \in 1 .. m + n : i > m => bs[i] = bq[i - m]
    BY <1>2, <1>3
  <2> HIDE DEF br, bs, bp, bq
  <2>3. \A i \in 1 .. m + n : br[i] = bs[i]
    <3> TAKE i \in 1 .. m + n
    <3>1. br[i] = r[i].block
      BY <1>4 DEF br
    <3>2. CASE i <= m
      BY <1>2, <1>3, <2>2, <3>1, <3>2
    <3>3. CASE i > m
      <4>1. i - m \in 1 .. n
        BY <1>2, <3>3
      <4> QED BY <1>2, <1>3, <2>2, <3>1, <3>3, <4>1
    <3> QED BY <1>2, <3>2, <3>3
  <2>4. br \in Seq(BlockId) /\ Len(br) = m + n
    BY <1>4 DEF br
  <2>5. br = bs
    BY <2>1, <2>3, <2>4
  <2> QED BY <2>5 DEF br, bs
<1> HIDE DEF bp, bq
<1>6. /\ B!IsInjective(B!BlocksOf(r))
      /\ B!Range(B!BlocksOf(r)) = B!Range(bp) \cup B!Range(bq)
  BY <1>1, <1>3, <1>5, ListsJoined
<1>7. NoneEmpty(r) <=> NoneEmpty(p) /\ NoneEmpty(q)
  <2>1. ASSUME NoneEmpty(p), NoneEmpty(q), NEW i \in 1 .. m + n
        PROVE  r[i].elems # <<>>
    <3>1. CASE i <= m
      <4>1. i \in DOMAIN p /\ r[i] = p[i]
        BY <1>2, <3>1
      <4> QED BY <2>1, <4>1 DEF NoneEmpty
    <3>2. CASE i > m
      <4>1. i - m \in DOMAIN q /\ r[i] = q[i - m]
        BY <1>2, <3>2
      <4> QED BY <2>1, <4>1 DEF NoneEmpty
    <3> QED BY <1>2, <3>1, <3>2
  <2>2. ASSUME NoneEmpty(r), NEW i \in 1 .. m
        PROVE  p[i].elems # <<>>
    <3>1. i \in 1 .. m + n
      BY <1>2
    <3> QED BY <1>2, <2>2, <3>1 DEF NoneEmpty
  <2>3. ASSUME NoneEmpty(r), NEW i \in 1 .. n
        PROVE  q[i].elems # <<>>
    <3>1. i + m \in 1 .. m + n
      BY <1>2
    <3> QED BY <1>2, <2>3, <3>1 DEF NoneEmpty
  <2> QED BY <1>2, <2>1, <2>2, <2>3 DEF NoneEmpty
<1>8. \A e : Num(r, e) = Num(p, e) + Num(q, e)
  BY <1>1, NumJoined DEF r
<1>9. Nodes(r)
  BY <1>2, <1>6 DEF Nodes
<1>10. BlocksIn(r) = BlocksIn(p) \cup BlocksIn(q)
  BY <1>6 DEF BlocksIn, bp, bq
<1>11. Len(r) = Len(p) + Len(q)
  BY <1>2 DEF m, n
<1> QED BY <1>7, <1>8, <1>9, <1>10, <1>11 DEF r

(* a block is one,                                                         *)
LEMMA NodeAlone ==
  ASSUME NEW n \in VecNode
  PROVE  /\ Nodes(<<n>>) /\ Len(<<n>>) = 1 /\ BlocksIn(<<n>>) = {n.block}
         /\ NoneEmpty(<<n>>) <=> n.elems # <<>>
         /\ \A e : Num(<<n>>, e) = B!Times(n.elems, e)
<1> DEFINE p == <<n>>
<1>1. p \in Seq(VecNode) /\ Len(p) = 1 /\ p[1] = n /\ DOMAIN p = {1}
  OBVIOUS
<1>2. \A e : Num(p, e) = B!Times(n.elems, e)
  BY NumOne
<1> HIDE DEF p
<1>3. DOMAIN B!BlocksOf(p) = {1} /\ B!BlocksOf(p)[1] = n.block
  BY <1>1 DEF B!BlocksOf
<1>4. B!IsInjective(B!BlocksOf(p)) /\ B!Range(B!BlocksOf(p)) = {n.block}
  BY <1>3 DEF B!IsInjective, B!Range
<1>5. NoneEmpty(p) <=> n.elems # <<>>
  BY <1>1 DEF NoneEmpty
<1>6. Nodes(p) /\ BlocksIn(p) = {n.block}
  BY <1>1, <1>4 DEF Nodes, BlocksIn
<1> QED BY <1>1, <1>2, <1>5, <1>6 DEF p

(* and a vector is its head and the rest.                                  *)
LEMMA NodesRest ==
  ASSUME NEW p, Nodes(p), p # <<>>
  PROVE  /\ Nodes(Tail(p)) /\ Head(p) \in VecNode /\ p = <<Head(p)>> \o Tail(p)
         /\ Len(p) \in Nat \ {0} /\ Len(Tail(p)) = Len(p) - 1
         /\ Head(p).block \in BlocksIn(p) /\ BlocksIn(Tail(p)) = BlocksIn(p) \ {Head(p).block}
         /\ NoneEmpty(p) <=> Head(p).elems # <<>> /\ NoneEmpty(Tail(p))
         /\ \A e : Num(p, e) = B!Times(Head(p).elems, e) + Num(Tail(p), e)
<1> DEFINE h == Head(p)
           t == Tail(p)
           b == B!BlocksOf(p)
<1>1. p \in Seq(VecNode) /\ B!IsInjective(b)
  BY DEF Nodes
<1>2. /\ h \in VecNode /\ t \in Seq(VecNode) /\ Len(t) = Len(p) - 1 /\ Len(p) \in Nat \ {0}
      /\ p = <<h>> \o t /\ h = p[1] /\ \A i \in 1 .. Len(p) - 1 : t[i] = p[i + 1]
  BY <1>1
<1>3. /\ b \in Seq(BlockId) /\ Len(b) = Len(p) /\ \A i \in 1 .. Len(p) : b[i] = p[i].block
  BY <1>1, BlockList
<1>4. b # <<>> /\ Head(b) = h.block
  <2>1. b # <<>> /\ Head(b) = b[1]
    BY <1>2, <1>3
  <2> QED BY <1>2, <1>3, <2>1
<1>5. /\ Tail(b) \in Seq(BlockId) /\ B!IsInjective(Tail(b)) /\ Len(Tail(b)) = Len(b) - 1
      /\ Head(b) \in B!Range(b) /\ B!Range(Tail(b)) = B!Range(b) \ {Head(b)}
  BY <1>1, <1>3, <1>4, ListRest
<1> HIDE DEF h, t, b
<1>6. B!BlocksOf(t) = Tail(b)
  <2>1. /\ B!BlocksOf(t) \in Seq(BlockId) /\ Len(B!BlocksOf(t)) = Len(t)
        /\ \A i \in 1 .. Len(t) : B!BlocksOf(t)[i] = t[i].block
    BY <1>2, BlockList
  <2>2. \A i \in 1 .. Len(b) - 1 : Tail(b)[i] = b[i + 1]
    BY <1>3, <1>4
  <2>3. \A i \in 1 .. Len(t) : B!BlocksOf(t)[i] = Tail(b)[i]
    <3> TAKE i \in 1 .. Len(t)
    <3>1. i \in 1 .. Len(p) - 1 /\ i + 1 \in 1 .. Len(p)
      BY <1>2
    <3> QED BY <1>2, <1>3, <2>1, <2>2, <3>1
  <2>4. Len(B!BlocksOf(t)) = Len(Tail(b))
    BY <1>2, <1>3, <1>5, <2>1
  <2> DEFINE c == B!BlocksOf(t)
             d == Tail(b)
  <2>5. c \in Seq(BlockId) /\ d \in Seq(BlockId) /\ Len(c) = Len(d)
        /\ \A i \in 1 .. Len(c) : c[i] = d[i]
    BY <1>5, <2>1, <2>3, <2>4
  <2> HIDE DEF c, d
  <2>6. c = d
    BY <2>5
  <2> QED BY <2>6 DEF c, d
<1>7. Nodes(t) /\ BlocksIn(t) = BlocksIn(p) \ {h.block} /\ h.block \in BlocksIn(p)
  BY <1>2, <1>4, <1>5, <1>6 DEF Nodes, BlocksIn, b
<1> DEFINE o == <<h>>
<1>8. /\ Nodes(o) /\ Len(o) = 1 /\ BlocksIn(o) = {h.block}
      /\ NoneEmpty(o) <=> h.elems # <<>>
      /\ \A e : Num(o, e) = B!Times(h.elems, e)
  BY <1>2, NodeAlone
<1>9. p = o \o t
  BY <1>2
<1> HIDE DEF o
<1>10. /\ NoneEmpty(p) <=> NoneEmpty(o) /\ NoneEmpty(t)
       /\ \A e : Num(p, e) = Num(o, e) + Num(t, e)
  BY <1>7, <1>8, <1>9, NodesJoined
<1>11. /\ NoneEmpty(p) <=> h.elems # <<>> /\ NoneEmpty(t)
       /\ \A e : Num(p, e) = B!Times(h.elems, e) + Num(t, e)
  BY <1>8, <1>10
<1> QED BY <1>2, <1>7, <1>11 DEF h, t

(* An element more in a block,                                             *)
LEMMA TimesAppend ==
  ASSUME NEW s \in Seq(Elems), NEW x \in Elems, NEW e
  PROVE  B!Times(Append(s, x), e) = B!Times(s, e) + (IF e = x THEN 1 ELSE 0)
<1> DEFINE r == Append(s, x)
           n == Len(s)
           F == {i \in DOMAIN s : s[i] = e}
           G == {i \in DOMAIN r : r[i] = e}
<1>1. /\ r \in Seq(Elems) /\ n \in Nat /\ DOMAIN s = 1 .. n /\ DOMAIN r = 1 .. n + 1
      /\ \A i \in 1 .. n : r[i] = s[i]
      /\ r[n + 1] = x
  OBVIOUS
<1>2. /\ IsFiniteSet(F) /\ B!Times(s, e) = Cardinality(F) /\ B!Times(s, e) \in Nat
      /\ B!Times(r, e) = Cardinality(G)
  BY <1>1, TimesNat
<1>3. n + 1 \notin F /\ G = IF e = x THEN F \cup {n + 1} ELSE F
  <2> HIDE DEF r, n
  <2> QED BY <1>1
<1> HIDE DEF F, G, r, n
<1>4. Cardinality(F \cup {n + 1}) = Cardinality(F) + 1
  BY <1>2, <1>3, FS_AddElement
<1>5. B!Times(r, e) = B!Times(s, e) + (IF e = x THEN 1 ELSE 0)
  BY <1>2, <1>3, <1>4
<1> QED BY <1>5 DEF r

(* and one less.                                                           *)
LEMMA TimesFront ==
  ASSUME NEW s \in Seq(Elems), s # <<>>, NEW e
  PROVE  /\ B!Front(s) \in Seq(Elems) /\ B!Last(s) \in Elems
         /\ B!Times(s, e) = B!Times(B!Front(s), e) + (IF e = B!Last(s) THEN 1 ELSE 0)
<1>1. Len(s) \in Nat /\ Len(s) > 0
  OBVIOUS
<1> DEFINE f == SubSeq(s, 1, Len(s) - 1)
           x == s[Len(s)]
<1>2. B!Front(s) = f /\ B!Last(s) = x
  BY DEF B!Front, B!Last
<1>3. f \in Seq(Elems) /\ Len(f) = Len(s) - 1 /\ \A i \in 1 .. Len(s) - 1 : f[i] = s[i]
  <2> DEFINE l == Len(s) - 1
  <2>1. 1 \in Int /\ l \in Int /\ l >= 0 /\ \A i \in 1 .. l : s[i] \in Elems
    BY <1>1
  <2> HIDE DEF l
  <2>2. /\ SubSeq(s, 1, l) \in Seq(Elems)
        /\ Len(SubSeq(s, 1, l)) = IF 1 <= l THEN l - 1 + 1 ELSE 0
        /\ \A i \in 1 .. l - 1 + 1 : SubSeq(s, 1, l)[i] = s[1 + i - 1]
    BY <2>1, SubSeqProperties
  <2>3. Len(SubSeq(s, 1, l)) = l /\ l - 1 + 1 = l /\ \A i \in 1 .. l : 1 + i - 1 = i
    BY <2>1, <2>2
  <2> QED BY <2>2, <2>3 DEF l
<1>4. x \in Elems
  BY <1>1
<1> HIDE DEF f
<1>5. s = Append(f, x)
  <2> DEFINE r == Append(f, x)
  <2>1. r \in Seq(Elems) /\ Len(r) = Len(s) /\ r[Len(s)] = x
        /\ \A i \in 1 .. Len(s) - 1 : r[i] = f[i]
    BY <1>1, <1>3, <1>4
  <2> HIDE DEF r
  <2>2. \A i \in 1 .. Len(s) : r[i] = s[i]
    BY <1>1, <1>3, <2>1
  <2>3. r = s
    BY <2>1, <2>2
  <2> QED BY <2>3 DEF r
<1> HIDE DEF x
<1>6. B!Times(Append(f, x), e) = B!Times(f, e) + (IF e = x THEN 1 ELSE 0)
  BY <1>3, <1>4, TimesAppend
<1> QED BY <1>2, <1>3, <1>4, <1>5, <1>6

(* Another content of the head.                                            *)
LEMMA HeadChanged ==
  ASSUME NEW p, Nodes(p), p # <<>>, NEW s \in Seq(Elems)
  PROVE  LET r == [p EXCEPT ![1].elems = s] IN
         /\ Nodes(r) /\ r # <<>> /\ Len(r) = Len(p) /\ Tail(r) = Tail(p)
         /\ Head(r) \in VecNode /\ Head(r).elems = s /\ Head(r).block = Head(p).block
         /\ BlocksIn(r) = BlocksIn(p)
<1> DEFINE r == [p EXCEPT ![1].elems = s]
           h == [Head(p) EXCEPT !.elems = s]
<1>1. p \in Seq(VecNode) /\ B!IsInjective(B!BlocksOf(p)) /\ Len(p) \in Nat /\ Len(p) > 0
      /\ Head(p) = p[1] /\ Head(p) \in VecNode /\ p[1] \in VecNode
  BY DEF Nodes
<1>2. h \in VecNode /\ h.elems = s /\ h.block = p[1].block
  BY <1>1 DEF VecNode
<1>3. r = [p EXCEPT ![1] = h]
  BY <1>1
<1> HIDE DEF h, r
<1>4. /\ r \in Seq(VecNode) /\ Len(r) = Len(p) /\ r[1] = h
      /\ \A i \in 1 .. Len(p) : i # 1 => r[i] = p[i]
  BY <1>1, <1>2, <1>3
<1>5. r # <<>> /\ Head(r) = h
  BY <1>1, <1>4
<1>6. Tail(r) = Tail(p)
  <2> DEFINE t == Tail(r)
             w == Tail(p)
  <2>1. /\ t \in Seq(VecNode) /\ Len(t) = Len(p) - 1 /\ \A i \in 1 .. Len(p) - 1 : t[i] = r[i + 1]
        /\ w \in Seq(VecNode) /\ Len(w) = Len(p) - 1 /\ \A i \in 1 .. Len(p) - 1 : w[i] = p[i + 1]
    BY <1>1, <1>4, <1>5
  <2> HIDE DEF t, w
  <2>2. \A i \in 1 .. Len(p) - 1 : t[i] = w[i]
    <3> TAKE i \in 1 .. Len(p) - 1
    <3>1. i + 1 \in 1 .. Len(p) /\ i + 1 # 1
      BY <1>1
    <3> QED BY <1>4, <2>1, <3>1
  <2>3. t = w
    BY <2>1, <2>2
  <2> QED BY <2>3 DEF t, w
<1>7. B!BlocksOf(r) = B!BlocksOf(p)
  <2>1. \A i \in 1 .. Len(p) : r[i].block = p[i].block
    BY <1>2, <1>4
  <2>2. DOMAIN r = 1 .. Len(p) /\ DOMAIN p = 1 .. Len(p)
    BY <1>1, <1>4
  <2> QED BY <2>1, <2>2 DEF B!BlocksOf
<1>8. Nodes(r) /\ BlocksIn(r) = BlocksIn(p)
  BY <1>1, <1>4, <1>7 DEF Nodes, BlocksIn
<1> QED BY <1>2, <1>4, <1>5, <1>6, <1>8, <1>1 DEF r

(* Nothing is in a vector with an empty head,                              *)
LEMMA NullVec ==
  ASSUME NEW p, Whole(p), p # <<>>, B!IsNull(p)
  PROVE  /\ Len(p) = 1 /\ Tail(p) = <<>> /\ BlocksIn(p) = {Head(p).block}
         /\ \A e : Num(p, e) = 0
<1>1. Nodes(p) /\ Head(p).elems = <<>> /\ (NoneEmpty(p) \/ Len(p) = 1)
  BY DEF Whole, B!IsNull
<1>2. /\ Nodes(Tail(p)) /\ Len(p) \in Nat \ {0} /\ Len(Tail(p)) = Len(p) - 1
      /\ NoneEmpty(p) <=> Head(p).elems # <<>> /\ NoneEmpty(Tail(p))
      /\ Head(p).block \in BlocksIn(p) /\ BlocksIn(Tail(p)) = BlocksIn(p) \ {Head(p).block}
      /\ \A e : Num(p, e) = B!Times(Head(p).elems, e) + Num(Tail(p), e)
  BY <1>1, NodesRest
<1>3. Len(p) = 1 /\ Len(Tail(p)) = 0
  BY <1>1, <1>2
<1>4. Tail(p) \in Seq(VecNode)
  BY <1>2 DEF Nodes
<1>5. Tail(p) = <<>>
  <2> DEFINE t == Tail(p)
  <2>1. t \in Seq(VecNode) /\ Len(t) = 0
    BY <1>3, <1>4
  <2> HIDE DEF t
  <2>2. t = <<>>
    BY <2>1
  <2> QED BY <2>2 DEF t
<1>6. \A e : B!Times(<<>>, e) = 0
  <2> TAKE e
  <2>1. {i \in DOMAIN <<>> : <<>>[i] = e} = {}
    OBVIOUS
  <2> QED BY <2>1, FS_EmptySet, SameCard DEF B!Times
<1>7. \A e : Num(p, e) = 0
  <2> TAKE e
  <2>1. Num(p, e) = B!Times(Head(p).elems, e) + Num(Tail(p), e)
    BY <1>2
  <2>2. B!Times(Head(p).elems, e) = 0 /\ Num(Tail(p), e) = 0
    BY <1>1, <1>5, <1>6, NumNone
  <2> QED BY <2>1, <2>2
<1>8. BlocksIn(Tail(p)) = {}
  BY <1>5, NumNone
<1> QED BY <1>2, <1>3, <1>5, <1>7, <1>8

(* every block of the others is in use,                                    *)
LEMMA FullVec ==
  ASSUME NEW p, Whole(p), p # <<>>, ~B!IsNull(p)
  PROVE  NoneEmpty(p)
<1>1. Nodes(p) /\ Head(p).elems # <<>> /\ (NoneEmpty(p) \/ Len(p) = 1) /\ p \in Seq(VecNode)
  BY DEF Whole, B!IsNull, Nodes
<1>2. CASE Len(p) = 1
  <2>1. DOMAIN p = {1} /\ Head(p) = p[1]
    BY <1>1, <1>2
  <2> QED BY <1>1, <2>1 DEF NoneEmpty
<1> QED BY <1>1, <1>2

(* and a vector that has been set up has nothing.                          *)
LEMMA EmptyVec ==
  ASSUME NEW b \in BlockId
  PROVE  /\ Whole(<<B!Empty(b)>>) /\ BlocksIn(<<B!Empty(b)>>) = {b}
         /\ \A e : Num(<<B!Empty(b)>>, e) = 0
<1> DEFINE n == B!Empty(b)
           p == <<n>>
<1>1. n \in VecNode /\ n.block = b /\ n.elems = <<>>
  BY DEF B!Empty, VecNode
<1>2. /\ Nodes(p) /\ Len(p) = 1 /\ BlocksIn(p) = {b}
      /\ \A e : Num(p, e) = B!Times(<<>>, e)
  <2> HIDE DEF n
  <2> QED BY <1>1, NodeAlone
<1>3. p # <<>> /\ Head(p) = n
  OBVIOUS
<1> HIDE DEF p, n
<1>4. Whole(p) /\ B!IsNull(p)
  BY <1>1, <1>2, <1>3 DEF Whole, B!IsNull
<1>5. \A e : Num(p, e) = 0
  BY <1>3, <1>4, NullVec
<1> QED BY <1>2, <1>4, <1>5 DEF p, n

-----------------------------------------------------------------------------
(* The vectors and the bump allocator have blocks of their own, and the    *)
(* vectors contain as often as they must what they must.                   *)
AllBlocks(x) == UNION {BlocksIn(x[v]) : v \in Vecs}
Owned(x, u) == AllBlocks(x) \cup B!Range(u)
Put(x, c, p) == [x EXCEPT ![c] = p]
PutTwo(x, c, p, d, q) == [x EXCEPT ![c] = p, ![d] = q]
Others(x, u, D) == Owned(x, u) \ UNION {BlocksIn(x[v]) : v \in D}
Vectors(x, u) ==
  /\ x \in [Vecs -> Seq(VecNode)] /\ \A v \in Vecs : Whole(x[v])
  /\ u \in Seq(BlockId) /\ B!IsInjective(u)
  /\ \A v, w \in Vecs : v # w => BlocksIn(x[v]) \cap BlocksIn(x[w]) = {}
  /\ B!Range(u) \cap AllBlocks(x) = {}
Counts(x, n) ==
  /\ n \in [Vecs -> [Elems -> Nat]]
  /\ \A v \in Vecs : \A e \in Elems : n[v][e] = Num(x[v], e)
Recounted(k, n, D) == k \in [Vecs -> [Elems -> Nat]] /\ \A w \in Vecs \ D : k[w] = n[w]
HasCount(k, v, p) == \A e \in Elems : k[v][e] = Num(p, e)
Kept(m, x, u, n) == Vectors(x, u) /\ Counts(x, n) /\ Thrifty(m, Owned(x, u))

(* Two vectors get other blocks,                                           *)
LEMMA VecsPut ==
  ASSUME NEW x, NEW u, Vectors(x, u), NEW c \in Vecs, NEW d \in Vecs, c # d,
         NEW p, NEW q, Whole(p), Whole(q), BlocksIn(p) \cap BlocksIn(q) = {},
         BlocksIn(p) \cap Others(x, u, {c, d}) = {}, BlocksIn(q) \cap Others(x, u, {c, d}) = {}
  PROVE  /\ Vectors(PutTwo(x, c, p, d, q), u)
         /\ Owned(PutTwo(x, c, p, d, q), u)
              = Others(x, u, {c, d}) \cup BlocksIn(p) \cup BlocksIn(q)
<1> DEFINE R == Others(x, u, {c, d})
           y == PutTwo(x, c, p, d, q)
<1>0. /\ R = Owned(x, u) \ (BlocksIn(x[c]) \cup BlocksIn(x[d]))
      /\ BlocksIn(p) \cap R = {} /\ BlocksIn(q) \cap R = {}
  BY DEF Others
<1> HIDE DEF R
<1>1. /\ x \in [Vecs -> Seq(VecNode)] /\ \A v \in Vecs : Whole(x[v])
      /\ u \in Seq(BlockId) /\ B!IsInjective(u)
      /\ \A v, w \in Vecs : v # w => BlocksIn(x[v]) \cap BlocksIn(x[w]) = {}
      /\ \A v \in Vecs : B!Range(u) \cap BlocksIn(x[v]) = {}
  BY DEF Vectors, AllBlocks
<1>2. p \in Seq(VecNode) /\ q \in Seq(VecNode)
  BY DEF Whole, Nodes
<1>3. /\ y \in [Vecs -> Seq(VecNode)] /\ y[c] = p /\ y[d] = q
      /\ \A v \in Vecs \ {c, d} : y[v] = x[v]
  BY <1>1, <1>2 DEF PutTwo
<1> HIDE DEF y
<1>4. \A v \in Vecs : Whole(y[v])
  BY <1>1, <1>3
<1>5. \A v \in Vecs \ {c, d} : BlocksIn(y[v]) \subseteq R
  BY <1>0, <1>1, <1>3 DEF Owned, AllBlocks
<1>6. B!Range(u) \subseteq R
  BY <1>0, <1>1 DEF Owned
<1>7. \A v, w \in Vecs : v # w => BlocksIn(y[v]) \cap BlocksIn(y[w]) = {}
  <2> SUFFICES ASSUME NEW v \in Vecs, NEW w \in Vecs, v # w
               PROVE  BlocksIn(y[v]) \cap BlocksIn(y[w]) = {}
    OBVIOUS
  <2>1. CASE v \notin {c, d} /\ w \notin {c, d}
    BY <1>1, <1>3, <2>1
  <2>2. CASE v \in {c, d} /\ w \notin {c, d}
    BY <1>0, <1>3, <1>5, <2>2
  <2>3. CASE v \notin {c, d} /\ w \in {c, d}
    BY <1>0, <1>3, <1>5, <2>3
  <2>4. CASE v \in {c, d} /\ w \in {c, d}
    BY <1>3, <2>4
  <2> QED BY <2>1, <2>2, <2>3, <2>4
<1>8. \A v \in Vecs : B!Range(u) \cap BlocksIn(y[v]) = {}
  <2> TAKE v \in Vecs
  <2>1. CASE v \in {c, d}
    BY <1>0, <1>3, <1>6, <2>1
  <2>2. CASE v \notin {c, d}
    BY <1>1, <1>3, <2>2
  <2> QED BY <2>1, <2>2
<1>9. Vectors(y, u)
  <2>1. B!Range(u) \cap AllBlocks(y) = {}
    <3> SUFFICES ASSUME NEW b \in B!Range(u), NEW v \in Vecs, b \in BlocksIn(y[v])
                 PROVE  FALSE
      BY DEF AllBlocks
    <3> QED BY <1>8
  <2> QED BY <1>1, <1>3, <1>4, <1>7, <2>1 DEF Vectors
<1>10. \A b \in R : b \in Owned(y, u)
  <2> TAKE b \in R
  <2>1. CASE b \in B!Range(u)
    BY <1>0, <2>1 DEF Owned
  <2>2. CASE b \notin B!Range(u)
    <3>1. PICK v \in Vecs : b \in BlocksIn(x[v])
      BY <1>0, <2>2 DEF Owned, AllBlocks
    <3>2. v \notin {c, d}
      BY <1>0, <3>1
    <3> QED BY <1>3, <3>1, <3>2 DEF Owned, AllBlocks
  <2> QED BY <2>1, <2>2
<1>11. \A b \in Owned(y, u) : b \in R \cup BlocksIn(p) \cup BlocksIn(q)
  BY <1>3, <1>5, <1>6 DEF Owned, AllBlocks
<1>12. BlocksIn(p) \cup BlocksIn(q) \subseteq Owned(y, u)
  BY <1>3 DEF Owned, AllBlocks
<1>13. Owned(y, u) = R \cup BlocksIn(p) \cup BlocksIn(q)
  BY <1>10, <1>11, <1>12
<1> QED BY <1>9, <1>13 DEF R, y

(* one does,                                                               *)
LEMMA VecPut ==
  ASSUME NEW x, NEW u, Vectors(x, u), NEW c \in Vecs, NEW p, Whole(p),
         BlocksIn(p) \cap Others(x, u, {c}) = {}
  PROVE  /\ Vectors(Put(x, c, p), u)
         /\ Owned(Put(x, c, p), u) = Others(x, u, {c}) \cup BlocksIn(p)
<1> DEFINE R == Others(x, u, {c})
           y == Put(x, c, p)
<1>0. R = Owned(x, u) \ BlocksIn(x[c]) /\ BlocksIn(p) \cap R = {}
  BY DEF Others
<1> HIDE DEF R
<1>1. /\ x \in [Vecs -> Seq(VecNode)] /\ \A v \in Vecs : Whole(x[v])
      /\ u \in Seq(BlockId) /\ B!IsInjective(u)
      /\ \A v, w \in Vecs : v # w => BlocksIn(x[v]) \cap BlocksIn(x[w]) = {}
      /\ \A v \in Vecs : B!Range(u) \cap BlocksIn(x[v]) = {}
  BY DEF Vectors, AllBlocks
<1>2. p \in Seq(VecNode)
  BY DEF Whole, Nodes
<1>3. /\ y \in [Vecs -> Seq(VecNode)] /\ y[c] = p
      /\ \A v \in Vecs \ {c} : y[v] = x[v]
  BY <1>1, <1>2 DEF Put
<1> HIDE DEF y
<1>4. \A v \in Vecs : Whole(y[v])
  BY <1>1, <1>3
<1>5. \A v \in Vecs \ {c} : BlocksIn(y[v]) \subseteq R
  BY <1>0, <1>1, <1>3 DEF Owned, AllBlocks
<1>6. B!Range(u) \subseteq R
  BY <1>0, <1>1 DEF Owned
<1>7. \A v, w \in Vecs : v # w => BlocksIn(y[v]) \cap BlocksIn(y[w]) = {}
  <2> SUFFICES ASSUME NEW v \in Vecs, NEW w \in Vecs, v # w
               PROVE  BlocksIn(y[v]) \cap BlocksIn(y[w]) = {}
    OBVIOUS
  <2>1. CASE v # c /\ w # c
    BY <1>1, <1>3, <2>1
  <2>2. CASE v = c
    BY <1>0, <1>3, <1>5, <2>2
  <2>3. CASE w = c
    BY <1>0, <1>3, <1>5, <2>3
  <2> QED BY <2>1, <2>2, <2>3
<1>8. \A v \in Vecs : B!Range(u) \cap BlocksIn(y[v]) = {}
  <2> TAKE v \in Vecs
  <2>1. CASE v = c
    BY <1>0, <1>3, <1>6, <2>1
  <2>2. CASE v # c
    BY <1>1, <1>3, <2>2
  <2> QED BY <2>1, <2>2
<1>9. Vectors(y, u)
  <2>1. B!Range(u) \cap AllBlocks(y) = {}
    <3> SUFFICES ASSUME NEW b \in B!Range(u), NEW v \in Vecs, b \in BlocksIn(y[v])
                 PROVE  FALSE
      BY DEF AllBlocks
    <3> QED BY <1>8
  <2> QED BY <1>1, <1>3, <1>4, <1>7, <2>1 DEF Vectors
<1>10. \A b \in R : b \in Owned(y, u)
  <2> TAKE b \in R
  <2>1. CASE b \in B!Range(u)
    BY <1>0, <2>1 DEF Owned
  <2>2. CASE b \notin B!Range(u)
    <3>1. PICK v \in Vecs : b \in BlocksIn(x[v])
      BY <1>0, <2>2 DEF Owned, AllBlocks
    <3>2. v # c
      BY <1>0, <3>1
    <3> QED BY <1>3, <3>1, <3>2 DEF Owned, AllBlocks
  <2> QED BY <2>1, <2>2
<1>11. \A b \in Owned(y, u) : b \in R \cup BlocksIn(p)
  BY <1>3, <1>5, <1>6 DEF Owned, AllBlocks
<1>12. BlocksIn(p) \subseteq Owned(y, u)
  BY <1>3 DEF Owned, AllBlocks
<1>13. Owned(y, u) = R \cup BlocksIn(p)
  BY <1>10, <1>11, <1>12
<1> QED BY <1>9, <1>13 DEF R, y

(* what is left when it does,                                              *)
LEMMA VecApart ==
  ASSUME NEW x, NEW u, Vectors(x, u), NEW c \in Vecs
  PROVE  /\ Whole(x[c]) /\ Nodes(x[c]) /\ x[c] \in Seq(VecNode)
         /\ BlocksIn(x[c]) \subseteq Owned(x, u)
         /\ \A d \in Vecs \ {c} : BlocksIn(x[c]) \cap BlocksIn(x[d]) = {}
BY DEF Vectors, Whole, Nodes, Owned, AllBlocks

-----------------------------------------------------------------------------
(* The vectors, the bump allocator and the manager: what is in use is what *)
(* they have, and nothing else.                                            *)
BlockInv == Kept(B!Manager, vec, usedList, content)

(* What the manager becomes.                                               *)
LEMMA ManagerSet ==
  ASSUME NEW m \in ManagerRec, B!SetManager(m)
  PROVE  B!Manager' = m
BY DEF B!SetManager, B!Manager, ManagerRec

(* The invariant after a step that changes a vector,                       *)
LEMMA PutKept ==
  ASSUME NEW x, NEW u, NEW n, Vectors(x, u), Counts(x, n), NEW v \in Vecs,
         NEW p, Whole(p), BlocksIn(p) \cap Others(x, u, {v}) = {},
         NEW k, Recounted(k, n, {v}), HasCount(k, v, p),
         NEW m, Thrifty(m, Others(x, u, {v}) \cup BlocksIn(p))
  PROVE  Kept(m, Put(x, v, p), u, k)
<1> DEFINE y == Put(x, v, p)
<1>1. x \in [Vecs -> Seq(VecNode)]
  BY DEF Vectors
<1>2. y[v] = p /\ \A w \in Vecs \ {v} : y[w] = x[w]
  BY <1>1 DEF Put
<1>3. Vectors(y, u) /\ Owned(y, u) = Others(x, u, {v}) \cup BlocksIn(p)
  BY VecPut
<1> HIDE DEF y
<1>4. Counts(y, k)
  BY <1>2 DEF Counts, Recounted, HasCount
<1>5. Kept(m, y, u, k)
  BY <1>3, <1>4 DEF Kept
<1> QED BY <1>5 DEF y

(* and one that changes two.                                               *)
LEMMA PutTwoKept ==
  ASSUME NEW x, NEW u, NEW n, Vectors(x, u), Counts(x, n), NEW c \in Vecs, NEW d \in Vecs, c # d,
         NEW p, NEW q, Whole(p), Whole(q), BlocksIn(p) \cap BlocksIn(q) = {},
         BlocksIn(p) \cap Others(x, u, {c, d}) = {}, BlocksIn(q) \cap Others(x, u, {c, d}) = {},
         NEW k, Recounted(k, n, {c, d}), HasCount(k, c, p), HasCount(k, d, q),
         NEW m, Thrifty(m, Others(x, u, {c, d}) \cup BlocksIn(p) \cup BlocksIn(q))
  PROVE  Kept(m, PutTwo(x, c, p, d, q), u, k)
<1> DEFINE y == PutTwo(x, c, p, d, q)
<1>1. x \in [Vecs -> Seq(VecNode)]
  BY DEF Vectors
<1>2. y[c] = p /\ y[d] = q /\ \A w \in Vecs \ {c, d} : y[w] = x[w]
  BY <1>1 DEF PutTwo
<1>3. Vectors(y, u) /\ Owned(y, u) = Others(x, u, {c, d}) \cup BlocksIn(p) \cup BlocksIn(q)
  BY VecsPut
<1> HIDE DEF y
<1>4. Counts(y, k)
  <2> SUFFICES ASSUME NEW w \in Vecs, NEW e \in Elems
               PROVE  k[w][e] = Num(y[w], e)
    BY DEF Counts, Recounted
  <2>1. CASE w \in {c, d}
    BY <1>2, <2>1 DEF HasCount
  <2>2. CASE w \notin {c, d}
    BY <1>2, <2>2 DEF Counts, Recounted
  <2> QED BY <2>1, <2>2
<1>5. Kept(m, y, u, k)
  BY <1>3, <1>4 DEF Kept
<1> QED BY <1>5 DEF y

(* VEC_INIT                                                                *)
LEMMA VecInitKeeps ==
  ASSUME B!BlocksValid, BlockInv, NEW v \in Vecs, B!VecInit(v)
  PROVE  BlockInv'
<1> DEFINE m == B!Manager
           a == B!Alloc(m)
           p == <<B!Empty(a.b)>>
           O == Owned(vec, usedList)
<1>1. /\ Vectors(vec, usedList) /\ Counts(vec, content) /\ Thrifty(m, O) /\ Managed(m, O)
      /\ vec[v] = <<>> /\ B!CanAlloc(m, 1) /\ B!SetManager(a.m)
      /\ vec' = Put(vec, v, p) /\ usedList' = usedList /\ content' = content
  BY DEF BlockInv, Kept, Thrifty, B!VecInit, B!SetUp, B!bump, Put
<1>2. a.b \in BlockId \ O /\ Thrifty(a.m, O \cup {a.b}) /\ a.m \in ManagerRec
  BY <1>1, Allocated DEF Thrifty, Managed
<1>3. B!Manager' = a.m
  BY <1>1, <1>2, ManagerSet
<1>4. Whole(p) /\ BlocksIn(p) = {a.b} /\ \A e : Num(p, e) = 0
  BY <1>2, EmptyVec
<1>5. BlocksIn(vec[v]) = {} /\ \A e : Num(vec[v], e) = 0
  BY <1>1, NumNone
<1> HIDE DEF m, a, p
<1>6. Others(vec, usedList, {v}) = O
  BY <1>5 DEF Others
<1> HIDE DEF O
<1>7. BlocksIn(p) \cap O = {} /\ Thrifty(a.m, O \cup BlocksIn(p))
  BY <1>2, <1>4
<1>8. Recounted(content, content, {v}) /\ HasCount(content, v, p)
  BY <1>1, <1>4, <1>5 DEF Counts, Recounted, HasCount
<1>9. Kept(a.m, Put(vec, v, p), usedList, content)
  BY <1>1, <1>4, <1>6, <1>7, <1>8, PutKept
<1> QED BY <1>1, <1>3, <1>9 DEF BlockInv

(* VEC_FREE                                                                *)
LEMMA VecFreeKeeps ==
  ASSUME B!BlocksValid, BlockInv, NEW v \in Vecs, B!VecFree(v)
  PROVE  BlockInv'
<1> DEFINE m == B!Manager
           s == B!BlocksOf(vec[v])
           g == B!FreeBlocks(m, s)
           p == <<>>
           n == [content EXCEPT ![v] = [e \in Elems |-> 0]]
           O == Owned(vec, usedList)
<1>1. /\ Vectors(vec, usedList) /\ Counts(vec, content) /\ Thrifty(m, O)
      /\ B!SetManager(g) /\ vec' = Put(vec, v, p) /\ usedList' = usedList /\ content' = n
  BY DEF BlockInv, Kept, B!VecFree, B!bump, Put
<1>2. Nodes(vec[v]) /\ vec[v] \in Seq(VecNode) /\ BlocksIn(vec[v]) \subseteq O
  BY <1>1, VecApart
<1>3. s \in Seq(BlockId) /\ B!IsInjective(s) /\ B!Range(s) \subseteq O
  BY <1>2, BlockList DEF Nodes, BlocksIn
<1>4. B!Range(s) = BlocksIn(vec[v])
  BY DEF BlocksIn
<1>5. Whole(p) /\ BlocksIn(p) = {} /\ \A e : Num(p, e) = 0
  BY NumNone DEF Whole
<1>6. /\ n \in [Vecs -> [Elems -> Nat]] /\ \A e \in Elems : n[v][e] = 0
      /\ \A w \in Vecs \ {v} : n[w] = content[w]
  BY <1>1 DEF Counts
<1> HIDE DEF m, s, p, n
<1>7. Others(vec, usedList, {v}) = O \ BlocksIn(vec[v])
  BY DEF Others
<1> HIDE DEF O
<1>8. Thrifty(g, O \ BlocksIn(vec[v])) /\ g \in ManagerRec
  <2>1. Thrifty(g, O \ B!Range(s))
    BY <1>1, <1>3, BlocksFreed
  <2> QED BY <1>4, <2>1 DEF Thrifty, Managed
<1> HIDE DEF g
<1>9. B!Manager' = g
  BY <1>1, <1>8, ManagerSet
<1>10. /\ BlocksIn(p) \cap Others(vec, usedList, {v}) = {}
       /\ Others(vec, usedList, {v}) \cup BlocksIn(p) = O \ BlocksIn(vec[v])
  BY <1>5, <1>7
<1>11. Recounted(n, content, {v}) /\ HasCount(n, v, p)
  BY <1>5, <1>6 DEF Recounted, HasCount
<1>12. Kept(g, Put(vec, v, p), usedList, n)
  BY <1>1, <1>5, <1>8, <1>10, <1>11, PutKept
<1> QED BY <1>1, <1>9, <1>12 DEF BlockInv

(* An element is pushed,                                                   *)
LEMMA Pushed ==
  ASSUME NEW q, Nodes(q), q # <<>>, NoneEmpty(Tail(q)) \/ Len(q) = 1, NEW e \in Elems
  PROVE  LET r == [q EXCEPT ![1].elems = Append(@, e)] IN
         /\ Whole(r) /\ BlocksIn(r) = BlocksIn(q)
         /\ \A f : Num(r, f) = Num(q, f) + (IF f = e THEN 1 ELSE 0)
<1> DEFINE o == Head(q).elems
           s == Append(o, e)
           r == [q EXCEPT ![1].elems = s]
<1>1. /\ Nodes(Tail(q)) /\ Head(q) \in VecNode /\ Len(q) \in Nat
      /\ \A f : Num(q, f) = B!Times(o, f) + Num(Tail(q), f)
      /\ Tail(q) \in Seq(VecNode)
  BY NodesRest DEF Nodes
<1>2. o \in Seq(Elems)
  BY <1>1 DEF VecNode
<1>3. s \in Seq(Elems) /\ s # <<>>
  BY <1>2
<1>4. [q EXCEPT ![1].elems = Append(@, e)] = r
  <2>1. q \in Seq(VecNode) /\ q[1] = Head(q)
    BY DEF Nodes
  <2> QED BY <2>1
<1>5. \A f : B!Times(s, f) = B!Times(o, f) + (IF f = e THEN 1 ELSE 0)
  BY <1>2, TimesAppend
<1> HIDE DEF s, o
<1>6. /\ Nodes(r) /\ r # <<>> /\ Len(r) = Len(q) /\ Tail(r) = Tail(q)
      /\ Head(r).elems = s /\ BlocksIn(r) = BlocksIn(q)
  BY <1>3, HeadChanged
<1> HIDE DEF r
<1>7. /\ NoneEmpty(r) <=> Head(r).elems # <<>> /\ NoneEmpty(Tail(r))
      /\ \A f : Num(r, f) = B!Times(Head(r).elems, f) + Num(Tail(r), f)
  BY <1>6, NodesRest
<1>8. Whole(r)
  BY <1>3, <1>6, <1>7 DEF Whole
<1>9. ASSUME NEW f
      PROVE  Num(r, f) = Num(q, f) + (IF f = e THEN 1 ELSE 0)
  <2>1. B!Times(o, f) \in Nat /\ Num(Tail(q), f) \in Nat
    BY <1>1, <1>2, TimesNat, NumNat
  <2>2. Num(r, f) = (B!Times(o, f) + (IF f = e THEN 1 ELSE 0)) + Num(Tail(q), f)
    BY <1>5, <1>6, <1>7
  <2> QED BY <1>1, <2>1, <2>2
<1> QED BY <1>4, <1>6, <1>8, <1>9

(* and popped.                                                             *)
LEMMA Popped ==
  ASSUME NEW p, Whole(p), p # <<>>, ~B!IsNull(p)
  PROVE  LET r == [p EXCEPT ![1].elems = B!Front(@)]
             x == B!Last(Head(p).elems)
         IN  /\ Nodes(r) /\ r # <<>> /\ Len(r) \in Nat \ {0} /\ NoneEmpty(Tail(r)) /\ Nodes(Tail(r))
             /\ BlocksIn(r) = BlocksIn(p) /\ Head(r).block \in BlocksIn(p)
             /\ BlocksIn(Tail(r)) = BlocksIn(p) \ {Head(r).block}
             /\ x \in Elems
             /\ \A f : Num(r, f) \in Nat /\ Num(p, f) = Num(r, f) + (IF f = x THEN 1 ELSE 0)
             /\ B!IsNull(r) => \A f : Num(Tail(r), f) = Num(r, f)
             /\ ~B!IsNull(r) => NoneEmpty(r)
<1> DEFINE o == Head(p).elems
           s == B!Front(o)
           x == B!Last(o)
           r == [p EXCEPT ![1].elems = s]
<1>1. Nodes(p) /\ NoneEmpty(p) /\ o # <<>>
  BY FullVec DEF Whole, B!IsNull
<1>2. /\ Nodes(Tail(p)) /\ Head(p) \in VecNode /\ Len(p) \in Nat \ {0}
      /\ NoneEmpty(Tail(p)) /\ Tail(p) \in Seq(VecNode)
      /\ \A f : Num(p, f) = B!Times(o, f) + Num(Tail(p), f)
  BY <1>1, NodesRest DEF Nodes
<1>3. o \in Seq(Elems)
  BY <1>2 DEF VecNode
<1>4. /\ s \in Seq(Elems) /\ x \in Elems
      /\ \A f : B!Times(o, f) = B!Times(s, f) + (IF f = x THEN 1 ELSE 0)
  BY <1>1, <1>3, TimesFront
<1>5. [p EXCEPT ![1].elems = B!Front(@)] = r
  <2>1. p \in Seq(VecNode) /\ p[1] = Head(p)
    BY <1>1 DEF Nodes
  <2> QED BY <2>1
<1> HIDE DEF o, s, x
<1>6. /\ Nodes(r) /\ r # <<>> /\ Len(r) = Len(p) /\ Tail(r) = Tail(p)
      /\ Head(r).elems = s /\ BlocksIn(r) = BlocksIn(p)
  BY <1>1, <1>4, HeadChanged
<1> HIDE DEF r
<1>7. /\ NoneEmpty(r) <=> Head(r).elems # <<>> /\ NoneEmpty(Tail(r))
      /\ Head(r).block \in BlocksIn(r) /\ BlocksIn(Tail(r)) = BlocksIn(r) \ {Head(r).block}
      /\ \A f : Num(r, f) = B!Times(Head(r).elems, f) + Num(Tail(r), f)
  BY <1>6, NodesRest
<1>8. ASSUME NEW f
      PROVE  Num(r, f) \in Nat /\ Num(p, f) = Num(r, f) + (IF f = x THEN 1 ELSE 0)
  <2>1. B!Times(s, f) \in Nat /\ Num(Tail(p), f) \in Nat
    BY <1>2, <1>4, TimesNat, NumNat
  <2>2. Num(r, f) = B!Times(s, f) + Num(Tail(p), f)
    BY <1>6, <1>7
  <2>3. Num(p, f) = (B!Times(s, f) + (IF f = x THEN 1 ELSE 0)) + Num(Tail(p), f)
    BY <1>2, <1>4
  <2> QED BY <2>1, <2>2, <2>3
<1>9. ASSUME B!IsNull(r), NEW f
      PROVE  Num(Tail(r), f) = Num(r, f)
  <2>1. s = <<>>
    BY <1>6, <1>9 DEF B!IsNull
  <2>2. B!Times(<<>>, f) = 0
    <3>1. {i \in DOMAIN <<>> : <<>>[i] = f} = {}
      OBVIOUS
    <3> QED BY <3>1, FS_EmptySet, SameCard DEF B!Times
  <2>3. Num(Tail(p), f) \in Nat
    BY <1>2, NumNat
  <2>4. Num(r, f) = B!Times(<<>>, f) + Num(Tail(p), f)
    BY <1>6, <1>7, <2>1
  <2>5. Num(Tail(r), f) = Num(Tail(p), f)
    BY <1>6
  <2>6. Num(r, f) = Num(Tail(p), f)
    BY <2>2, <2>3, <2>4
  <2> QED BY <2>5, <2>6
<1>10. ~B!IsNull(r) => NoneEmpty(r)
  BY <1>2, <1>6, <1>7 DEF B!IsNull
<1> QED BY <1>2, <1>4, <1>5, <1>6, <1>7, <1>8, <1>9, <1>10 DEF x, o

(* VEC_PUSH, VEC_GROW                                                      *)
LEMMA VecPushKeeps ==
  ASSUME B!BlocksValid, BlockInv, NEW v \in Vecs, NEW e \in Elems, B!Push(v, e)
  PROVE  BlockInv'
<1> DEFINE m == B!Manager
           a == B!Alloc(m)
           grow == Len(Head(vec[v]).elems) = BlockLen
           n == B!Empty(a.b)
           q == IF grow THEN <<n>> \o vec[v] ELSE vec[v]
           p == [q EXCEPT ![1].elems = Append(@, e)]
           k == [content EXCEPT ![v][e] = @ + 1]
           g == IF grow THEN a.m ELSE m
           O == Owned(vec, usedList)
           R == Others(vec, usedList, {v})
<1>1. /\ Vectors(vec, usedList) /\ Counts(vec, content) /\ Thrifty(m, O) /\ Managed(m, O)
      /\ vec[v] # <<>> /\ (grow => B!CanAlloc(m, 1)) /\ B!SetManager(g)
      /\ vec' = Put(vec, v, p) /\ usedList' = usedList /\ content' = k
  BY DEF BlockInv, Kept, Thrifty, B!Push, B!SetUp, B!bump, Put
<1>2. /\ Whole(vec[v]) /\ Nodes(vec[v]) /\ vec[v] \in Seq(VecNode)
      /\ BlocksIn(vec[v]) \subseteq O
  BY <1>1, VecApart
<1>3. /\ Nodes(Tail(vec[v])) /\ Len(vec[v]) \in Nat \ {0}
      /\ NoneEmpty(vec[v]) <=> Head(vec[v]).elems # <<>> /\ NoneEmpty(Tail(vec[v]))
  BY <1>1, <1>2, NodesRest
<1>4. R = O \ BlocksIn(vec[v])
  BY DEF Others
<1>5. grow => a.b \in BlockId \ O /\ Thrifty(a.m, O \cup {a.b})
  BY <1>1, Allocated
<1>6. ASSUME grow
      PROVE  /\ Nodes(q) /\ q # <<>> /\ NoneEmpty(Tail(q))
             /\ BlocksIn(q) = {a.b} \cup BlocksIn(vec[v])
             /\ \A f : Num(q, f) = Num(vec[v], f)
  <2>1. n \in VecNode /\ n.block = a.b /\ n.elems = <<>>
    BY <1>5, <1>6 DEF B!Empty, VecNode
  <2>2. Whole(<<n>>) /\ BlocksIn(<<n>>) = {a.b} /\ \A f : Num(<<n>>, f) = 0
    BY <1>5, <1>6, EmptyVec
  <2>3. ~B!IsNull(vec[v])
    <3>1. BlockLen \in Nat \ {0}
      BY DEF B!BlocksValid
    <3>2. Head(vec[v]).elems # <<>>
      BY <1>6, <3>1
    <3> QED BY <3>2 DEF B!IsNull
  <2>4. NoneEmpty(vec[v])
    BY <1>1, <1>2, <2>3, FullVec
  <2> DEFINE o == <<n>>
             w == vec[v]
             r == o \o w
  <2>5. q = r
    BY <1>6
  <2>6. o \in Seq(VecNode) /\ o # <<>>
    BY <2>1
  <2>7. r # <<>> /\ Tail(r) = w
    <3> HIDE DEF n
    <3> QED BY <1>2, <2>1
  <2>8. Nodes(o) /\ Nodes(w) /\ BlocksIn(o) \cap BlocksIn(w) = {}
    BY <1>2, <1>5, <1>6, <2>2 DEF Whole
  <2>9. BlocksIn(o) = {a.b} /\ \A f : Num(o, f) = 0
    BY <2>2
  <2> HIDE DEF a, n, o, w, q
  <2>10. Nodes(r) /\ BlocksIn(r) = BlocksIn(o) \cup BlocksIn(w)
         /\ \A f : Num(r, f) = Num(o, f) + Num(w, f)
    BY <2>8, NodesJoined
  <2> HIDE DEF r
  <2>11. \A f : Num(r, f) = Num(w, f)
    <3> TAKE f
    <3>1. Num(w, f) \in Nat
      BY <2>8, NumNat DEF Nodes
    <3> QED BY <2>9, <2>10, <3>1
  <2> QED BY <2>4, <2>5, <2>7, <2>9, <2>10, <2>11 DEF w
<1>7. ASSUME ~grow
      PROVE  /\ Nodes(q) /\ q # <<>> /\ (NoneEmpty(Tail(q)) \/ Len(q) = 1)
             /\ BlocksIn(q) = BlocksIn(vec[v])
             /\ \A f : Num(q, f) = Num(vec[v], f)
  BY <1>1, <1>2, <1>3, <1>7 DEF Whole
<1> HIDE DEF q
<1>8. /\ Whole(p) /\ BlocksIn(p) = BlocksIn(q)
      /\ \A f : Num(p, f) = Num(q, f) + (IF f = e THEN 1 ELSE 0)
  BY <1>6, <1>7, Pushed
<1> HIDE DEF p
<1>9. Thrifty(g, R \cup BlocksIn(p)) /\ BlocksIn(p) \cap R = {}
  <2> HIDE DEF a, m, R, O
  <2>1. CASE grow
    <3>1. BlocksIn(p) = {a.b} \cup BlocksIn(vec[v])
      BY <1>6, <1>8, <2>1
    <3>2. R \cup BlocksIn(p) = O \cup {a.b} /\ BlocksIn(p) \cap R = {}
      BY <1>2, <1>4, <1>5, <2>1, <3>1
    <3> QED BY <1>5, <2>1, <3>2
  <2>2. CASE ~grow
    <3>1. BlocksIn(p) = BlocksIn(vec[v])
      BY <1>7, <1>8, <2>2
    <3>2. R \cup BlocksIn(p) = O /\ BlocksIn(p) \cap R = {}
      BY <1>2, <1>4, <3>1
    <3> QED BY <1>1, <2>2, <3>2
  <2> QED BY <2>1, <2>2
<1>10. Recounted(k, content, {v}) /\ HasCount(k, v, p)
  <2>1. content \in [Vecs -> [Elems -> Nat]] /\ \A f \in Elems : content[v][f] = Num(vec[v], f)
    BY <1>1 DEF Counts
  <2>2. /\ k \in [Vecs -> [Elems -> Nat]] /\ \A w \in Vecs \ {v} : k[w] = content[w]
        /\ \A f \in Elems : k[v][f] = content[v][f] + (IF f = e THEN 1 ELSE 0)
    BY <2>1
  <2> HIDE DEF k, grow
  <2>3. \A f : Num(p, f) = Num(vec[v], f) + (IF f = e THEN 1 ELSE 0)
    BY <1>6, <1>7, <1>8
  <2> QED BY <2>1, <2>2, <2>3 DEF Recounted, HasCount
<1>11. g \in ManagerRec
  BY <1>9 DEF Thrifty, Managed
<1> HIDE DEF g, k, m, R
<1>12. B!Manager' = g
  BY <1>1, <1>11, ManagerSet
<1>13. Kept(g, Put(vec, v, p), usedList, k)
  BY <1>1, <1>8, <1>9, <1>10, PutKept DEF R
<1> QED BY <1>1, <1>12, <1>13 DEF BlockInv

(* VEC_POP                                                                 *)
LEMMA VecPopKeeps ==
  ASSUME B!BlocksValid, BlockInv, NEW v \in Vecs, B!Pop(v)
  PROVE  BlockInv'
<1> DEFINE m == B!Manager
           x == B!Last(Head(vec[v]).elems)
           r == [vec[v] EXCEPT ![1].elems = B!Front(@)]
           drop == B!IsNull(r) /\ Len(r) > 1
           p == IF drop THEN Tail(r) ELSE r
           k == [content EXCEPT ![v][x] = @ - 1]
           g == IF drop THEN B!FreeBlock(m, Head(r).block) ELSE m
           O == Owned(vec, usedList)
           R == Others(vec, usedList, {v})
<1>1. /\ Vectors(vec, usedList) /\ Counts(vec, content) /\ Thrifty(m, O) /\ Managed(m, O)
      /\ vec[v] # <<>> /\ ~B!IsNull(vec[v]) /\ B!SetManager(g)
      /\ vec' = Put(vec, v, p) /\ usedList' = usedList /\ content' = k
  BY DEF BlockInv, Kept, Thrifty, B!Pop, B!SetUp, B!bump, Put
<1>2. Whole(vec[v]) /\ BlocksIn(vec[v]) \subseteq O
  BY <1>1, VecApart
<1>3. R = O \ BlocksIn(vec[v])
  BY DEF Others
<1>4. /\ Nodes(r) /\ r # <<>> /\ Len(r) \in Nat \ {0} /\ NoneEmpty(Tail(r)) /\ Nodes(Tail(r))
      /\ BlocksIn(r) = BlocksIn(vec[v]) /\ Head(r).block \in BlocksIn(vec[v])
      /\ BlocksIn(Tail(r)) = BlocksIn(vec[v]) \ {Head(r).block}
      /\ x \in Elems
      /\ \A f : Num(r, f) \in Nat /\ Num(vec[v], f) = Num(r, f) + (IF f = x THEN 1 ELSE 0)
      /\ B!IsNull(r) => \A f : Num(Tail(r), f) = Num(r, f)
      /\ ~B!IsNull(r) => NoneEmpty(r)
  BY <1>1, <1>2, Popped
<1> HIDE DEF r, x, m, O, R
<1>5. Whole(p)
  <2>1. CASE drop
    BY <1>4, <2>1 DEF Whole
  <2>2. CASE ~B!IsNull(r)
    BY <1>4, <2>2 DEF Whole
  <2>3. CASE ~(Len(r) > 1)
    <3> DEFINE l == Len(r)
    <3>2. l \in Nat \ {0} /\ ~(l > 1)
      BY <1>4, <2>3
    <3> HIDE DEF l
    <3>3. l = 1
      BY <3>2
    <3>1. Len(r) = 1
      BY <3>3 DEF l
    <3> QED BY <1>4, <2>3, <3>1 DEF Whole
  <2> QED BY <2>1, <2>2, <2>3
<1>6. \A f : Num(p, f) = Num(r, f)
  BY <1>4
<1>7. Thrifty(g, R \cup BlocksIn(p)) /\ BlocksIn(p) \cap R = {}
  <2>1. CASE drop
    <3>1. Thrifty(g, O \ {Head(r).block})
      BY <1>1, <1>2, <1>4, <2>1, BlockFreed
    <3>2. R \cup BlocksIn(p) = O \ {Head(r).block} /\ BlocksIn(p) \cap R = {}
      BY <1>2, <1>3, <1>4, <2>1
    <3> QED BY <3>1, <3>2
  <2>2. CASE ~drop
    <3>1. R \cup BlocksIn(p) = O /\ BlocksIn(p) \cap R = {}
      BY <1>2, <1>3, <1>4, <2>2
    <3> QED BY <1>1, <2>2, <3>1
  <2> QED BY <2>1, <2>2
<1> HIDE DEF p
<1>8. Recounted(k, content, {v}) /\ HasCount(k, v, p)
  <2>1. content \in [Vecs -> [Elems -> Nat]] /\ \A f \in Elems : content[v][f] = Num(vec[v], f)
    BY <1>1 DEF Counts
  <2>2. \A f \in Elems : Num(p, f) \in Nat
                         /\ content[v][f] - (IF f = x THEN 1 ELSE 0) = Num(p, f)
    BY <1>4, <1>6, <2>1
  <2>3. content[v][x] - 1 \in Nat
    BY <1>4, <2>2
  <2>4. /\ k \in [Vecs -> [Elems -> Nat]] /\ \A w \in Vecs \ {v} : k[w] = content[w]
        /\ \A f \in Elems : k[v][f] = content[v][f] - (IF f = x THEN 1 ELSE 0)
    BY <1>4, <2>1, <2>3
  <2> HIDE DEF k
  <2> QED BY <2>2, <2>4 DEF Recounted, HasCount
<1>9. g \in ManagerRec
  BY <1>7 DEF Thrifty, Managed
<1> HIDE DEF g, k
<1>10. B!Manager' = g
  BY <1>1, <1>9, ManagerSet
<1>11. Kept(g, Put(vec, v, p), usedList, k)
  BY <1>1, <1>5, <1>7, <1>8, PutKept DEF R
<1> QED BY <1>1, <1>10, <1>11 DEF BlockInv

(* VEC_JOIN                                                                *)
LEMMA VecJoinKeeps ==
  ASSUME B!BlocksValid, BlockInv, NEW dst \in Vecs, NEW src \in Vecs, B!Join(dst, src)
  PROVE  BlockInv'
<1> DEFINE m == B!Manager
           a == B!Alloc(m)
           swap == B!IsNull(vec[dst])
           w == vec[dst]
           z == vec[src]
           p == IF swap THEN z ELSE w \o z
           q == IF swap THEN w ELSE <<B!Empty(a.b)>>
           k == [content EXCEPT ![dst] = [e \in Elems |-> @[e] + content[src][e]],
                                ![src] = [e \in Elems |-> 0]]
           g == IF swap THEN m ELSE a.m
           O == Owned(vec, usedList)
           R == Others(vec, usedList, {dst, src})
<1>1. /\ Vectors(vec, usedList) /\ Counts(vec, content) /\ Thrifty(m, O) /\ Managed(m, O)
      /\ dst # src /\ w # <<>> /\ z # <<>> /\ ~B!IsNull(z) /\ (~swap => B!CanAlloc(m, 1))
      /\ B!SetManager(g) /\ usedList' = usedList /\ content' = k
  BY DEF BlockInv, Kept, Thrifty, B!Join, B!SetUp, B!bump, B!Moved
<1>2. vec' = PutTwo(vec, dst, p, src, q)
  <2>1. vec' = [vec EXCEPT ![dst] = p, ![src] = q]
    <3>1. vec \in [Vecs -> Seq(VecNode)]
      BY <1>1 DEF Vectors
    <3>2. vec' = [vec EXCEPT ![dst] = IF swap THEN vec[src] ELSE @ \o vec[src],
                             ![src] = IF swap THEN vec[dst] ELSE <<B!Empty(a.b)>>]
      BY DEF B!Join
    <3> QED BY <1>1, <3>1, <3>2
  <2> QED BY <2>1 DEF PutTwo
<1>3. /\ Whole(w) /\ Nodes(w) /\ BlocksIn(w) \subseteq O
      /\ Whole(z) /\ Nodes(z) /\ BlocksIn(z) \subseteq O
      /\ BlocksIn(w) \cap BlocksIn(z) = {}
  BY <1>1, VecApart
<1>4. R = O \ (BlocksIn(w) \cup BlocksIn(z))
  BY DEF Others
<1>5. ~swap => a.b \in BlockId \ O /\ Thrifty(a.m, O \cup {a.b})
  BY <1>1, Allocated
<1>6. /\ content \in [Vecs -> [Elems -> Nat]]
      /\ \A e \in Elems : content[dst][e] = Num(w, e) /\ content[src][e] = Num(z, e)
  BY <1>1 DEF Counts
<1>7. /\ k \in [Vecs -> [Elems -> Nat]] /\ \A v \in Vecs \ {dst, src} : k[v] = content[v]
      /\ \A e \in Elems : k[dst][e] = content[dst][e] + content[src][e] /\ k[src][e] = 0
  <2> DEFINE h == [e \in Elems |-> content[dst][e] + content[src][e]]
             h0 == [e \in Elems |-> 0]
  <2>1. h \in [Elems -> Nat] /\ h0 \in [Elems -> Nat]
    BY <1>6
  <2>2. /\ \A e \in Elems : h[e] = content[dst][e] + content[src][e]
        /\ \A e \in Elems : h0[e] = 0
    OBVIOUS
  <2>3. k = [content EXCEPT ![dst] = h, ![src] = h0]
    BY <1>6
  <2> HIDE DEF h, h0, k
  <2> QED BY <1>1, <1>6, <2>1, <2>2, <2>3
<1>8. \A e : Num(w, e) \in Nat /\ Num(z, e) \in Nat
  BY <1>3, NumNat DEF Nodes
<1>9. ASSUME swap
      PROVE  /\ Whole(p) /\ Whole(q) /\ BlocksIn(p) = BlocksIn(z) /\ BlocksIn(q) = BlocksIn(w)
             /\ \A e : Num(p, e) = Num(w, e) + Num(z, e) /\ Num(q, e) = 0
  <2>1. \A e : Num(w, e) = 0
    BY <1>1, <1>3, <1>9, NullVec
  <2>2. p = z /\ q = w
    BY <1>9
  <2> HIDE DEF p, q, w, z
  <2> QED BY <1>3, <1>8, <2>1, <2>2
<1>10. ASSUME ~swap
       PROVE  /\ Whole(p) /\ Whole(q) /\ BlocksIn(p) = BlocksIn(w) \cup BlocksIn(z)
              /\ BlocksIn(q) = {a.b}
              /\ \A e : Num(p, e) = Num(w, e) + Num(z, e) /\ Num(q, e) = 0
  <2>1. NoneEmpty(w) /\ NoneEmpty(z)
    BY <1>1, <1>3, <1>10, FullVec
  <2>2. Whole(q) /\ BlocksIn(q) = {a.b} /\ \A e : Num(q, e) = 0
    BY <1>5, <1>10, EmptyVec
  <2>3. p = w \o z
    BY <1>10
  <2> HIDE DEF p, q, w, z
  <2>4. /\ Nodes(w \o z) /\ BlocksIn(w \o z) = BlocksIn(w) \cup BlocksIn(z)
        /\ NoneEmpty(w \o z) /\ \A e : Num(w \o z, e) = Num(w, e) + Num(z, e)
    BY <1>3, <2>1, NodesJoined
  <2> QED BY <2>2, <2>3, <2>4 DEF Whole
<1> HIDE DEF m, a, w, z, p, q, k, O, R
<1>11. /\ Thrifty(g, R \cup BlocksIn(p) \cup BlocksIn(q)) /\ BlocksIn(p) \cap BlocksIn(q) = {}
       /\ BlocksIn(p) \cap R = {} /\ BlocksIn(q) \cap R = {}
  <2>1. CASE swap
    <3>1. /\ R \cup BlocksIn(p) \cup BlocksIn(q) = O /\ BlocksIn(p) \cap BlocksIn(q) = {}
          /\ BlocksIn(p) \cap R = {} /\ BlocksIn(q) \cap R = {}
      BY <1>3, <1>4, <1>9, <2>1
    <3> QED BY <1>1, <2>1, <3>1
  <2>2. CASE ~swap
    <3>1. /\ R \cup BlocksIn(p) \cup BlocksIn(q) = O \cup {a.b}
          /\ BlocksIn(p) \cap BlocksIn(q) = {}
          /\ BlocksIn(p) \cap R = {} /\ BlocksIn(q) \cap R = {}
      BY <1>3, <1>4, <1>5, <1>10, <2>2
    <3> QED BY <1>5, <2>2, <3>1
  <2> QED BY <2>1, <2>2
<1>12. Whole(p) /\ Whole(q) /\ \A e : Num(p, e) = Num(w, e) + Num(z, e) /\ Num(q, e) = 0
  BY <1>9, <1>10
<1>13. Recounted(k, content, {dst, src}) /\ HasCount(k, dst, p) /\ HasCount(k, src, q)
  BY <1>6, <1>7, <1>12 DEF Recounted, HasCount
<1>14. g \in ManagerRec
  BY <1>11 DEF Thrifty, Managed
<1> HIDE DEF g
<1>15. B!Manager' = g
  BY <1>1, <1>14, ManagerSet
<1>16. Kept(g, PutTwo(vec, dst, p, src, q), usedList, k)
  BY <1>1, <1>11, <1>12, <1>13, PutTwoKept DEF R
<1> QED BY <1>1, <1>2, <1>15, <1>16 DEF BlockInv

(* VEC_TRANSFER: what it makes of the two vectors                          *)
LEMMA Transferred ==
  ASSUME NEW w, NEW z, Whole(w), Whole(z), w # <<>>, z # <<>>, ~B!IsNull(z),
         BlocksIn(w) \cap BlocksIn(z) = {}
  PROVE  LET b == Head(z)
             d == IF B!IsNull(w) THEN Tail(w) ELSE w
         IN  /\ Whole(Append(d, b)) /\ BlocksIn(Append(d, b)) = BlocksIn(d) \cup {b.block}
             /\ Whole(Tail(z)) /\ BlocksIn(Tail(z)) = BlocksIn(z) \ {b.block}
             /\ b.block \in BlocksIn(z)
             /\ Len(z) = 1 => \A e : Num(Tail(z), e) = 0
             /\ Len(z) = 1 => BlocksIn(z) = {b.block}
             /\ B!IsNull(w) => BlocksIn(d) = {} /\ BlocksIn(w) = {Head(w).block}
             /\ \A e : /\ Num(Append(d, b), e) = Num(w, e) + B!Times(b.elems, e)
                       /\ B!Times(b.elems, e) \in Nat /\ Num(Tail(z), e) \in Nat
                       /\ Num(z, e) = B!Times(b.elems, e) + Num(Tail(z), e)
<1> DEFINE b == Head(z)
           d == IF B!IsNull(w) THEN Tail(w) ELSE w
           t == Tail(z)
<1>1. NoneEmpty(z) /\ Nodes(z) /\ Nodes(w)
  BY FullVec DEF Whole
<1>2. /\ Nodes(t) /\ b \in VecNode /\ b.elems # <<>> /\ NoneEmpty(t)
      /\ Len(z) \in Nat /\ Len(t) = Len(z) - 1
      /\ b.block \in BlocksIn(z) /\ BlocksIn(t) = BlocksIn(z) \ {b.block}
      /\ \A e : Num(z, e) = B!Times(b.elems, e) + Num(t, e)
  BY <1>1, NodesRest
<1>3. b.elems \in Seq(Elems) /\ t \in Seq(VecNode)
  BY <1>2 DEF VecNode, Nodes
<1>4. \A e : B!Times(b.elems, e) \in Nat /\ Num(t, e) \in Nat
  BY <1>3, TimesNat, NumNat
<1>5. ASSUME Len(z) = 1
      PROVE  BlocksIn(z) = {b.block} /\ \A e : Num(t, e) = 0
  <2>1. Len(t) = 0
    BY <1>2, <1>5
  <2> HIDE DEF t, b
  <2>2. t = <<>>
    BY <1>3, <2>1
  <2>3. BlocksIn(t) = {} /\ \A e : Num(t, e) = 0
    BY <2>2, NumNone
  <2> QED BY <1>2, <2>3
<1>6. ASSUME B!IsNull(w)
      PROVE  /\ Nodes(d) /\ NoneEmpty(d) /\ BlocksIn(d) = {} /\ BlocksIn(w) = {Head(w).block}
             /\ \A e : Num(d, e) = Num(w, e)
  <2>1. Tail(w) = <<>> /\ BlocksIn(w) = {Head(w).block} /\ \A e : Num(w, e) = 0
    BY <1>6, NullVec
  <2>2. d = <<>>
    BY <1>6, <2>1
  <2>3. BlocksIn(<<>>) = {} /\ Nodes(<<>>) /\ NoneEmpty(<<>>) /\ \A e : Num(<<>>, e) = 0
    BY NumNone
  <2> QED BY <2>1, <2>2, <2>3
<1>7. ASSUME ~B!IsNull(w)
      PROVE  /\ Nodes(d) /\ NoneEmpty(d) /\ BlocksIn(d) = BlocksIn(w)
             /\ \A e : Num(d, e) = Num(w, e)
  <2>1. d = w
    BY <1>7
  <2>2. NoneEmpty(w)
    BY <1>7, FullVec
  <2> QED BY <1>1, <2>1, <2>2
<1> HIDE DEF b, d, t
<1>8. /\ Nodes(d) /\ NoneEmpty(d) /\ BlocksIn(d) \subseteq BlocksIn(w)
      /\ \A e : Num(d, e) = Num(w, e)
  BY <1>6, <1>7
<1> DEFINE o == <<b>>
<1>9. /\ Nodes(o) /\ BlocksIn(o) = {b.block} /\ NoneEmpty(o)
      /\ \A e : Num(o, e) = B!Times(b.elems, e)
  BY <1>2, NodeAlone
<1>10. Append(d, b) = d \o o
  BY <1>2, <1>8 DEF Nodes
<1> HIDE DEF o
<1>11. BlocksIn(d) \cap BlocksIn(o) = {}
  BY <1>2, <1>8, <1>9
<1>12. /\ Nodes(d \o o) /\ BlocksIn(d \o o) = BlocksIn(d) \cup BlocksIn(o) /\ NoneEmpty(d \o o)
       /\ \A e : Num(d \o o, e) = Num(d, e) + Num(o, e)
  BY <1>8, <1>9, <1>11, NodesJoined
<1>13. /\ Whole(Append(d, b)) /\ BlocksIn(Append(d, b)) = BlocksIn(d) \cup {b.block}
       /\ \A e : Num(Append(d, b), e) = Num(w, e) + B!Times(b.elems, e)
  <2> DEFINE r == d \o o
  <2> HIDE DEF r
  <2>1. /\ Nodes(r) /\ BlocksIn(r) = BlocksIn(d) \cup BlocksIn(o) /\ NoneEmpty(r)
        /\ \A e : Num(r, e) = Num(d, e) + Num(o, e)
    BY <1>12 DEF r
  <2>2. Append(d, b) = r
    BY <1>10 DEF r
  <2> QED BY <1>8, <1>9, <2>1, <2>2 DEF Whole
<1>14. Whole(t)
  BY <1>2 DEF Whole
<1> QED BY <1>2, <1>4, <1>5, <1>6, <1>13, <1>14 DEF b, d, t

(* and of the state.                                                       *)
LEMMA VecTransferKeeps ==
  ASSUME B!BlocksValid, BlockInv, NEW dst \in Vecs, NEW src \in Vecs, B!Transfer(dst, src)
  PROVE  BlockInv'
<1> DEFINE m == B!Manager
           w == vec[dst]
           z == vec[src]
           b == Head(z)
           null == B!IsNull(w)
           last == Len(z) = 1
           freed == IF null THEN B!FreeBlock(m, Head(w).block) ELSE m
           a == B!Alloc(freed)
           d == IF null THEN Tail(w) ELSE w
           p == Append(d, b)
           q == IF last THEN <<B!Empty(a.b)>> ELSE Tail(z)
           g == IF last THEN a.m ELSE freed
           k == [content EXCEPT ![dst] = [e \in Elems |-> @[e] + B!Times(b.elems, e)],
                                ![src] = [e \in Elems |-> @[e] - B!Times(b.elems, e)]]
           O == Owned(vec, usedList)
           F == IF null THEN O \ {Head(w).block} ELSE O
           R == Others(vec, usedList, {dst, src})
<1>1. /\ Vectors(vec, usedList) /\ Counts(vec, content) /\ Thrifty(m, O) /\ Managed(m, O)
      /\ dst # src /\ w # <<>> /\ z # <<>> /\ ~B!IsNull(z) /\ (last => B!CanAlloc(freed, 1))
      /\ B!SetManager(g) /\ usedList' = usedList /\ content' = k
  BY DEF BlockInv, Kept, Thrifty, B!Transfer, B!SetUp, B!bump
<1>2. vec' = PutTwo(vec, dst, p, src, q)
  <2>1. vec' = [vec EXCEPT ![dst] = p, ![src] = q]
    <3>1. vec \in [Vecs -> Seq(VecNode)]
      BY <1>1 DEF Vectors
    <3>2. vec' = [vec EXCEPT ![dst] = Append(IF null THEN Tail(@) ELSE @, b),
                             ![src] = IF last THEN <<B!Empty(a.b)>> ELSE Tail(@)]
      BY DEF B!Transfer
    <3> QED BY <1>1, <3>1, <3>2
  <2> QED BY <2>1 DEF PutTwo
<1>3. /\ Whole(w) /\ Nodes(w) /\ BlocksIn(w) \subseteq O
      /\ Whole(z) /\ Nodes(z) /\ BlocksIn(z) \subseteq O
      /\ BlocksIn(w) \cap BlocksIn(z) = {}
  BY <1>1, VecApart
<1>4. R = O \ (BlocksIn(w) \cup BlocksIn(z))
  BY DEF Others
<1>5. /\ Whole(p) /\ BlocksIn(p) = BlocksIn(d) \cup {b.block}
      /\ Whole(Tail(z)) /\ BlocksIn(Tail(z)) = BlocksIn(z) \ {b.block}
      /\ b.block \in BlocksIn(z)
      /\ last => BlocksIn(z) = {b.block} /\ \A e : Num(Tail(z), e) = 0
      /\ null => BlocksIn(d) = {} /\ BlocksIn(w) = {Head(w).block}
      /\ ~null => d = w
      /\ \A e : /\ Num(p, e) = Num(w, e) + B!Times(b.elems, e)
                /\ B!Times(b.elems, e) \in Nat /\ Num(Tail(z), e) \in Nat
                /\ Num(z, e) = B!Times(b.elems, e) + Num(Tail(z), e)
  BY <1>1, <1>3, Transferred
<1>6. \A e : Num(w, e) \in Nat
  BY <1>3, NumNat DEF Nodes
<1>7. /\ content \in [Vecs -> [Elems -> Nat]]
      /\ \A e \in Elems : content[dst][e] = Num(w, e) /\ content[src][e] = Num(z, e)
  BY <1>1 DEF Counts
<1>8. /\ k \in [Vecs -> [Elems -> Nat]] /\ \A v \in Vecs \ {dst, src} : k[v] = content[v]
      /\ \A e \in Elems : k[dst][e] = Num(p, e) /\ k[src][e] = Num(Tail(z), e)
  <2> DEFINE h == [e \in Elems |-> content[dst][e] + B!Times(b.elems, e)]
             j == [e \in Elems |-> content[src][e] - B!Times(b.elems, e)]
  <2>1. k = [content EXCEPT ![dst] = h, ![src] = j]
    BY <1>1, <1>7
  <2>2. \A e \in Elems : h[e] = Num(p, e) /\ h[e] \in Nat
    <3> TAKE e \in Elems
    <3>1. h[e] = Num(w, e) + B!Times(b.elems, e)
      BY <1>7
    <3> HIDE DEF h, p, w, b
    <3> QED BY <1>5, <1>6, <3>1
  <2>3. \A e \in Elems : j[e] = Num(Tail(z), e) /\ j[e] \in Nat
    <3> TAKE e \in Elems
    <3>1. j[e] = Num(z, e) - B!Times(b.elems, e)
      BY <1>7
    <3> DEFINE tz == Num(Tail(z), e)
    <3>2. tz \in Nat /\ Num(z, e) = B!Times(b.elems, e) + tz /\ B!Times(b.elems, e) \in Nat
      BY <1>5
    <3> HIDE DEF j, tz, z, b
    <3>3. j[e] = tz
      BY <3>1, <3>2
    <3> QED BY <3>2, <3>3 DEF tz, z
  <2>4. h \in [Elems -> Nat] /\ j \in [Elems -> Nat]
    BY <2>2, <2>3
  <2> HIDE DEF h, j, k, p, z
  <2> QED BY <1>1, <1>7, <2>1, <2>2, <2>3, <2>4
<1>9. Thrifty(freed, F) /\ Managed(freed, F)
  <2>1. CASE null
    <3>1. Head(w).block \in O
      BY <1>3, <1>5, <2>1
    <3> HIDE DEF m, O, w
    <3> QED BY <1>1, <2>1, <3>1, BlockFreed DEF Thrifty
  <2>2. CASE ~null
    BY <1>1, <2>2
  <2> QED BY <2>1, <2>2
<1>10. last => a.b \in BlockId \ F /\ Thrifty(a.m, F \cup {a.b})
  <2> HIDE DEF freed, F
  <2> QED BY <1>1, <1>9, Allocated
<1>11. F = R \cup BlocksIn(d) \cup BlocksIn(z) /\ BlocksIn(d) \subseteq BlocksIn(w)
  <2>1. CASE null
    <3> HIDE DEF O, R, w, z, d
    <3> QED BY <1>3, <1>4, <1>5, <2>1
  <2>2. CASE ~null
    <3> HIDE DEF O, R, w, z
    <3> QED BY <1>3, <1>4, <1>5, <2>2
  <2> QED BY <2>1, <2>2
<1>12. last => Whole(q) /\ BlocksIn(q) = {a.b} /\ \A e : Num(q, e) = 0
  BY <1>10, EmptyVec
<1>13. ~last => q = Tail(z)
  OBVIOUS
<1> HIDE DEF m, w, z, b, freed, a, d, p, q, k, O, F, R
<1>14. Whole(q) /\ \A e : Num(q, e) = Num(Tail(z), e)
  BY <1>5, <1>12, <1>13
<1>15. /\ Thrifty(g, R \cup BlocksIn(p) \cup BlocksIn(q)) /\ BlocksIn(p) \cap BlocksIn(q) = {}
       /\ BlocksIn(p) \cap R = {} /\ BlocksIn(q) \cap R = {}
  <2>1. CASE last
    <3>1. R \cup BlocksIn(p) \cup BlocksIn(q) = F \cup {a.b}
      BY <1>5, <1>11, <1>12, <2>1
    <3>2. /\ BlocksIn(p) \cap BlocksIn(q) = {}
          /\ BlocksIn(p) \cap R = {} /\ BlocksIn(q) \cap R = {}
      BY <1>3, <1>4, <1>5, <1>10, <1>11, <1>12, <2>1
    <3> QED BY <1>10, <2>1, <3>1, <3>2
  <2>2. CASE ~last
    <3>1. R \cup BlocksIn(p) \cup BlocksIn(q) = F
      BY <1>5, <1>11, <1>13, <2>2
    <3>2. /\ BlocksIn(p) \cap BlocksIn(q) = {}
          /\ BlocksIn(p) \cap R = {} /\ BlocksIn(q) \cap R = {}
      BY <1>3, <1>4, <1>5, <1>11, <1>13, <2>2
    <3> QED BY <1>9, <2>2, <3>1, <3>2
  <2> QED BY <2>1, <2>2
<1>16. Recounted(k, content, {dst, src}) /\ HasCount(k, dst, p) /\ HasCount(k, src, q)
  BY <1>8, <1>14 DEF Recounted, HasCount
<1>17. g \in ManagerRec
  BY <1>15 DEF Thrifty, Managed
<1> HIDE DEF g
<1>18. B!Manager' = g
  BY <1>1, <1>17, ManagerSet
<1>19. Kept(g, PutTwo(vec, dst, p, src, q), usedList, k)
  BY <1>1, <1>5, <1>14, <1>15, <1>16, PutTwoKept DEF R
<1> QED BY <1>1, <1>2, <1>18, <1>19 DEF BlockInv

(* The invariant after a step of the bump allocator.                       *)
LEMMA UsedKept ==
  ASSUME NEW x, NEW u, NEW n, Vectors(x, u), Counts(x, n), NEW r, r \in Seq(BlockId),
         B!IsInjective(r), B!Range(r) \cap AllBlocks(x) = {},
         NEW m, Thrifty(m, AllBlocks(x) \cup B!Range(r))
  PROVE  Kept(m, x, r, n)
<1>1. Vectors(x, r)
  BY DEF Vectors
<1>2. Thrifty(m, Owned(x, r))
  BY DEF Owned
<1> QED BY <1>1, <1>2 DEF Kept

(* chiBlockAllocSetup                                                      *)
LEMMA BumpSetupKeeps ==
  ASSUME B!BlocksValid, BlockInv, B!BumpSetup
  PROVE  BlockInv'
<1> DEFINE m == B!Manager
           a == B!Alloc(m)
           u == <<a.b>>
           A == AllBlocks(vec)
<1>1. /\ Vectors(vec, usedList) /\ Counts(vec, content) /\ Managed(m, Owned(vec, usedList))
      /\ usedList = <<>> /\ B!CanAlloc(m, 1) /\ B!SetManager(a.m)
      /\ usedList' = u /\ vec' = vec /\ content' = content
  BY DEF BlockInv, Kept, Thrifty, B!BumpSetup
<1>2. Owned(vec, usedList) = A
  BY <1>1 DEF Owned, B!Range
<1> HIDE DEF m, A
<1>3. a.b \in BlockId \ A /\ Thrifty(a.m, A \cup {a.b}) /\ a.m \in ManagerRec
  BY <1>1, <1>2, Allocated DEF Thrifty, Managed
<1>4. B!Manager' = a.m
  BY <1>1, <1>3, ManagerSet
<1> HIDE DEF a
<1>5. u \in Seq(BlockId) /\ B!IsInjective(u) /\ B!Range(u) = {a.b}
  BY <1>3, ListOfOne
<1> HIDE DEF u
<1>6. B!Range(u) \cap A = {} /\ Thrifty(a.m, A \cup B!Range(u))
  BY <1>3, <1>5
<1>7. Kept(a.m, vec, u, content)
  BY <1>1, <1>5, <1>6, UsedKept DEF A
<1> QED BY <1>1, <1>4, <1>7 DEF BlockInv

(* chiBlockAllocNew, chiBlockAllocFresh                                    *)
LEMMA BumpNewKeeps ==
  ASSUME B!BlocksValid, BlockInv, NEW words, B!BumpNew(words)
  PROVE  BlockInv'
<1> DEFINE m == B!Manager
           a == B!Alloc(m)
           o == <<a.b>>
           fits == bumped + words <= BlockLen
           u == IF fits THEN usedList ELSE Append(usedList, a.b)
           g == IF fits THEN m ELSE a.m
           O == Owned(vec, usedList)
           A == AllBlocks(vec)
<1>1. /\ Vectors(vec, usedList) /\ Counts(vec, content) /\ Thrifty(m, O) /\ Managed(m, O)
      /\ (~fits => B!CanAlloc(m, 1)) /\ B!SetManager(g)
      /\ usedList' = u /\ vec' = vec /\ content' = content
  BY DEF BlockInv, Kept, Thrifty, B!BumpNew
<1>2. /\ O = A \cup B!Range(usedList) /\ B!Range(usedList) \cap A = {}
      /\ usedList \in Seq(BlockId) /\ B!IsInjective(usedList)
  BY <1>1 DEF Owned, Vectors
<1> HIDE DEF m, A, O
<1>3. ~fits => a.b \in BlockId \ O /\ Thrifty(a.m, O \cup {a.b})
  BY <1>1, Allocated
<1> HIDE DEF a
<1>4. ASSUME ~fits
      PROVE  /\ u \in Seq(BlockId) /\ B!IsInjective(u)
             /\ B!Range(u) = B!Range(usedList) \cup {a.b}
  <2>1. o \in Seq(BlockId) /\ B!IsInjective(o) /\ B!Range(o) = {a.b}
    BY <1>3, <1>4, ListOfOne
  <2>2. u = usedList \o o
    BY <1>2, <1>3, <1>4
  <2> HIDE DEF o, u
  <2>3. B!Range(usedList) \cap B!Range(o) = {}
    BY <1>2, <1>3, <1>4, <2>1
  <2>4. /\ usedList \o o \in Seq(BlockId) /\ B!IsInjective(usedList \o o)
        /\ B!Range(usedList \o o) = B!Range(usedList) \cup B!Range(o)
    BY <1>2, <2>1, <2>3, ListsJoined
  <2> QED BY <2>1, <2>2, <2>4
<1>5. ASSUME fits
      PROVE  u = usedList
  BY <1>5
<1> HIDE DEF u
<1>6. u \in Seq(BlockId) /\ B!IsInjective(u)
  BY <1>2, <1>4, <1>5
<1>7. B!Range(u) \cap A = {} /\ Thrifty(g, A \cup B!Range(u))
  <2>1. CASE fits
    BY <1>1, <1>2, <1>5, <2>1
  <2>2. CASE ~fits
    <3>1. A \cup B!Range(u) = O \cup {a.b} /\ B!Range(u) \cap A = {}
      BY <1>2, <1>3, <1>4, <2>2
    <3> QED BY <1>3, <2>2, <3>1
  <2> QED BY <2>1, <2>2
<1>8. g \in ManagerRec
  BY <1>7 DEF Thrifty, Managed
<1> HIDE DEF g
<1>9. B!Manager' = g
  BY <1>1, <1>8, ManagerSet
<1>10. Kept(g, vec, u, content)
  BY <1>1, <1>6, <1>7, UsedKept DEF A
<1> QED BY <1>1, <1>9, <1>10 DEF BlockInv

(* chiBlockAllocDestroy                                                    *)
LEMMA BumpDestroyKeeps ==
  ASSUME B!BlocksValid, BlockInv, B!BumpDestroy
  PROVE  BlockInv'
<1> DEFINE m == B!Manager
           g == B!FreeBlocks(m, usedList)
           u == <<>>
           O == Owned(vec, usedList)
           A == AllBlocks(vec)
<1>1. /\ Vectors(vec, usedList) /\ Counts(vec, content) /\ Thrifty(m, O)
      /\ B!SetManager(g) /\ usedList' = u /\ vec' = vec /\ content' = content
  BY DEF BlockInv, Kept, B!BumpDestroy
<1>2. /\ O = A \cup B!Range(usedList) /\ B!Range(usedList) \cap A = {}
      /\ usedList \in Seq(BlockId) /\ B!IsInjective(usedList)
  BY <1>1 DEF Owned, Vectors
<1>3. u \in Seq(BlockId) /\ B!IsInjective(u) /\ B!Range(u) = {}
  BY DEF B!IsInjective, B!Range
<1> HIDE DEF m, A, O, u
<1>4. Thrifty(g, O \ B!Range(usedList))
  BY <1>1, <1>2, BlocksFreed
<1> HIDE DEF g
<1>5. O \ B!Range(usedList) = A \cup B!Range(u) /\ B!Range(u) \cap A = {}
  BY <1>2, <1>3
<1>6. g \in ManagerRec /\ Thrifty(g, A \cup B!Range(u))
  BY <1>4, <1>5 DEF Thrifty, Managed
<1>7. B!Manager' = g
  BY <1>1, <1>6, ManagerSet
<1>8. Kept(g, vec, u, content)
  BY <1>1, <1>3, <1>5, <1>6, UsedKept DEF A
<1> QED BY <1>1, <1>7, <1>8 DEF BlockInv

(* In the beginning nothing is in use,                                     *)
LEMMA BlocksStart ==
  ASSUME B!BlocksValid, B!Init
  PROVE  BlockInv
<1> DEFINE m == B!Manager
<1>1. /\ m = [chunks |-> {}, next |-> B!NoBlock, count |-> 0, free |-> <<>>]
      /\ vec = [v \in Vecs |-> <<>>] /\ usedList = <<>>
      /\ content = [v \in Vecs |-> [e \in Elems |-> 0]]
  BY DEF B!Init, B!Manager
<1> HIDE DEF m
<1>2. B!Range(<<>>) = {} /\ B!IsInjective(<<>>) /\ Len(<<>>) = 0 /\ <<>> \in Seq(BlockId)
  BY DEF B!Range, B!IsInjective
<1>3. m \in ManagerRec /\ m.free = <<>> /\ m.chunks = {} /\ m.next = B!NoBlock /\ m.count = 0
  BY <1>1 DEF ManagerRec
<1>4. \A v \in Vecs : /\ vec[v] = <<>> /\ Whole(vec[v]) /\ BlocksIn(vec[v]) = {}
                      /\ \A e : Num(vec[v], e) = 0
  BY <1>1, NumNone DEF Whole
<1>5. AllBlocks(vec) = {} /\ Owned(vec, usedList) = {}
  BY <1>1, <1>2, <1>4 DEF AllBlocks, Owned
<1>6. Thrifty(m, {})
  BY <1>2, <1>3, FS_EmptySet DEF Thrifty, Managed, Given
<1>7. Vectors(vec, usedList)
  <2>1. vec \in [Vecs -> Seq(VecNode)]
    BY <1>1
  <2> QED BY <1>1, <1>2, <1>4, <1>5, <2>1 DEF Vectors
<1>8. Counts(vec, content)
  BY <1>1, <1>4 DEF Counts
<1>9. Kept(m, vec, usedList, content)
  BY <1>5, <1>6, <1>7, <1>8 DEF Kept
<1> QED BY <1>9 DEF BlockInv, m

(* every step keeps the invariant,                                         *)
LEMMA BlocksStep ==
  ASSUME B!BlocksValid, BlockInv, [B!Next]_B!vars
  PROVE  BlockInv'
<1>1. CASE UNCHANGED B!vars
  BY <1>1 DEF BlockInv, B!Manager, B!vars, B!manager, B!bump
<1>2. CASE B!Next
  BY <1>2, VecInitKeeps, VecFreeKeeps, VecPopKeeps, VecPushKeeps, VecJoinKeeps,
         VecTransferKeeps, BumpSetupKeeps, BumpDestroyKeeps, BumpNewKeeps DEF B!Next
<1> QED BY <1>1, <1>2

(* and it says what the blocks and the vectors promise.                    *)
LEMMA BlocksMean ==
  ASSUME B!BlocksValid, BlockInv
  PROVE  B!BlocksSound /\ B!VecHolds
<1> DEFINE m == B!Manager
           O == Owned(vec, usedList)
           G == B!Range(freeList)
<1>1. Vectors(vec, usedList) /\ Counts(vec, content) /\ Thrifty(m, O)
  BY DEF BlockInv, Kept
<1>2. /\ m.chunks = blockChunks /\ m.next = nextBlock /\ m.count = blocksCount
      /\ m.free = freeList
  BY DEF B!Manager
<1>3. B!VecBlocks = AllBlocks(vec) /\ B!InUse = O
  BY DEF B!VecBlocks, B!InUse, AllBlocks, Owned, BlocksIn
<1>4. /\ freeList \in Seq(BlockId) /\ IsFiniteSet(O) /\ O \subseteq BlockId
      /\ B!IsInjective(freeList) /\ G \cap O = {}
      /\ blocksCount = Cardinality(O) + Len(freeList)
      /\ nextBlock \in BlockId \cup {B!NoBlock}
      /\ \A b \in O \cup G : b[1] \in blockChunks
                             /\ (b[1] = nextBlock[1] => b[2] < nextBlock[2])
      /\ nextBlock # B!NoBlock => nextBlock[1] \in blockChunks
      /\ O = {} => blockChunks = {}
  <2> HIDE DEF m, O
  <2> QED BY <1>1, <1>2 DEF Thrifty, Managed, ManagerRec, Given
<1>5. /\ \A v \in Vecs : B!IsInjective(B!BlocksOf(vec[v])) /\ Whole(vec[v])
      /\ \A v, w \in Vecs : v # w
           => B!Range(B!BlocksOf(vec[v])) \cap B!Range(B!BlocksOf(vec[w])) = {}
      /\ B!IsInjective(usedList) /\ B!Range(usedList) \cap B!VecBlocks = {}
  BY <1>1, <1>3 DEF Vectors, Whole, Nodes, BlocksIn
<1> HIDE DEF m, O, G
<1>6. B!Cardinality(O \cup G) = blocksCount
  <2>1. IsFiniteSet(G) /\ Cardinality(G) = Len(freeList)
    BY <1>4, ListLength DEF G
  <2>2. Cardinality(O \cup G) = Cardinality(O) + Cardinality(G) - Cardinality(O \cap G)
    BY <1>4, <2>1, FS_Union
  <2>3. Cardinality(O \cap G) = 0
    <3>1. O \cap G = {}
      BY <1>4
    <3> QED BY <3>1, FS_EmptySet
  <2>4. Cardinality(O) \in Nat /\ Cardinality(G) \in Nat
    BY <1>4, <2>1, FS_CardinalityType
  <2> QED BY <1>4, <2>1, <2>2, <2>3, <2>4, SameCard
<1>7. nextBlock \notin O \cup G
  <2> SUFFICES ASSUME nextBlock \in O \cup G
               PROVE  FALSE
    OBVIOUS
  <2>1. nextBlock[2] < nextBlock[2]
    BY <1>4
  <2>2. nextBlock[2] \in Nat
    BY <1>4 DEF BlockId, B!NoBlock, B!BlocksValid
  <2> QED BY <2>1, <2>2
<1>8. \A b \in O \cup G \cup ({nextBlock} \ {B!NoBlock}) : b[1] \in blockChunks
  BY <1>4
<1>9. B!BlocksSound
  BY <1>3, <1>4, <1>5, <1>6, <1>7, <1>8 DEF B!BlocksSound, G
<1>10. B!VecHolds
  <2>1. \A v \in Vecs : \A i \in DOMAIN vec[v] : vec[v][i].elems = <<>> => Len(vec[v]) = 1
    BY <1>5 DEF Whole, NoneEmpty
  <2>2. \A v \in Vecs : \A e \in Elems : B!Cardinality(B!Found(vec[v], e)) = content[v][e]
    BY <1>1, SameCard DEF Counts, Num
  <2> QED BY <2>1, <2>2 DEF B!VecHolds
<1> QED BY <1>9, <1>10

(* Blocks are in one place each, the chunks go when no block is in use,    *)
(* and a vector has, as often as it was pushed and not popped, what it was *)
(* given by pushes, joins and transfers (blockman.c, blockvec.h).          *)
THEOREM VectorsAreWhole ==
  ASSUME B!BlocksValid
  PROVE  B!Spec => [](B!BlocksSound /\ B!VecHolds)
<1>1. B!Init => BlockInv
  BY BlocksStart
<1>2. BlockInv /\ [B!Next]_B!vars => BlockInv'
  BY BlocksStep
<1>3. BlockInv => B!BlocksSound /\ B!VecHolds
  BY BlocksMean
<1> QED BY <1>1, <1>2, <1>3, PTL DEF B!Spec

-----------------------------------------------------------------------------
(* Types of the variables.                                                 *)
ScanType ==
  /\ global \in {"SYNC2", "ASYNC"} /\ local \in [Runners -> {"SYNC2", "ASYNC"}]
  /\ running \in [Runners -> SUBSET Stacks]
  /\ holder \in [Stacks -> Runners \cup {Scan!Nobody}]
  /\ onStack \in [Stacks -> SUBSET Refs]
  /\ dirtyOf \in [Stacks -> Runners \cup {Scan!Nobody}]
  /\ stackColor \in [Stacks -> {"white", "gray", "black"}]
  /\ found \subseteq Stacks /\ gray \subseteq Stacks
  /\ field \subseteq Refs /\ fieldScanned \in BOOLEAN
  /\ state \in [Refs -> {"none", "minor", "white", "marked"}]
  /\ slice \in [Runners -> {"no", "plain", "snapshot"}]
  /\ todoStacks \in [Runners -> SUBSET Stacks]

(* A stack is locked by the processor that runs or scavenges it, and the   *)
(* list of dirty objects it may be in is that processor's.                 *)
Locks ==
  /\ \A p \in Runners : \A s \in running[p] :
       running[p] = {s} /\ holder[s] = p /\ dirtyOf[s] \in {p, Scan!Nobody} /\ slice[p] = "no"
  /\ \A p \in Runners : \A s \in todoStacks[p] : dirtyOf[s] = p /\ slice[p] # "no"
  /\ \A s \in Stacks : holder[s] # Scan!Nobody =>
       s \in running[holder[s]] \/ s \in todoStacks[holder[s]]

(* Nothing is marked in SYNC2, and a scavenge that begins in SYNC2 after   *)
(* the phase has changed is a snapshot.                                    *)
Phases ==
  /\ global = "SYNC2" =>
       /\ ~fieldScanned /\ found = {} /\ gray = {}
       /\ \A s \in Stacks : stackColor[s] = "white"
       /\ \A p \in Runners : local[p] = "SYNC2" /\ slice[p] # "snapshot"
  /\ \A p \in Runners : slice[p] = "snapshot" => local[p] = "SYNC2"
  /\ \A p \in Runners : slice[p] = "plain" /\ local[p] = "SYNC2" => global = "SYNC2"

(* The marker need not look at a stack any more: white objects on it are   *)
(* in the field that it will look at.                                      *)
Clean(s) == \A o \in onStack[s] : state[o] = "white" => o \in field /\ ~fieldScanned

(* The snapshot of a processor will scan the stack.                        *)
Watched(s) ==
  \E p \in Runners : local[p] = "SYNC2" /\ (s \in running[p] \/ dirtyOf[s] = p)

(* The marker has marked what the field refers to.                         *)
FieldPromise == fieldScanned => \A o \in field : state[o] # "white"

(* A processor in ASYNC has scanned what it ran before, with its snapshot, *)
(* and what it runs since, when it activated it.                           *)
RunnerPromise ==
  \A p \in Runners, s \in Stacks :
    local[p] = "ASYNC" /\ (s \in running[p] \/ dirtyOf[s] = p) => Clean(s)

(* So it has the dirty stacks that its snapshot has come to.               *)
SnapshotPromise ==
  \A p \in Runners, s \in Stacks :
    slice[p] = "snapshot" /\ dirtyOf[s] = p /\ s \notin todoStacks[p] => Clean(s)

(* A stack that the marker has finished with, or left alone because it was *)
(* locked or black, is clean or will be.                                   *)
MarkerPromise ==
  \A s \in Stacks :
    stackColor[s] = "black" \/ (stackColor[s] = "gray" /\ s \notin gray) => Clean(s) \/ Watched(s)

Promises == FieldPromise /\ RunnerPromise /\ SnapshotPromise /\ MarkerPromise

ScanInv == ScanType /\ Locks /\ Phases /\ Promises

-----------------------------------------------------------------------------
(* The invariant holds in the beginning, when nothing is marked.           *)
LEMMA ScanInit ==
  ASSUME Scan!RunnersValid, Scan!Init
  PROVE  ScanInv
<1>1. ScanType BY DEF Scan!Init, ScanType
<1>2. Locks BY DEF Scan!Init, Locks
<1>3. Phases BY DEF Scan!Init, Phases
<1>4. Promises
  BY DEF Scan!Init, Promises, FieldPromise, RunnerPromise, SnapshotPromise, MarkerPromise,
         Scan!RunnersValid
<1> QED BY <1>1, <1>2, <1>3, <1>4 DEF ScanInv

(* A processor activates a stack: in ASYNC it scans it, in SYNC2 its       *)
(* snapshot will.                                                          *)
LEMMA ActivateKeeps ==
  ASSUME Scan!RunnersValid, ~Overlap, ScanInv, NEW p \in Runners, NEW s \in Stacks,
         Scan!Activate(p, s)
  PROVE  ScanInv'
<1> USE DEF Scan!RunnersValid
<1>1. ScanType'
  BY DEF ScanInv, ScanType, Scan!Activate, Scan!Rest, Scan!ScansActivated, Scan!Marked
<1>2. Locks'
  BY DEF ScanInv, ScanType, Locks, Scan!Activate, Scan!Rest, Scan!ScansActivated, Scan!Marked
<1>3. Phases'
  BY DEF ScanInv, ScanType, Phases, Locks, Scan!Activate, Scan!Rest, Scan!ScansActivated,
         Scan!Marked
<1>4. FieldPromise'
  BY DEF ScanInv, ScanType, Locks, Phases, Promises, FieldPromise, RunnerPromise, Clean,
         Scan!Activate, Scan!Rest, Scan!ScansActivated, Scan!Marked
<1>5. RunnerPromise'
  BY DEF ScanInv, ScanType, Locks, Phases, Promises, FieldPromise, RunnerPromise,
         SnapshotPromise, MarkerPromise, Clean, Watched, Scan!Activate, Scan!Rest,
         Scan!ScansActivated, Scan!Marked
<1>6. SnapshotPromise'
  BY DEF ScanInv, ScanType, Locks, Phases, Promises, FieldPromise, SnapshotPromise, Clean,
         Scan!Activate, Scan!Rest, Scan!ScansActivated, Scan!Marked
<1>7. MarkerPromise'
  BY DEF ScanInv, ScanType, Locks, Phases, Promises, FieldPromise, RunnerPromise,
         SnapshotPromise, MarkerPromise, Clean, Watched, Scan!Activate, Scan!Rest,
         Scan!ScansActivated, Scan!Marked
<1> QED BY <1>1, <1>2, <1>3, <1>4, <1>5, <1>6, <1>7 DEF ScanInv, Promises

(* It deactivates one, which becomes dirty, so that it still answers for   *)
(* it.                                                                     *)
LEMMA DeactivateKeeps ==
  ASSUME Scan!RunnersValid, ~Overlap, ScanInv, NEW p \in Runners, Scan!Deactivate(p)
  PROVE  ScanInv'
<1> USE DEF Scan!RunnersValid
<1>1. ScanType'
  BY DEF ScanInv, ScanType, Scan!Deactivate, Scan!Rest
<1> PICK s \in running[p] :
      /\ running' = [running EXCEPT ![p] = {}]
      /\ dirtyOf' = [dirtyOf EXCEPT ![s] = p]
      /\ holder' = [holder EXCEPT ![s] = Scan!Nobody]
  BY DEF Scan!Deactivate
<1>2. /\ s \in Stacks /\ running[p] = {s} /\ slice[p] = "no"
      /\ holder[s] = p /\ dirtyOf[s] \in {p, Scan!Nobody}
  BY DEF ScanInv, ScanType, Locks
<1>3. Locks'
  BY <1>2 DEF ScanInv, ScanType, Locks, Scan!Deactivate, Scan!Rest
<1>4. Phases'
  BY DEF ScanInv, ScanType, Phases, Locks, Scan!Deactivate, Scan!Rest
<1>5. Promises'
  BY <1>2 DEF ScanInv, ScanType, Locks, Phases, Promises, FieldPromise, RunnerPromise,
         SnapshotPromise, MarkerPromise, Clean, Watched, Scan!Deactivate, Scan!Rest
<1> QED BY <1>1, <1>3, <1>4, <1>5 DEF ScanInv

(* A new object is in the minor heap.                                      *)
LEMMA NewKeeps ==
  ASSUME Scan!RunnersValid, ~Overlap, ScanInv, NEW p \in Runners, NEW o \in Refs, Scan!New(p, o)
  PROVE  ScanInv'
<1> USE DEF Scan!RunnersValid
<1>1. ScanType'
  BY DEF ScanInv, ScanType, Scan!New, Scan!Rest
<1>2. Locks'
  BY DEF ScanInv, ScanType, Locks, Scan!New, Scan!Rest
<1>3. Phases'
  BY DEF ScanInv, ScanType, Phases, Locks, Scan!New, Scan!Rest
<1>4. Promises'
  BY DEF ScanInv, ScanType, Locks, Phases, Promises, FieldPromise, RunnerPromise,
         SnapshotPromise, MarkerPromise, Clean, Watched, Scan!New, Scan!Rest
<1> QED BY <1>1, <1>2, <1>3, <1>4 DEF ScanInv

(* What is loaded stays in the field, and is marked there when that has    *)
(* been scanned.                                                           *)
LEMMA LoadKeeps ==
  ASSUME Scan!RunnersValid, ~Overlap, ScanInv, NEW p \in Runners, Scan!Load(p)
  PROVE  ScanInv'
<1> USE DEF Scan!RunnersValid
<1>1. ScanType'
  BY DEF ScanInv, ScanType, Scan!Load, Scan!Rest
<1>2. Locks'
  BY DEF ScanInv, ScanType, Locks, Scan!Load, Scan!Rest
<1>3. Phases'
  BY DEF ScanInv, ScanType, Phases, Locks, Scan!Load, Scan!Rest
<1>4. Promises'
  BY DEF ScanInv, ScanType, Locks, Phases, Promises, FieldPromise, RunnerPromise,
         SnapshotPromise, MarkerPromise, Clean, Watched, Scan!Load, Scan!Rest
<1> QED BY <1>1, <1>2, <1>3, <1>4 DEF ScanInv

(* Dropping an object takes nothing away that a promise is about.          *)
LEMMA PopKeeps ==
  ASSUME Scan!RunnersValid, ~Overlap, ScanInv, NEW p \in Runners, NEW o \in Refs, Scan!Pop(p, o)
  PROVE  ScanInv'
<1> USE DEF Scan!RunnersValid
<1>1. ScanType'
  BY DEF ScanInv, ScanType, Scan!Pop, Scan!Rest
<1>2. Locks'
  BY DEF ScanInv, ScanType, Locks, Scan!Pop, Scan!Rest
<1>3. Phases'
  BY DEF ScanInv, ScanType, Phases, Locks, Scan!Pop, Scan!Rest
<1>4. Promises'
  BY DEF ScanInv, ScanType, Locks, Phases, Promises, FieldPromise, RunnerPromise,
         SnapshotPromise, MarkerPromise, Clean, Watched, Scan!Pop, Scan!Rest
<1> QED BY <1>1, <1>2, <1>3, <1>4 DEF ScanInv

(* The barrier marks what was in the field, and in SYNC2 what is stored.   *)
LEMMA StoreKeeps ==
  ASSUME Scan!RunnersValid, ~Overlap, ScanInv, NEW p \in Runners, NEW o \in Refs, Scan!Store(p, o)
  PROVE  ScanInv'
<1> USE DEF Scan!RunnersValid
<1>1. ScanType'
  BY DEF ScanInv, ScanType, Scan!Store, Scan!Rest, Scan!Marked
<1>2. Locks'
  BY DEF ScanInv, ScanType, Locks, Scan!Store, Scan!Rest, Scan!Marked
<1>3. Phases'
  BY DEF ScanInv, ScanType, Phases, Locks, Scan!Store, Scan!Rest, Scan!Marked
<1>4. FieldPromise'
  BY DEF ScanInv, ScanType, Locks, Phases, Promises, FieldPromise, RunnerPromise, Clean,
         Scan!Store, Scan!Rest, Scan!Marked
<1>5. RunnerPromise'
  BY DEF ScanInv, ScanType, Locks, Phases, Promises, FieldPromise, RunnerPromise,
         SnapshotPromise, MarkerPromise, Clean, Watched, Scan!Store, Scan!Rest, Scan!Marked
<1>6. SnapshotPromise'
  BY DEF ScanInv, ScanType, Locks, Phases, Promises, FieldPromise, SnapshotPromise, Clean,
         Scan!Store, Scan!Rest, Scan!Marked
<1>7. MarkerPromise'
  BY DEF ScanInv, ScanType, Locks, Phases, Promises, FieldPromise, RunnerPromise,
         SnapshotPromise, MarkerPromise, Clean, Watched, Scan!Store, Scan!Rest, Scan!Marked
<1> QED BY <1>1, <1>2, <1>3, <1>4, <1>5, <1>6, <1>7 DEF ScanInv, Promises

(* A scavenge begins: a snapshot has all dirty stacks before it.           *)
LEMMA SliceBeginKeeps ==
  ASSUME Scan!RunnersValid, ~Overlap, ScanInv, NEW p \in Runners, Scan!SliceBegin(p)
  PROVE  ScanInv'
<1> USE DEF Scan!RunnersValid
<1>1. ScanType'
  BY DEF ScanInv, ScanType, Scan!SliceBegin, Scan!Threads
<1>2. Locks'
  BY DEF ScanInv, ScanType, Locks, Scan!SliceBegin, Scan!Threads
<1>3. Phases'
  BY DEF ScanInv, ScanType, Phases, Locks, Scan!SliceBegin, Scan!Threads
<1>4. Promises'
  BY DEF ScanInv, ScanType, Locks, Phases, Promises, FieldPromise, RunnerPromise,
         SnapshotPromise, MarkerPromise, Clean, Watched, Scan!SliceBegin, Scan!Threads
<1> QED BY <1>1, <1>2, <1>3, <1>4 DEF ScanInv

(* It locks a stack.                                                       *)
LEMMA ScanLockKeeps ==
  ASSUME Scan!RunnersValid, ~Overlap, ScanInv, NEW p \in Runners, NEW s \in Stacks,
         Scan!ScanLock(p, s)
  PROVE  ScanInv'
<1> USE DEF Scan!RunnersValid
<1>1. ScanType'
  BY DEF ScanInv, ScanType, Scan!ScanLock, Scan!Threads
<1>2. Locks'
  BY DEF ScanInv, ScanType, Locks, Scan!ScanLock, Scan!Threads
<1>3. Phases'
  BY DEF ScanInv, ScanType, Phases, Locks, Scan!ScanLock, Scan!Threads
<1>4. Promises'
  BY DEF ScanInv, ScanType, Locks, Phases, Promises, FieldPromise, RunnerPromise,
         SnapshotPromise, MarkerPromise, Clean, Watched, Scan!ScanLock, Scan!Threads
<1> QED BY <1>1, <1>2, <1>3, <1>4 DEF ScanInv

(* It scavenges a stack: a snapshot leaves nothing white on it, and before *)
(* ASYNC nobody has promised anything.                                     *)
LEMMA ScanDirtyStackKeeps ==
  ASSUME Scan!RunnersValid, ~Overlap, ScanInv, NEW p \in Runners, NEW s \in Stacks,
         Scan!ScanDirtyStack(p, s)
  PROVE  ScanInv'
<1> USE DEF Scan!RunnersValid
<1>1. ScanType'
  BY DEF ScanInv, ScanType, Scan!ScanDirtyStack, Scan!Threads, Scan!Scavenged
<1>2. Locks'
  BY DEF ScanInv, ScanType, Locks, Scan!ScanDirtyStack, Scan!Threads, Scan!Scavenged
<1>3. Phases'
  BY DEF ScanInv, ScanType, Phases, Locks, Scan!ScanDirtyStack, Scan!Threads, Scan!Scavenged
<1>4. FieldPromise'
  BY DEF ScanInv, ScanType, Locks, Phases, Promises, FieldPromise, RunnerPromise, Clean,
         Scan!ScanDirtyStack, Scan!Threads, Scan!Scavenged
<1>5. RunnerPromise'
  BY DEF ScanInv, ScanType, Locks, Phases, Promises, FieldPromise, RunnerPromise,
         SnapshotPromise, MarkerPromise, Clean, Watched, Scan!ScanDirtyStack, Scan!Threads,
         Scan!Scavenged
<1>6. SnapshotPromise'
  BY DEF ScanInv, ScanType, Locks, Phases, Promises, FieldPromise, SnapshotPromise, Clean,
         Scan!ScanDirtyStack, Scan!Threads, Scan!Scavenged
<1>7. MarkerPromise'
  BY DEF ScanInv, ScanType, Locks, Phases, Promises, FieldPromise, RunnerPromise,
         SnapshotPromise, MarkerPromise, Clean, Watched, Scan!ScanDirtyStack, Scan!Threads,
         Scan!Scavenged
<1> QED BY <1>1, <1>2, <1>3, <1>4, <1>5, <1>6, <1>7 DEF ScanInv, Promises

(* A snapshot ends when it has scanned all dirty stacks.                   *)
LEMMA SliceEndKeeps ==
  ASSUME Scan!RunnersValid, ~Overlap, ScanInv, NEW p \in Runners, Scan!SliceEnd(p)
  PROVE  ScanInv'
<1> USE DEF Scan!RunnersValid
<1>1. ScanType'
  BY DEF ScanInv, ScanType, Scan!SliceEnd, Scan!Threads
<1>2. Locks'
  BY DEF ScanInv, ScanType, Locks, Scan!SliceEnd, Scan!Threads
<1>3. Phases'
  BY DEF ScanInv, ScanType, Phases, Locks, Scan!SliceEnd, Scan!Threads
<1>4. FieldPromise'
  BY DEF ScanInv, ScanType, Locks, Phases, Promises, FieldPromise, RunnerPromise, Clean,
         Scan!SliceEnd, Scan!Threads
<1>5. RunnerPromise'
  BY DEF ScanInv, ScanType, Locks, Phases, Promises, FieldPromise, RunnerPromise,
         SnapshotPromise, MarkerPromise, Clean, Watched, Scan!SliceEnd, Scan!Threads
<1>6. SnapshotPromise'
  BY DEF ScanInv, ScanType, Locks, Phases, Promises, FieldPromise, SnapshotPromise, Clean,
         Scan!SliceEnd, Scan!Threads
<1>7. MarkerPromise'
  BY DEF ScanInv, ScanType, Locks, Phases, Promises, FieldPromise, RunnerPromise,
         SnapshotPromise, MarkerPromise, Clean, Watched, Scan!SliceEnd, Scan!Threads
<1> QED BY <1>1, <1>2, <1>3, <1>4, <1>5, <1>6, <1>7 DEF ScanInv, Promises

(* The phase advances while nobody scavenges.                              *)
LEMMA AdvanceKeeps ==
  ASSUME Scan!RunnersValid, ~Overlap, ScanInv, Scan!Advance
  PROVE  ScanInv'
<1> USE DEF Scan!RunnersValid
<1>1. ScanType'
  BY DEF ScanInv, ScanType, Scan!Advance, Scan!Programs
<1>2. Locks'
  BY DEF ScanInv, ScanType, Locks, Scan!Advance, Scan!Programs
<1>3. Phases'
  BY DEF ScanInv, ScanType, Phases, Locks, Scan!Advance, Scan!Programs
<1>4. Promises'
  BY DEF ScanInv, ScanType, Locks, Phases, Promises, FieldPromise, RunnerPromise,
         SnapshotPromise, MarkerPromise, Clean, Watched, Scan!Advance, Scan!Programs
<1> QED BY <1>1, <1>2, <1>3, <1>4 DEF ScanInv

(* The marker finds a white stack.                                         *)
LEMMA ScanThreadKeeps ==
  ASSUME Scan!RunnersValid, ~Overlap, ScanInv, NEW s \in Stacks, Scan!ScanThread(s)
  PROVE  ScanInv'
<1> USE DEF Scan!RunnersValid
<1>1. ScanType'
  BY DEF ScanInv, ScanType, Scan!ScanThread, Scan!Programs, Scan!Marking
<1>2. Locks'
  BY DEF ScanInv, ScanType, Locks, Scan!ScanThread, Scan!Programs, Scan!Marking
<1>3. Phases'
  BY DEF ScanInv, ScanType, Phases, Locks, Scan!ScanThread, Scan!Programs, Scan!Marking
<1>4. Promises'
  BY DEF ScanInv, ScanType, Locks, Phases, Promises, FieldPromise, RunnerPromise,
         SnapshotPromise, MarkerPromise, Clean, Watched, Scan!ScanThread, Scan!Programs,
         Scan!Marking
<1> QED BY <1>1, <1>2, <1>3, <1>4 DEF ScanInv

(* It shades it, black or not, and remembers it.                           *)
LEMMA ShadeStackKeeps ==
  ASSUME Scan!RunnersValid, ~Overlap, ScanInv, NEW s \in Stacks, Scan!ShadeStack(s)
  PROVE  ScanInv'
<1> USE DEF Scan!RunnersValid
<1>1. ScanType'
  BY DEF ScanInv, ScanType, Scan!ShadeStack, Scan!Programs
<1>2. Locks'
  BY DEF ScanInv, ScanType, Locks, Scan!ShadeStack, Scan!Programs
<1>3. Phases'
  BY DEF ScanInv, ScanType, Phases, Locks, Scan!ShadeStack, Scan!Programs
<1>4. Promises'
  BY DEF ScanInv, ScanType, Locks, Phases, Promises, FieldPromise, RunnerPromise,
         SnapshotPromise, MarkerPromise, Clean, Watched, Scan!ShadeStack, Scan!Programs
<1> QED BY <1>1, <1>2, <1>3, <1>4 DEF ScanInv

(* It scans a stack, unless that is black, or locked by somebody who       *)
(* answers for it.                                                         *)
LEMMA ScanStackKeeps ==
  ASSUME Scan!RunnersValid, ~Overlap, ScanInv, NEW s \in Stacks, Scan!ScanStack(s)
  PROVE  ScanInv'
<1> USE DEF Scan!RunnersValid
<1>1. ScanType'
  BY DEF ScanInv, ScanType, Scan!ScanStack, Scan!Programs, Scan!Marked
<1>2. Locks'
  BY DEF ScanInv, ScanType, Locks, Scan!ScanStack, Scan!Programs, Scan!Marked
<1>3. Phases'
  BY DEF ScanInv, ScanType, Phases, Locks, Scan!ScanStack, Scan!Programs, Scan!Marked
<1>4. FieldPromise'
  BY DEF ScanInv, ScanType, Locks, Phases, Promises, FieldPromise, RunnerPromise, Clean,
         Scan!ScanStack, Scan!Programs, Scan!Marked
<1>5. RunnerPromise'
  BY DEF ScanInv, ScanType, Locks, Phases, Promises, FieldPromise, RunnerPromise,
         SnapshotPromise, MarkerPromise, Clean, Watched, Scan!ScanStack, Scan!Programs,
         Scan!Marked
<1>6. SnapshotPromise'
  BY DEF ScanInv, ScanType, Locks, Phases, Promises, FieldPromise, SnapshotPromise, Clean,
         Scan!ScanStack, Scan!Programs, Scan!Marked
<1>7. MarkerPromise'
  BY DEF ScanInv, ScanType, Locks, Phases, Promises, FieldPromise, RunnerPromise,
         SnapshotPromise, MarkerPromise, Clean, Watched, Scan!ScanStack, Scan!Programs,
         Scan!Marked
<1> QED BY <1>1, <1>2, <1>3, <1>4, <1>5, <1>6, <1>7 DEF ScanInv, Promises

(* It scans the field.                                                     *)
LEMMA ScanFieldKeeps ==
  ASSUME Scan!RunnersValid, ~Overlap, ScanInv, Scan!ScanField
  PROVE  ScanInv'
<1> USE DEF Scan!RunnersValid
<1>1. ScanType'
  BY DEF ScanInv, ScanType, Scan!ScanField, Scan!Programs, Scan!Marked, Scan!Marking
<1>2. Locks'
  BY DEF ScanInv, ScanType, Locks, Scan!ScanField, Scan!Programs, Scan!Marked, Scan!Marking
<1>3. Phases'
  BY DEF ScanInv, ScanType, Phases, Locks, Scan!ScanField, Scan!Programs, Scan!Marked,
         Scan!Marking
<1>4. Promises'
  BY DEF ScanInv, ScanType, Locks, Phases, Promises, FieldPromise, RunnerPromise,
         SnapshotPromise, MarkerPromise, Clean, Watched, Scan!ScanField, Scan!Programs,
         Scan!Marked, Scan!Marking
<1> QED BY <1>1, <1>2, <1>3, <1>4 DEF ScanInv

(* Every step keeps the invariant.                                         *)
LEMMA ScanNext ==
  ASSUME Scan!RunnersValid, ~Overlap, ScanInv, [Scan!Next]_Scan!vars
  PROVE  ScanInv'
<1>1. ASSUME NEW p \in Runners, NEW s \in Stacks,
             Scan!Activate(p, s) \/ Scan!ScanLock(p, s) \/ Scan!ScanDirtyStack(p, s)
      PROVE  ScanInv'
  BY <1>1, ActivateKeeps, ScanLockKeeps, ScanDirtyStackKeeps
<1>2. ASSUME NEW p \in Runners,
             Scan!Deactivate(p) \/ Scan!Load(p) \/ Scan!SliceBegin(p) \/ Scan!SliceEnd(p)
      PROVE  ScanInv'
  BY <1>2, DeactivateKeeps, LoadKeeps, SliceBeginKeeps, SliceEndKeeps
<1>3. ASSUME NEW p \in Runners, NEW o \in Refs, Scan!New(p, o) \/ Scan!Pop(p, o) \/ Scan!Store(p, o)
      PROVE  ScanInv'
  BY <1>3, NewKeeps, PopKeeps, StoreKeeps
<1>4. ASSUME NEW s \in Stacks, Scan!ScanThread(s) \/ Scan!ShadeStack(s) \/ Scan!ScanStack(s)
      PROVE  ScanInv'
  BY <1>4, ScanThreadKeeps, ShadeStackKeeps, ScanStackKeeps
<1>5. ASSUME Scan!Advance \/ Scan!ScanField
      PROVE  ScanInv'
  BY <1>5, AdvanceKeeps, ScanFieldKeeps
<1>6. CASE UNCHANGED Scan!vars
  <2>1. ScanType' BY <1>6 DEF ScanInv, ScanType, Scan!vars
  <2>2. Locks' BY <1>6 DEF ScanInv, Locks, Scan!vars
  <2>3. Phases' BY <1>6 DEF ScanInv, Phases, Scan!vars
  <2>4. Promises'
    BY <1>6 DEF ScanInv, Promises, FieldPromise, RunnerPromise, SnapshotPromise, MarkerPromise,
           Clean, Watched, Scan!vars
  <2> QED BY <2>1, <2>2, <2>3, <2>4 DEF ScanInv
<1> QED BY <1>1, <1>2, <1>3, <1>4, <1>5, <1>6 DEF Scan!Next

(* At the end of the mark phase nobody owns a stack any more, and the field*)
(* has been scanned.                                                       *)
LEMMA ScanEnd ==
  ASSUME ScanInv
  PROVE  Scan!StacksScanned
<1> SUFFICES ASSUME Scan!MarkEnded, NEW o \in field \cup UNION {onStack[s] : s \in Stacks}
             PROVE  state[o] # "white"
  BY DEF Scan!StacksScanned
<1>1. fieldScanned /\ gray = {} /\ \A s \in Stacks : ~Watched(s)
  BY DEF Scan!MarkEnded, Watched
<1>2. \A s \in Stacks : Clean(s)
  BY <1>1 DEF Scan!MarkEnded, ScanInv, ScanType, Promises, MarkerPromise
<1>3. CASE o \in field
  BY <1>1, <1>3 DEF ScanInv, Promises, FieldPromise
<1>4. CASE \E s \in Stacks : o \in onStack[s]
  BY <1>1, <1>2, <1>4 DEF Clean
<1> QED BY <1>3, <1>4

(* The strengthening of StacksScanned that the steps keep: locks, phases   *)
(* and who has promised to scan what (stack.c, mark.c, scavenger.c).       *)
THEOREM ScanInvariant ==
  ASSUME Scan!RunnersValid, ~Overlap
  PROVE  Scan!Spec => []ScanInv
<1>1. Scan!Init => ScanInv BY ScanInit
<1>2. ScanInv /\ [Scan!Next]_Scan!vars => ScanInv' BY ScanNext
<1> QED BY <1>1, <1>2, PTL DEF Scan!Spec

(* However often a stack is activated, deactivated and scavenged while the *)
(* marker comes to it, what is on it in the end is marked: scanActivated-  *)
(* Stack, the snapshot of the scavenger and scanStack leave no gap.        *)
THEOREM NoStackMissed ==
  ASSUME Scan!RunnersValid, ~Overlap
  PROVE  Scan!Spec => []Scan!StacksScanned
<1>1. ScanInv => Scan!StacksScanned BY ScanEnd
<1> QED BY <1>1, ScanInvariant, PTL

=============================================================================
