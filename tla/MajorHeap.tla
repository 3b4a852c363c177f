----------------------------- MODULE MajorHeap -----------------------------
(***************************************************************************)
(* Cells, pages and segments of the major heap, and the sweepers           *)
(* (native/heap.c, native/sweep.c).                                        *)
(*                                                                         *)
(* A segment has pages, a page has cells of one size.  A handle allocates  *)
(* from a segment of its own without a lock, and gives it away when it is  *)
(* full; sweepers take the full ones apart page by page.  Small and medium *)
(* objects differ in how sizes become cells and bins, large objects are    *)
(* chunks of their own; a behaviour has one kind.  What is garbage has     *)
(* been decided by the last mark phase (module GC); here any objects are   *)
(* when the sweeper comes to them.  Lists are sets; the limits, which only *)
(* trigger a collection, are left out.                                     *)
(***************************************************************************)
EXTENDS Naturals, Sequences, FiniteSets, FiniteSetsExt, SequencesExt

CONSTANTS
  Handles,      \* one per processor
  Sweepers,     \* workers or processors that sweep
  Segment,      \* the segments there may be
  PagesPerSegment,
  SmallPage, MediumPage,    \* words of a page
  SmallSizes, MediumSizes,  \* sizes of objects
  LargeObjects  \* the large objects there may be

VARIABLES
  kind,     \* the objects: small (a linear class), medium or large
  segment,  \* pages, free pages, free cells, and how far it has been swept
  place,    \* the list a segment is in, or who has it
  total,    \* ChiHeapClass.total
  object,   \* objects of the segments: where they are and their size
  wanted,   \* the size a handle is to allocate, 0 if none
  needed,   \* gc.sweep.needed
  large,    \* large objects: the list they are in
  totalWords  \* ChiHeapLarge.totalWords, in large objects

vars == <<kind, segment, place, total, object, wanted, needed, large, totalWords>>

Header == 1
Log2Floor(n) == Max({k \in 0 .. n : 2 ^ k <= n})
Log2Ceil(n) == Min({k \in 0 .. n : 2 ^ k >= n})
linear == kind = "small"
Sizes == IF linear THEN SmallSizes ELSE IF kind = "medium" THEN MediumSizes ELSE {}
PageWords == IF linear THEN SmallPage ELSE MediumPage

(* The bin of an object, and the cells its page is made of.                *)
Bin(size) == IF linear THEN size - 1 ELSE Log2Floor(size)
MediumCell(size) == 2 ^ Log2Ceil(size + Header)
CellSize(size) == IF linear THEN size + Header ELSE MediumCell(size)
Bins == {Bin(size) : size \in Sizes}

(* Broken: the header is forgotten.                                        *)
SweepBin_header(cell) == IF linear THEN cell - Header - 1 ELSE Log2Floor(cell)

(* The bin the sweeper finds from the size of the cells.                   *)
SweepBin(cell) == IF linear THEN cell - Header - 1 ELSE Log2Floor(cell - Header)

(* Who has a segment is not the name of a list, and a page has room for a  *)
(* cell.  The last two facts are those about powers of two on which the    *)
(* bins rely: a cell has room for all objects of its bin, and its size     *)
(* gives the bin.                                                          *)
Lists == {"free", "full", "unswept", "partial"}
HeapValid ==
  /\ Handles \cap Sweepers = {} /\ (Handles \cup Sweepers) \cap Lists = {}
  /\ PagesPerSegment \in Nat /\ SmallPage \in Nat /\ MediumPage \in Nat
  /\ SmallSizes \cup MediumSizes \subseteq Nat \ {0}
  /\ \A size \in SmallSizes : size + Header <= SmallPage
  /\ \A size \in MediumSizes : MediumCell(size) \in 1 .. MediumPage
  /\ \A size, other \in MediumSizes :
       Log2Floor(size) = Log2Floor(other) => other + Header <= MediumCell(size)
  /\ \A size \in MediumSizes : Log2Floor(MediumCell(size) - Header) = Log2Floor(size)

FreePage == 0
Offsets(cell) == IF cell = FreePage THEN {} ELSE {o \in 0 .. PageWords - cell : o % cell = 0}

(* Offsets of a page as a list of cells; nothing depends on their order.   *)
Cells(p, offsets) == SetToSeq({p} \X offsets)

Page == 0 .. PagesPerSegment - 1
Empty == [page |-> [p \in Page |-> FreePage], end |-> 0, sweep |-> 0, alive |-> FALSE,
          freePages |-> <<>>, free |-> [b \in Bins |-> <<>>]]

Init ==
  /\ kind \in {"small", "medium", "large"}
  /\ segment = [s \in {} |-> Empty]
  /\ place = [s \in {} |-> "free"]
  /\ total = 0
  /\ object = [a \in {} |-> 0]
  /\ wanted = [h \in Handles |-> 0]
  /\ needed = FALSE
  /\ large = [l \in {} |-> "heap"]
  /\ totalWords = 0

Without(f, set) == [y \in DOMAIN f \ set |-> f[y]]
With(f, x, value) == [y \in DOMAIN f \cup {x} |-> IF y = x THEN value ELSE f[y]]
Of(who) == {s \in DOMAIN place : place[s] = who}
NoLarge == UNCHANGED <<large, totalWords>>

-----------------------------------------------------------------------------
(* Allocation.                                                             *)
HasCell(s, size) == segment[s].free[Bin(size)] # <<>>
HasPage(s) == segment[s].freePages # <<>> \/ segment[s].end < PagesPerSegment

(* pageFindFree and pageAlloc: a free page, or one never used, is cut into *)
(* cells.                                                                  *)
WithPage(s, size) ==
  LET g == segment[s]
      p == IF g.freePages # <<>> THEN Head(g.freePages) ELSE g.end
  IN  [g EXCEPT !.page[p] = CellSize(size),
                !.freePages = IF @ # <<>> THEN Tail(@) ELSE @,
                !.end = IF g.freePages # <<>> THEN @ ELSE @ + 1,
                !.free[Bin(size)] = Cells(p, Offsets(CellSize(size))) \o @]

(* A free cell counts only for the segment the handle had at first: the    *)
(* loop of pageFindFree looks at the free pages and nothing else.          *)
FirstCell(h, s, size) == wanted[h] = 0 /\ HasCell(s, size)

(* segmentNew                                                              *)
New(h, size) ==
  /\ wanted[h] \in {0, size}
  /\ \E s \in Of(h) :
       /\ FirstCell(h, s, size) \/ HasPage(s)
       /\ LET g == IF FirstCell(h, s, size) THEN segment[s] ELSE WithPage(s, size)
              c == Head(g.free[Bin(size)])
          IN  /\ segment' = [segment EXCEPT ![s] = [g EXCEPT !.free[Bin(size)] = Tail(@)]]
              /\ object' = With(object, <<s, c[1], c[2]>>, size)
  /\ wanted' = [wanted EXCEPT ![h] = 0]
  /\ UNCHANGED <<kind, place, total, needed>> /\ NoLarge

(* segmentFull: the segment goes to the list of full ones, another one is  *)
(* taken from the free ones, all under the lock of the heap.  If that one  *)
(* has no page, it goes there next, whatever cells it has.                 *)
Full(h, size) ==
  /\ wanted[h] \in {0, size}
  /\ \E s \in Of(h) :
       /\ ~FirstCell(h, s, size) /\ ~HasPage(s)
       /\ IF Of("free") = {} THEN place' = [place EXCEPT ![s] = "full"]
          ELSE \E f \in Of("free") : place' = [place EXCEPT ![s] = "full", ![f] = h]
  /\ wanted' = [wanted EXCEPT ![h] = size]
  /\ UNCHANGED <<kind, segment, total, object, needed>> /\ NoLarge

(* segmentAcquire, also when a processor starts: from the free ones ...    *)
AcquireExisting(h) ==
  /\ Of(h) = {} /\ wanted[h] = 0
  /\ \E f \in Of("free") : place' = [place EXCEPT ![f] = h]
  /\ UNCHANGED <<kind, segment, total, object, wanted, needed>> /\ NoLarge

(* ... or a new one.                                                       *)
AcquireNew(h) ==
  /\ Of(h) = {}
  /\ wanted[h] = 0 => Of("free") = {}
  /\ \E s \in Segment \ DOMAIN segment :
       /\ s = Min(Segment \ DOMAIN segment)
       /\ segment' = With(segment, s, Empty)
       /\ place' = With(place, s, h)
  /\ total' = total + 1
  /\ UNCHANGED <<kind, object, wanted, needed>> /\ NoLarge

(* chiHeapHandleDestroy                                                    *)
HandleDestroy(h) ==
  /\ wanted[h] = 0
  /\ \E s \in Of(h) : place' = [place EXCEPT ![s] = "free"]
  /\ UNCHANGED <<kind, segment, total, object, wanted, needed>> /\ NoLarge

(* largeNew: the chunk is in the list when its words have been counted.    *)
LargeNew(l) ==
  /\ l \notin DOMAIN large
  /\ kind = "large"
  /\ large' = With(large, l, "heap")
  /\ totalWords' = totalWords + 1
  /\ UNCHANGED <<kind, segment, place, total, object, wanted, needed>>

-----------------------------------------------------------------------------
(* Sweeping.                                                               *)
(* The end of a mark phase, with chiHeapSweepAcquire                       *)
SweepAcquire ==
  /\ ~needed
  /\ place' = [s \in DOMAIN place |-> IF place[s] = "full" THEN "unswept" ELSE place[s]]
  /\ large' = [l \in DOMAIN large |-> IF large[l] = "heap" THEN "sweep" ELSE large[l]]
  /\ needed' = TRUE
  /\ UNCHANGED <<kind, segment, total, object, wanted, totalWords>>

(* Broken: the free cells found in the last cycle are kept.                *)
Reset_keep(g) == [g EXCEPT !.sweep = g.end, !.alive = FALSE, !.freePages = <<>>]

(* sweepResetSegment                                                       *)
Reset(g) == [g EXCEPT !.sweep = g.end, !.alive = FALSE, !.freePages = <<>>, !.free = [b \in Bins |-> <<>>]]

LargeAt(who) == {l \in DOMAIN large : large[l] = who}

(* sweepTake                                                               *)
SweepTake(w) ==
  /\ Of(w) = {} /\ LargeAt(w) = {}
  /\ \/ \E s \in Of("partial") :
          /\ place' = [place EXCEPT ![s] = w]
          /\ UNCHANGED <<segment, needed, large>>
     \/ /\ Of("partial") = {}
        /\ \E s \in Of("unswept") : /\ place' = [place EXCEPT ![s] = w]
                                    /\ segment' = [segment EXCEPT ![s] = Reset(@)]
        /\ UNCHANGED <<needed, large>>
     \/ /\ Of("partial") \cup Of("unswept") = {} /\ LargeAt("sweep") # {}
        /\ large' = [l \in DOMAIN large |-> IF large[l] = "sweep" THEN w ELSE large[l]]
        /\ UNCHANGED <<place, segment, needed>>
     \/ /\ Of("partial") \cup Of("unswept") = {} /\ LargeAt("sweep") = {}
        /\ needed' = FALSE
        /\ UNCHANGED <<place, segment, large>>
  /\ UNCHANGED <<kind, total, object, wanted, totalWords>>

Objects(s, p) == {a \in DOMAIN object : a[1] = s /\ a[2] = p}

(* pageSweep, for a page with the given garbage: the cells that are free   *)
(* from now on.                                                            *)
Garbage(s, p, dead) == {o \in Offsets(segment[s].page[p]) : <<s, p, o>> \notin Objects(s, p) \ dead}

(* One round of segmentSweep, backwards: a page without objects is free.   *)
SweepPage(w) ==
  \E s \in Of(w) :
    LET g == segment[s]
        p == g.sweep - 1
        cell == g.page[p]
    IN  /\ g.sweep > 0
        /\ \E dead \in SUBSET Objects(s, p) :
             LET free == Garbage(s, p, dead)
             IN  /\ segment' = [segment EXCEPT ![s] =
                      IF cell = FreePage \/ free = Offsets(cell)
                      THEN [g EXCEPT !.sweep = p, !.page[p] = FreePage, !.freePages = <<p>> \o @]
                      ELSE [g EXCEPT !.sweep = p, !.alive = TRUE,
                                     !.free[SweepBin(cell)] = Cells(p, free) \o @]]
                 /\ object' = Without(object, dead)
        /\ UNCHANGED <<kind, place, total, wanted, needed>> /\ NoLarge

(* The time is up: the rest of the segment is left to somebody else.       *)
SweepTimeout(w) ==
  /\ \E s \in Of(w) : segment[s].sweep > 0 /\ place' = [place EXCEPT ![s] = "partial"]
  /\ needed' = TRUE
  /\ UNCHANGED <<kind, segment, total, object, wanted>> /\ NoLarge

(* chiHeapSweepReleaseSegment                                              *)
SweepRelease(w) ==
  \E s \in Of(w) :
    /\ segment[s].sweep = 0
    /\ IF segment[s].alive
       THEN place' = [place EXCEPT ![s] = "free"] /\ UNCHANGED <<segment, total>>
       ELSE place' = Without(place, {s}) /\ segment' = Without(segment, {s}) /\ total' = total - 1
    /\ UNCHANGED <<kind, object, wanted, needed>> /\ NoLarge

(* largeSweep and chiHeapSweepReleaseLarge                                 *)
LargeSweep(w) ==
  /\ LargeAt(w) # {}
  /\ \E dead \in SUBSET LargeAt(w) :
       /\ large' = [l \in DOMAIN large \ dead |-> IF large[l] = w THEN "heap" ELSE large[l]]
       /\ totalWords' = totalWords - Cardinality(dead)
  /\ UNCHANGED <<kind, segment, place, total, object, wanted, needed>>

Next ==
  \/ \E h \in Handles, size \in Sizes : New(h, size) \/ Full(h, size)
  \/ \E h \in Handles : AcquireExisting(h) \/ AcquireNew(h) \/ HandleDestroy(h)
  \/ \E l \in LargeObjects : LargeNew(l)
  \/ \E w \in Sweepers : SweepTake(w) \/ SweepPage(w) \/ SweepTimeout(w) \/ SweepRelease(w) \/ LargeSweep(w)
  \/ SweepAcquire

Spec == Init /\ [][Next]_vars

-----------------------------------------------------------------------------
(* An object is in a cell of its page that holds it with its header.       *)
CellsFit ==
  \A a \in DOMAIN object :
    /\ a[1] \in DOMAIN segment /\ a[2] < segment[a[1]].end
    /\ a[3] \in Offsets(segment[a[1]].page[a[2]])
    /\ object[a] + Header <= segment[a[1]].page[a[2]]

(* The pages of a segment that are swept in this cycle, or need not be.    *)
Settled(s) == {p \in Page : segment[s].sweep <= p /\ p < segment[s].end}

(* Of the settled pages, the free ones are listed once, and in the others  *)
(* each cell is an object or listed once, in a bin whose objects it holds. *)
(* None of the other pages is listed.                                      *)
CellsListed ==
  \A s \in DOMAIN segment :
    LET g == segment[s]
        listed(b) == ToSet(g.free[b])
    IN  /\ IsInjective(g.freePages)
        /\ ToSet(g.freePages) = {p \in Settled(s) : g.page[p] = FreePage}
        /\ \A b \in Bins : IsInjective(g.free[b])
        /\ \A b \in Bins, c \in Bins : b # c => listed(b) \cap listed(c) = {}
        /\ \A p \in Settled(s) : g.page[p] # FreePage =>
             {c \in UNION {listed(b) : b \in Bins} : c[1] = p}
               = {<<p, o>> : o \in {x \in Offsets(g.page[p]) : <<s, p, x>> \notin DOMAIN object}}
        /\ \A b \in Bins : \A c \in listed(b) :
             c[1] \in Settled(s) /\ \A size \in Sizes : Bin(size) = b => size + Header <= g.page[c[1]]

(* A segment in nobody's way is counted; what has been counted for large   *)
(* objects is what there is.                                               *)
Counted == total = Cardinality(DOMAIN segment) /\ totalWords = Cardinality(DOMAIN large)

(* Nothing the program uses is lost or overlaps, and no memory leaks.      *)
HeapSound == CellsFit /\ CellsListed /\ Counted

=============================================================================
