-------------------------- MODULE HeapPartsProofs --------------------------
(***************************************************************************)
(* What is proved of stacks, the major heap and the blocks by themselves   *)
(* (HeapProofs) holds of them in MCParts, where a behaviour is one of a    *)
(* single component.                                                       *)
(***************************************************************************)
EXTENDS MCParts, FiniteSets, TLAPS

Heap == INSTANCE HeapProofs

-----------------------------------------------------------------------------
(* The two instances of StackScan are the same.                            *)
LEMMA SameScan ==
  /\ Scan!Init <=> Heap!Scan!Init
  /\ Scan!Next <=> Heap!Scan!Next
  /\ Scan!StacksScanned <=> Heap!Scan!StacksScanned
  /\ Scan!RunnersValid <=> Heap!Scan!RunnersValid
<1>1. Scan!Nobody = Heap!Scan!Nobody
  BY DEF Scan!Nobody, Heap!Scan!Nobody
<1>2. Scan!Init <=> Heap!Scan!Init
  BY <1>1 DEF Scan!Init, Heap!Scan!Init
<1>3. Scan!RunnersValid <=> Heap!Scan!RunnersValid
  BY <1>1 DEF Scan!RunnersValid, Heap!Scan!RunnersValid
<1>4. Scan!StacksScanned <=> Heap!Scan!StacksScanned
  BY DEF Scan!StacksScanned, Heap!Scan!StacksScanned, Scan!MarkEnded, Heap!Scan!MarkEnded
<1>5. Scan!Next <=> Heap!Scan!Next
  BY DEF Scan!Activate, Heap!Scan!Activate, Scan!Deactivate, Heap!Scan!Deactivate, Scan!New,
         Heap!Scan!New, Scan!Load, Heap!Scan!Load, Scan!Pop, Heap!Scan!Pop, Scan!Store,
         Heap!Scan!Store, Scan!SliceBegin, Heap!Scan!SliceBegin, Scan!ScanLock,
         Heap!Scan!ScanLock, Scan!ScanDirtyStack, Heap!Scan!ScanDirtyStack, Scan!SliceEnd,
         Heap!Scan!SliceEnd, Scan!Advance, Heap!Scan!Advance, Scan!ScanThread,
         Heap!Scan!ScanThread, Scan!ShadeStack, Heap!Scan!ShadeStack, Scan!ScanStack,
         Heap!Scan!ScanStack, Scan!ScanField, Heap!Scan!ScanField, Scan!Rest, Heap!Scan!Rest,
         Scan!Threads, Heap!Scan!Threads, Scan!Programs, Heap!Scan!Programs, Scan!Marked,
         Heap!Scan!Marked, Scan!Scavenged, Heap!Scan!Scavenged, Scan!Marking, Heap!Scan!Marking,
         Scan!ScansActivated, Heap!Scan!ScansActivated, Scan!Nobody, Heap!Scan!Nobody, Scan!Next,
         Heap!Scan!Next
<1> QED BY <1>2, <1>3, <1>4, <1>5

(* A behaviour with the component "scan" is one of StackScan.              *)
LEMMA ScanStep ==
  ASSUME [Next]_vars
  PROVE  part' = part /\ (part = "scan" => Scan!Next \/ UNCHANGED scanVars)
<1>1. CASE UNCHANGED vars
  BY <1>1 DEF vars
<1>2. CASE Next
  BY <1>2 DEF Next
<1> QED BY <1>1, <1>2

(* What is on a stack in the end is marked, whoever scans it (stack.c,     *)
(* mark.c, scavenger.c), in the composition that TLC checks too.           *)
THEOREM StacksAreScanned ==
  ASSUME ~Overlap
  PROVE  Spec => []StacksScanned
<1> DEFINE Inv == part = "scan" => Heap!ScanInv
<1>1. Init => Inv
  <2>1. Init /\ part = "scan" => Scan!Init
    BY DEF Init
  <2> QED BY <2>1, SameScan, ScanRunners, Heap!ScanInit
<1>2. Inv /\ [Next]_vars => Inv'
  <2> SUFFICES ASSUME Inv, [Next]_vars, part' = "scan"
               PROVE  Heap!ScanInv'
    OBVIOUS
  <2>1. part = "scan" /\ (Scan!Next \/ UNCHANGED scanVars)
    BY ScanStep
  <2>2. Heap!ScanInv /\ Heap!Scan!RunnersValid /\ [Heap!Scan!Next]_Heap!Scan!vars
    BY <2>1, SameScan, ScanRunners DEF scanVars, Heap!Scan!vars
  <2> QED BY <2>2, Heap!ScanNext
<1>3. Inv => StacksScanned
  BY SameScan, Heap!ScanEnd DEF StacksScanned
<1> HIDE DEF Inv
<1> QED BY <1>1, <1>2, <1>3, PTL DEF Spec

-----------------------------------------------------------------------------
(* The two instances of MajorHeap are the same.                            *)
LEMMA SameHeap ==
  /\ Major!Init <=> Heap!Init
  /\ Major!Next <=> Heap!Next
  /\ Major!HeapSound <=> Heap!HeapSound
  /\ Major!HeapValid <=> Heap!HeapValid
<1>1. Major!Init <=> Heap!Init
  BY SMTT(30) DEF Major!Init, Heap!Init
<1>2. Major!Next <=> Heap!Next
  BY DEF Major!Header, Heap!Header, Major!Log2Floor, Heap!Log2Floor, Major!Log2Ceil,
         Heap!Log2Ceil, Major!Max, Heap!Max, Major!Min, Heap!Min, Major!linear,
         Heap!linear, Major!Sizes, Heap!Sizes, Major!PageWords, Heap!PageWords,
         Major!Bin, Heap!Bin, Major!MediumCell, Heap!MediumCell, Major!CellSize,
         Heap!CellSize, Major!Bins, Heap!Bins, Major!FreePage, Heap!FreePage,
         Major!Offsets, Heap!Offsets, Major!Page, Heap!Page, Major!SetToSeq,
         Heap!SetToSeq, Major!IsInjective, Heap!IsInjective, Major!Cardinality,
         Heap!Cardinality, Major!Empty, Heap!Empty, Major!Without, Heap!Without,
         Major!With, Heap!With, Major!Of, Heap!Of, Major!NoLarge, Heap!NoLarge,
         Major!HasCell, Heap!HasCell, Major!FirstCell, Heap!FirstCell,
         Major!HasPage, Heap!HasPage, Major!Cells,
         Heap!Cells, Major!WithPage, Heap!WithPage, Major!New, Heap!New,
         Major!Full, Heap!Full, Major!AcquireExisting, Heap!AcquireExisting,
         Major!AcquireNew, Heap!AcquireNew, Major!HandleDestroy, Heap!HandleDestroy,
         Major!LargeNew, Heap!LargeNew, Major!SweepAcquire, Heap!SweepAcquire,
         Major!Reset, Heap!Reset, Major!LargeAt, Heap!LargeAt, Major!SweepTake,
         Heap!SweepTake, Major!Objects, Heap!Objects, Major!Garbage, Heap!Garbage,
         Major!SweepBin, Heap!SweepBin, Major!SweepPage, Heap!SweepPage,
         Major!SweepTimeout, Heap!SweepTimeout, Major!SweepRelease, Heap!SweepRelease,
         Major!LargeSweep, Heap!LargeSweep, Major!Next, Heap!Next
<1>3. Major!HeapSound <=> Heap!HeapSound
  BY DEF Major!Header, Heap!Header, Major!Log2Floor, Heap!Log2Floor, Major!Log2Ceil,
         Heap!Log2Ceil, Major!Max, Heap!Max, Major!Min, Heap!Min, Major!linear,
         Heap!linear, Major!Sizes, Heap!Sizes, Major!PageWords, Heap!PageWords,
         Major!Bin, Heap!Bin, Major!MediumCell, Heap!MediumCell, Major!CellSize,
         Heap!CellSize, Major!Bins, Heap!Bins, Major!FreePage, Heap!FreePage,
         Major!Offsets, Heap!Offsets, Major!Page, Heap!Page, Major!ToSet,
         Heap!ToSet, Major!IsInjective, Heap!IsInjective, Major!Cardinality,
         Heap!Cardinality, Major!CellsFit, Heap!CellsFit, Major!Settled,
         Heap!Settled, Major!CellsListed, Heap!CellsListed, Major!Counted,
         Heap!Counted, Major!HeapSound, Heap!HeapSound
<1>4. Major!HeapValid <=> Heap!HeapValid
  BY DEF Major!Header, Heap!Header, Major!Log2Floor, Heap!Log2Floor, Major!Log2Ceil,
         Heap!Log2Ceil, Major!Max, Heap!Max, Major!Min, Heap!Min, Major!MediumCell,
         Heap!MediumCell, Major!Lists, Heap!Lists, Major!HeapValid, Heap!HeapValid
<1> QED BY <1>1, <1>2, <1>3, <1>4

(* A behaviour with the component "major" is one of MajorHeap.             *)
LEMMA HeapStep ==
  ASSUME [Next]_vars
  PROVE  part' = part /\ (part = "major" => Major!Next \/ UNCHANGED majorVars)
<1>1. CASE UNCHANGED vars
  BY <1>1 DEF vars
<1>2. CASE Next
  BY <1>2 DEF Next
<1> QED BY <1>1, <1>2

(* The cells of the major heap are objects or in the right list (heap.c,   *)
(* sweep.c), in the composition that TLC checks too.                       *)
THEOREM MajorHeapIsSound == Spec => []HeapSound
<1> DEFINE Inv == part = "major" => Heap!MajorInv
<1>1. Heap!HeapValid
  BY SameHeap, MajorSizes
<1>2. Init => Inv
  <2>1. Init /\ part = "major" => Major!Init
    BY DEF Init
  <2> QED BY <1>1, <2>1, SameHeap, Heap!MajorInit
<1>3. Inv /\ [Next]_vars => Inv'
  <2> SUFFICES ASSUME Inv, [Next]_vars, part' = "major"
               PROVE  Heap!MajorInv'
    OBVIOUS
  <2>1. part = "major" /\ (Major!Next \/ UNCHANGED majorVars)
    BY HeapStep
  <2>2. Heap!MajorInv /\ [Heap!Next]_Heap!vars
    BY <2>1, SameHeap DEF majorVars, Heap!vars
  <2> QED BY <1>1, <2>2, Heap!MajorStep
<1>4. Inv => HeapSound
  BY <1>1, SameHeap, Heap!MajorInvSound DEF HeapSound
<1> HIDE DEF Inv
<1> QED BY <1>2, <1>3, <1>4, PTL DEF Spec

-----------------------------------------------------------------------------
(* The two instances of Blocks are the same.                               *)
LEMMA SameBlocks ==
  /\ Block!Init <=> Heap!B!Init
  /\ Block!Next <=> Heap!B!Next
  /\ (Block!BlocksSound /\ Block!VecHolds) <=> (Heap!B!BlocksSound /\ Heap!B!VecHolds)
  /\ Block!BlocksValid <=> Heap!B!BlocksValid
<1>1. /\ Block!Chunks = Heap!B!Chunks /\ Block!NoBlock = Heap!B!NoBlock
      /\ Block!Manager = Heap!B!Manager
      /\ \A S : Block!Cardinality(S) = Heap!B!Cardinality(S)
  BY DEF Block!Chunks, Heap!B!Chunks, Block!NoBlock, Heap!B!NoBlock, Block!Manager,
         Heap!B!Manager, Block!Cardinality, Heap!B!Cardinality
<1>2. \A m, n : Block!CanAlloc(m, n) <=> Heap!B!CanAlloc(m, n)
  BY <1>1 DEF Block!CanAlloc, Heap!B!CanAlloc
<1>3. \A m : Block!Fresh(m) = Heap!B!Fresh(m)
  BY <1>1 DEF Block!Fresh, Heap!B!Fresh, Block!After, Heap!B!After
<1>4. \A m : Block!Alloc(m) = Heap!B!Alloc(m)
  BY <1>3 DEF Block!Alloc, Heap!B!Alloc
<1>5. /\ \A s, e : Block!Times(s, e) = Heap!B!Times(s, e)
      /\ \A v, w : Block!Moved(v, w) <=> Heap!B!Moved(v, w)
  BY <1>1 DEF Block!Times, Heap!B!Times, Block!Moved, Heap!B!Moved
<1>6. \A v : Block!VecInit(v) <=> Heap!B!VecInit(v)
  BY <1>2, <1>4 DEF Block!VecInit, Heap!B!VecInit, Block!SetUp, Heap!B!SetUp,
         Block!SetManager, Heap!B!SetManager, Block!Manager, Heap!B!Manager, Block!bump,
         Heap!B!bump, Block!Empty, Heap!B!Empty
<1>7. \A v : Block!VecFree(v) <=> Heap!B!VecFree(v)
  BY DEF Block!VecFree, Heap!B!VecFree, Block!SetUp, Heap!B!SetUp, Block!SetManager,
         Heap!B!SetManager, Block!Manager, Heap!B!Manager, Block!bump, Heap!B!bump,
         Block!FreeBlocks, Heap!B!FreeBlocks, Block!FreeBlock, Heap!B!FreeBlock,
         Block!FreeChunkList, Heap!B!FreeChunkList, Block!NoBlock, Heap!B!NoBlock,
         Block!BlocksOf, Heap!B!BlocksOf
<1>8. \A v, e : Block!Push(v, e) <=> Heap!B!Push(v, e)
  BY <1>2, <1>4 DEF Block!Push, Heap!B!Push, Block!SetUp, Heap!B!SetUp,
         Block!SetManager, Heap!B!SetManager, Block!Manager, Heap!B!Manager, Block!bump,
         Heap!B!bump, Block!Empty, Heap!B!Empty
<1>9. \A v : Block!Pop(v) <=> Heap!B!Pop(v)
  BY DEF Block!Pop, Heap!B!Pop, Block!SetUp, Heap!B!SetUp, Block!SetManager,
         Heap!B!SetManager, Block!Manager, Heap!B!Manager, Block!bump, Heap!B!bump,
         Block!FreeBlocks, Heap!B!FreeBlocks, Block!FreeBlock, Heap!B!FreeBlock,
         Block!FreeChunkList, Heap!B!FreeChunkList, Block!NoBlock, Heap!B!NoBlock,
         Block!BlocksOf, Heap!B!BlocksOf, Block!Last, Heap!B!Last, Block!Front,
         Heap!B!Front, Block!IsNull, Heap!B!IsNull
<1>10. ASSUME NEW v, NEW w
       PROVE  Block!Join(v, w) <=> Heap!B!Join(v, w)
  <2> DEFINE a == Heap!B!Alloc(Heap!B!Manager)
  <2>1. /\ Block!Manager = Heap!B!Manager /\ Block!Alloc(Block!Manager) = a
        /\ Block!CanAlloc(Block!Manager, 1) <=> Heap!B!CanAlloc(Heap!B!Manager, 1)
    BY <1>1, <1>2, <1>4
  <2>2. /\ \A u : Block!IsNull(u) <=> Heap!B!IsNull(u)
        /\ \A u : Block!SetUp(u) <=> Heap!B!SetUp(u)
        /\ Block!Empty(a.b) = Heap!B!Empty(a.b)
        /\ \A m : Block!SetManager(m) <=> Heap!B!SetManager(m)
    BY DEF Block!IsNull, Heap!B!IsNull, Block!SetUp, Heap!B!SetUp, Block!Empty, Heap!B!Empty,
           Block!SetManager, Heap!B!SetManager
  <2>3. /\ Block!IsNull(vec[v]) <=> Heap!B!IsNull(vec[v])
        /\ Block!IsNull(vec[w]) <=> Heap!B!IsNull(vec[w])
        /\ Block!SetUp(v) <=> Heap!B!SetUp(v)
        /\ Block!SetUp(w) <=> Heap!B!SetUp(w)
        /\ Block!SetManager(a.m) <=> Heap!B!SetManager(a.m)
        /\ Block!SetManager(Heap!B!Manager) <=> Heap!B!SetManager(Heap!B!Manager)
        /\ Block!Moved(v, w) <=> Heap!B!Moved(v, w)
    BY <1>5, <2>2
  <2>4. CASE Heap!B!IsNull(vec[v])
    BY <2>1, <2>2, <2>3, <2>4 DEF Block!Join, Heap!B!Join, Block!bump, Heap!B!bump
  <2>5. CASE ~Heap!B!IsNull(vec[v])
    BY <2>1, <2>2, <2>3, <2>5 DEF Block!Join, Heap!B!Join, Block!bump, Heap!B!bump
  <2> QED BY <2>4, <2>5
<1>11. \A v, w : Block!Transfer(v, w) <=> Heap!B!Transfer(v, w)
  BY <1>2, <1>4, <1>5 DEF Block!Transfer, Heap!B!Transfer, Block!SetUp, Heap!B!SetUp,
         Block!SetManager, Heap!B!SetManager, Block!Manager, Heap!B!Manager, Block!bump,
         Heap!B!bump, Block!Empty, Heap!B!Empty, Block!IsNull, Heap!B!IsNull,
         Block!FreeBlocks, Heap!B!FreeBlocks, Block!FreeBlock, Heap!B!FreeBlock,
         Block!FreeChunkList, Heap!B!FreeChunkList, Block!NoBlock, Heap!B!NoBlock,
         Block!BlocksOf, Heap!B!BlocksOf
<1>12. Block!BumpSetup <=> Heap!B!BumpSetup
  BY <1>2, <1>4 DEF Block!BumpSetup, Heap!B!BumpSetup, Block!SetUp, Heap!B!SetUp,
         Block!SetManager, Heap!B!SetManager, Block!Manager, Heap!B!Manager, Block!bump,
         Heap!B!bump
<1>13. \A n : Block!BumpNew(n) <=> Heap!B!BumpNew(n)
  BY <1>2, <1>4 DEF Block!BumpNew, Heap!B!BumpNew, Block!SetUp, Heap!B!SetUp,
         Block!SetManager, Heap!B!SetManager, Block!Manager, Heap!B!Manager, Block!bump,
         Heap!B!bump
<1>14. Block!BumpDestroy <=> Heap!B!BumpDestroy
  BY DEF Block!BumpDestroy, Heap!B!BumpDestroy, Block!SetUp, Heap!B!SetUp,
         Block!SetManager, Heap!B!SetManager, Block!Manager, Heap!B!Manager, Block!bump,
         Heap!B!bump, Block!FreeBlocks, Heap!B!FreeBlocks, Block!FreeBlock,
         Heap!B!FreeBlock, Block!FreeChunkList, Heap!B!FreeChunkList, Block!NoBlock,
         Heap!B!NoBlock, Block!BlocksOf, Heap!B!BlocksOf
<1>15. Block!Next <=> Heap!B!Next
  BY <1>6, <1>7, <1>8, <1>9, <1>10, <1>11, <1>12, <1>13, <1>14 DEF Block!Next,
         Heap!B!Next
<1>16. Block!Init <=> Heap!B!Init
  BY <1>1 DEF Block!Init, Heap!B!Init
<1>17. Block!BlocksValid <=> Heap!B!BlocksValid
  BY DEF Block!BlocksValid, Heap!B!BlocksValid
<1>18. /\ \A f : Block!IsInjective(f) <=> Heap!B!IsInjective(f)
       /\ \A f : Block!Range(f) = Heap!B!Range(f)
       /\ \A p : Block!BlocksOf(p) = Heap!B!BlocksOf(p)
  BY DEF Block!IsInjective, Heap!B!IsInjective, Block!Range, Heap!B!Range,
         Block!BlocksOf, Heap!B!BlocksOf
<1>19. Block!VecBlocks = Heap!B!VecBlocks /\ Block!InUse = Heap!B!InUse
  BY <1>18 DEF Block!VecBlocks, Heap!B!VecBlocks, Block!InUse, Heap!B!InUse
<1>20. Block!BlocksSound <=> Heap!B!BlocksSound
  BY <1>1, <1>18, <1>19 DEF Block!BlocksSound, Heap!B!BlocksSound
<1>21. \A v, e : Block!Found(v, e) = Heap!B!Found(v, e)
  BY DEF Block!Found, Heap!B!Found
<1>22. Block!VecHolds <=> Heap!B!VecHolds
  BY <1>1, <1>21 DEF Block!VecHolds, Heap!B!VecHolds
<1> QED BY <1>15, <1>16, <1>17, <1>20, <1>22

(* A behaviour with the component "block" is one of Blocks.                *)
LEMMA BlockStep ==
  ASSUME [Next]_vars
  PROVE  part' = part /\ (part = "block" => Block!Next \/ UNCHANGED blockVars)
<1>1. CASE UNCHANGED vars
  BY <1>1 DEF vars
<1>2. CASE Next
  BY <1>2 DEF Next
<1> QED BY <1>1, <1>2

(* Blocks are in one place each, and vectors have what they were given, by *)
(* whatever pushes, joins and transfers (blockman.c, blockvec.h), in the   *)
(* composition that TLC checks too.                                        *)
THEOREM VecsAreWhole == Spec => []VecHolds
<1> DEFINE Inv == part = "block" => Heap!BlockInv
<1>1. Heap!B!BlocksValid
  BY SameBlocks, BlocksSizes
<1>2. Init => Inv
  <2>1. Init => (part = "block" => Block!Init)
    BY DEF Init
  <2> QED BY <1>1, <2>1, SameBlocks, Heap!BlocksStart
<1>3. Inv /\ [Next]_vars => Inv'
  <2> SUFFICES ASSUME Inv, [Next]_vars, part' = "block"
               PROVE  Heap!BlockInv'
    OBVIOUS
  <2>1. part = "block" /\ (Block!Next \/ UNCHANGED blockVars)
    BY BlockStep
  <2>2. Heap!BlockInv /\ [Heap!B!Next]_Heap!B!vars
    BY <2>1, SameBlocks DEF blockVars, Heap!B!vars, Heap!B!manager, Heap!B!bump
  <2> QED BY <1>1, <2>2, Heap!BlocksStep
<1>4. Inv => VecHolds
  BY <1>1, SameBlocks, Heap!BlocksMean DEF VecHolds
<1> HIDE DEF Inv
<1> QED BY <1>2, <1>3, <1>4, PTL DEF Spec

=============================================================================
