------------------------------- MODULE Blocks -------------------------------
(***************************************************************************)
(* Blocks (blockman.c, blockalloc.h) and the vectors made of them          *)
(* (generic/blockvec.h): gray vectors, dirty lists, card lists.            *)
(*                                                                         *)
(* A manager carves blocks out of chunks and keeps the free ones; it gives *)
(* the chunks back at the moment no block is in use.  The vectors are      *)
(* lists of blocks, the head is the one elements are pushed to; a bump     *)
(* allocator has a list of the blocks it has filled.  An operation takes   *)
(* the manager's mutex at most once, so it is one step; Transfer, which    *)
(* may free a block and then allocate one, takes it twice and is one step  *)
(* all the same: what others do to the manager in between could as well    *)
(* have been done before.  A block is its chunk and its position in it;    *)
(* the address of a chunk is reused.                                       *)
(***************************************************************************)
EXTENDS Naturals, Sequences, FiniteSets, SequencesExt

CONSTANTS
  Vecs,           \* vectors of one manager
  Elems,          \* what they contain
  BlockLen,       \* elements, or words, of a block
  ChunkBlocks,    \* blocks of a chunk
  MaxChunks       \* bound on the chunks

VARIABLES
  blockChunks,  \* bm->chunkList
  nextBlock,    \* bm->nextBlock, NoBlock for 0
  blocksCount,  \* bm->blocksCount
  freeList,     \* bm->freeList
  vec,          \* vector |-> blocks and their elements, the head first
  usedList,     \* blocks of the bump allocator, the current one last
  bumped,       \* words allocated in the current one
  content       \* vector |-> element |-> how often the vector must have it

BlocksValid == {BlockLen, ChunkBlocks} \subseteq Nat \ {0} /\ MaxChunks \in Nat

manager == <<blockChunks, nextBlock, blocksCount, freeList>>
bump == <<usedList, bumped>>
vars == <<manager, vec, bump, content>>

Chunks == 1 .. MaxChunks
NoBlock == <<0, 0>>
Manager == [chunks |-> blockChunks, next |-> nextBlock, count |-> blocksCount, free |-> freeList]
SetManager(m) ==
  /\ blockChunks' = m.chunks
  /\ nextBlock' = m.next
  /\ blocksCount' = m.count
  /\ freeList' = m.free

-----------------------------------------------------------------------------
(* freshBlock, chiBlockManagerAlloc: the manager and the block.  The last  *)
(* block of a chunk leaves no next one.                                    *)
CanAlloc(m, n) ==
  Len(m.free) + (IF m.next = NoBlock THEN 0 ELSE 1 + (ChunkBlocks - m.next[2]))
    + ChunkBlocks * (MaxChunks - Cardinality(m.chunks)) >= n

After(b) == IF b[2] = ChunkBlocks THEN NoBlock ELSE <<b[1], b[2] + 1>>

Fresh(m) ==
  LET chunk == CHOOSE c \in Chunks \ m.chunks : \A d \in Chunks \ m.chunks : c <= d
      new == m.next = NoBlock
      b == IF new THEN <<chunk, 1>> ELSE m.next
  IN  [m |-> [m EXCEPT !.next = After(b), !.count = @ + 1,
                       !.chunks = IF new THEN @ \cup {chunk} ELSE @],
       b |-> b]

Alloc(m) ==
  IF m.free = <<>> THEN Fresh(m) ELSE [m |-> [m EXCEPT !.free = Tail(@)], b |-> Head(m.free)]

(* freeChunkList *)
FreeChunkList(m) ==
  IF m.count = Len(m.free)
  THEN [chunks |-> {}, next |-> NoBlock, count |-> 0, free |-> <<>>]
  ELSE m

(* chiBlockManagerFree, chiBlockManagerFreeList                            *)
FreeBlock(m, b) == FreeChunkList([m EXCEPT !.free = <<b>> \o @])
FreeBlocks(m, bs) == IF bs = <<>> THEN m ELSE FreeChunkList([m EXCEPT !.free = @ \o bs])

-----------------------------------------------------------------------------
(* The vectors.                                                            *)
Empty(b) == [block |-> b, elems |-> <<>>]
IsNull(v) == Head(v).elems = <<>>
BlocksOf(v) == [i \in DOMAIN v |-> v[i].block]

Init ==
  /\ blockChunks = {}
  /\ nextBlock = NoBlock
  /\ blocksCount = 0
  /\ freeList = <<>>
  /\ vec = [v \in Vecs |-> <<>>]
  /\ usedList = <<>>
  /\ bumped = 0
  /\ content = [v \in Vecs |-> [e \in Elems |-> 0]]

SetUp(v) == vec[v] # <<>>

(* VEC_INIT, VEC_FREE                                                      *)
VecInit(v) ==
  /\ ~SetUp(v) /\ CanAlloc(Manager, 1)
  /\ LET a == Alloc(Manager) IN SetManager(a.m) /\ vec' = [vec EXCEPT ![v] = <<Empty(a.b)>>]
  /\ UNCHANGED <<bump, content>>

VecFree(v) ==
  /\ SetUp(v)
  /\ SetManager(FreeBlocks(Manager, BlocksOf(vec[v])))
  /\ vec' = [vec EXCEPT ![v] = <<>>]
  /\ content' = [content EXCEPT ![v] = [e \in Elems |-> 0]]
  /\ UNCHANGED bump

(* VEC_PUSH, VEC_GROW                                                      *)
Push(v, e) ==
  /\ SetUp(v)
  /\ LET grow == Len(Head(vec[v]).elems) = BlockLen
         a == Alloc(Manager)
         blocks == IF grow THEN <<Empty(a.b)>> \o vec[v] ELSE vec[v]
     IN  /\ grow => CanAlloc(Manager, 1)
         /\ SetManager(IF grow THEN a.m ELSE Manager)
         /\ vec' = [vec EXCEPT ![v] = [blocks EXCEPT ![1].elems = Append(@, e)]]
  /\ content' = [content EXCEPT ![v][e] = @ + 1]
  /\ UNCHANGED bump

(* VEC_POP: a head that becomes empty is freed, unless it is the only one. *)
Pop(v) ==
  /\ SetUp(v) /\ ~IsNull(vec[v])
  /\ LET e == Last(Head(vec[v]).elems)
         rest == [vec[v] EXCEPT ![1].elems = Front(@)]
         drop == IsNull(rest) /\ Len(rest) > 1
     IN  /\ vec' = [vec EXCEPT ![v] = IF drop THEN Tail(rest) ELSE rest]
         /\ SetManager(IF drop THEN FreeBlock(Manager, Head(rest).block) ELSE Manager)
         /\ content' = [content EXCEPT ![v][e] = @ - 1]
  /\ UNCHANGED bump

Moved(dst, src) ==
  content' = [content EXCEPT ![dst] = [e \in Elems |-> @[e] + content[src][e]],
                             ![src] = [e \in Elems |-> 0]]

(* VEC_JOIN: the empty vectors swap their only block for the others.       *)
Join(dst, src) ==
  /\ dst # src /\ SetUp(dst) /\ SetUp(src) /\ ~IsNull(vec[src])
  /\ LET a == Alloc(Manager)
         swap == IsNull(vec[dst])
     IN  /\ ~swap => CanAlloc(Manager, 1)
         /\ SetManager(IF swap THEN Manager ELSE a.m)
         /\ vec' = [vec EXCEPT ![dst] = IF swap THEN vec[src] ELSE @ \o vec[src],
                               ![src] = IF swap THEN vec[dst] ELSE <<Empty(a.b)>>]
  /\ Moved(dst, src)
  /\ UNCHANGED bump

Times(elems, e) == Cardinality({i \in DOMAIN elems : elems[i] = e})

(* Broken: the block is put in front, where an empty head may be.          *)
Transfer_front(dst, src) ==
  /\ dst # src /\ SetUp(dst) /\ SetUp(src) /\ ~IsNull(vec[src])
  /\ LET b == Head(vec[src])
         last == Len(vec[src]) = 1
         a == Alloc(Manager)
     IN  /\ last => CanAlloc(Manager, 1)
         /\ SetManager(IF last THEN a.m ELSE Manager)
         /\ vec' = [vec EXCEPT ![dst] = <<b>> \o @,
                               ![src] = IF last THEN <<Empty(a.b)>> ELSE Tail(@)]
         /\ content' = [content EXCEPT ![dst] = [e \in Elems |-> @[e] + Times(b.elems, e)],
                                       ![src] = [e \in Elems |-> @[e] - Times(b.elems, e)]]
  /\ UNCHANGED bump

(* VEC_TRANSFER: one block of src; the empty block of dst is freed first.  *)
Transfer(dst, src) ==
  /\ dst # src /\ SetUp(dst) /\ SetUp(src) /\ ~IsNull(vec[src])
  /\ LET b == Head(vec[src])
         null == IsNull(vec[dst])
         last == Len(vec[src]) = 1
         freed == IF null THEN FreeBlock(Manager, Head(vec[dst]).block) ELSE Manager
         a == Alloc(freed)
     IN  /\ last => CanAlloc(freed, 1)
         /\ SetManager(IF last THEN a.m ELSE freed)
         /\ vec' = [vec EXCEPT ![dst] = Append(IF null THEN Tail(@) ELSE @, b),
                               ![src] = IF last THEN <<Empty(a.b)>> ELSE Tail(@)]
         /\ content' = [content EXCEPT ![dst] = [e \in Elems |-> @[e] + Times(b.elems, e)],
                                       ![src] = [e \in Elems |-> @[e] - Times(b.elems, e)]]
  /\ UNCHANGED bump

-----------------------------------------------------------------------------
(* The bump allocator: chiBlockAllocSetup, chiBlockAllocNew with           *)
(* chiBlockAllocFresh, chiBlockAllocDestroy.                               *)
BumpSetup ==
  /\ usedList = <<>> /\ CanAlloc(Manager, 1)
  /\ LET a == Alloc(Manager) IN SetManager(a.m) /\ usedList' = <<a.b>>
  /\ bumped' = 0
  /\ UNCHANGED <<vec, content>>

BumpNew(words) ==
  /\ usedList # <<>>
  /\ LET fits == bumped + words <= BlockLen
         a == Alloc(Manager)
     IN  /\ ~fits => CanAlloc(Manager, 1)
         /\ SetManager(IF fits THEN Manager ELSE a.m)
         /\ usedList' = IF fits THEN usedList ELSE Append(usedList, a.b)
         /\ bumped' = IF fits THEN bumped + words ELSE words
  /\ UNCHANGED <<vec, content>>

BumpDestroy ==
  /\ usedList # <<>>
  /\ SetManager(FreeBlocks(Manager, usedList))
  /\ usedList' = <<>>
  /\ bumped' = 0
  /\ UNCHANGED <<vec, content>>

Next ==
  \/ \E v \in Vecs : VecInit(v) \/ VecFree(v) \/ Pop(v) \/ \E e \in Elems : Push(v, e)
  \/ \E dst, src \in Vecs : Join(dst, src) \/ Transfer(dst, src)
  \/ BumpSetup \/ BumpDestroy \/ \E words \in 1 .. BlockLen : BumpNew(words)

Spec == Init /\ [][Next]_vars

-----------------------------------------------------------------------------
(* No block is in two places, is lost or lies in a chunk that has been     *)
(* given back or not been carved that far; the manager's count is right,   *)
(* so the chunks go as soon as nothing is in use.                          *)
VecBlocks == UNION {Range(BlocksOf(vec[v])) : v \in Vecs}
InUse == VecBlocks \cup Range(usedList)
BlocksSound ==
  /\ \A v \in Vecs : IsInjective(BlocksOf(vec[v]))
  /\ \A v, w \in Vecs : v # w => Range(BlocksOf(vec[v])) \cap Range(BlocksOf(vec[w])) = {}
  /\ IsInjective(usedList) /\ Range(usedList) \cap VecBlocks = {}
  /\ IsInjective(freeList) /\ Range(freeList) \cap InUse = {}
  /\ Cardinality(InUse \cup Range(freeList)) = blocksCount
  /\ \A b \in InUse \cup Range(freeList) \cup ({nextBlock} \ {NoBlock}) : b[1] \in blockChunks
  /\ nextBlock \notin InUse \cup Range(freeList)
  /\ InUse = {} => blockChunks = {}

(* VEC_NULL asserts that only a block that is alone is empty; the vectors, *)
(* walked with begin and next, then have exactly what was pushed and not   *)
(* popped, wherever it was joined or transferred to.                       *)
Found(v, e) == {p \in UNION {{i} \X DOMAIN v[i].elems : i \in DOMAIN v} :
                  v[p[1]].elems[p[2]] = e}
VecHolds ==
  \A v \in Vecs :
    /\ \A i \in DOMAIN vec[v] : vec[v][i].elems = <<>> => Len(vec[v]) = 1
    /\ \A e \in Elems : Cardinality(Found(vec[v], e)) = content[v][e]

=============================================================================
