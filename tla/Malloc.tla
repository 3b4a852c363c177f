------------------------------- MODULE Malloc -------------------------------
(***************************************************************************)
(* malloc on top of chunks (native/malloc/pool.h, native/pool.h).          *)
(*                                                                         *)
(* Small blocks come from pools of objects whose size is a power of two,   *)
(* large ones are chunks.  A header keeps the size asked for: it alone     *)
(* tells free and realloc which pool a block belongs to.  Everything is    *)
(* done under one mutex or concerns a block only its owner knows, hence    *)
(* one step per call.  Sizes count units of MALLOC_HEADER_SIZE; an address *)
(* is a chunk and an offset, and a block is known by that of its header.   *)
(***************************************************************************)
EXTENDS Naturals, Sequences, FiniteSets, FiniteSetsExt, SequencesExt

CONSTANTS
  ChunkMin,     \* CHI_CHUNK_MIN_SIZE, a power of two
  BlockSizes,   \* the sizes asked for
  MallocChunks, \* chunks the system has
  MaxBlocks     \* bound on the blocks in use

VARIABLES
  pool,    \* mallocPool: the free list, and what is left of the last chunk
  chunk,   \* chunks in use |-> their size
  block    \* blocks in use |-> the size in their header; some are chunks

vars == <<pool, chunk, block>>

Header == 1

(* chiLog2Ceil(size) - MALLOC_POOL_SHIFT                                   *)
Class(size) == Min({k \in 0 .. size : 2 ^ (k + 1) >= size})
Object(k) == 2 ^ (k + 1)
Pools == 0 .. Class(ChunkMin) - 1
GetPool(size) == Class(size + Header)

IsSmall(size) == size + Header <= ChunkMin \div 2

(* The facts about powers of two on which the pools rely: an object of a   *)
(* pool fits into a chunk, a small block into an object of its pool, and a *)
(* block that fits into an object has a pool with objects no larger.       *)
MallocValid ==
  /\ ChunkMin \in Nat \ {0} /\ MallocChunks \subseteq Nat /\ BlockSizes \subseteq Nat
  /\ \A k \in Pools : Object(k) \in 1 .. ChunkMin
  /\ \A size \in BlockSizes : IsSmall(size) =>
       GetPool(size) \in Pools /\ size + Header <= Object(GetPool(size))
  /\ \A size \in BlockSizes : \A k \in Pools : size + Header <= Object(k) =>
       /\ GetPool(size) \in Pools /\ size + Header <= Object(GetPool(size))
       /\ Object(GetPool(size)) <= Object(k)

With(f, x, value) == [y \in DOMAIN f \cup {x} |-> IF y = x THEN value ELSE f[y]]
Without(f, x) == [y \in DOMAIN f \ {x} |-> f[y]]

Init ==
  /\ pool = [k \in Pools |-> [free |-> <<>>, chunk |-> 0, next |-> 0, end |-> 0]]
  /\ chunk = [c \in {} |-> 0]
  /\ block = [m \in {} |-> [size |-> 0, large |-> FALSE]]

Units(m, size) == {m[1]} \X (m[2] .. m[2] + size - 1)

-----------------------------------------------------------------------------
(* What is left of the last chunk of a pool.                               *)
Rest(p, k) == {<<p.chunk, o>> : o \in {x \in p.next .. p.end : (x - p.next) % Object(k) = 0
                                                              /\ x + Object(k) <= p.end}}

(* chiPoolTryGet finds an object.                                          *)
Filled(p, k) == p.free # <<>> \/ p.next + Object(k) <= p.end

Unused == MallocChunks \ DOMAIN chunk
Heap == [pool |-> pool, chunk |-> chunk, block |-> block]

(* A heap with another block, pool or chunk.                               *)
WithBlock(h, m, size, large) ==
  [h EXCEPT !.block = With(@, m, [size |-> size, large |-> large])]
WithoutBlock(h, m) == [h EXCEPT !.block = Without(@, m)]
WithPool(h, k, p) == [h EXCEPT !.pool[k] = p]
WithChunk(h, c, bytes) == [h EXCEPT !.chunk = With(@, c, bytes)]
WithoutChunk(h, c) == [h EXCEPT !.chunk = Without(@, c)]

(* chiPoolGrow: what is left of the last chunk goes to the free list.      *)
Grown(p, k, c) ==
  [free |-> SetToSeq(Rest(p, k)) \o p.free, chunk |-> c, next |-> 0, end |-> ChunkMin]
Grow(h, k, c) == WithPool(WithChunk(h, c, ChunkMin), k, Grown(h.pool[k], k, c))

(* _chiPoolGet and _chiPoolAlloc                                           *)
Get(h, k, size) ==
  LET p == h.pool[k]
  IN  IF p.free # <<>>
      THEN WithBlock(WithPool(h, k, [p EXCEPT !.free = Tail(@)]), Head(p.free), size, FALSE)
      ELSE WithBlock(WithPool(h, k, [p EXCEPT !.next = @ + Object(k)]),
                     <<p.chunk, p.next>>, size, FALSE)

(* mallocLarge: the heap with a new block, or nothing                      *)
Large(h, size) ==
  LET c == Min(Unused)
      bytes == ((size + Header + ChunkMin - 1) \div ChunkMin) * ChunkMin
  IN  IF Unused = {} THEN {} ELSE {WithBlock(WithChunk(h, c, bytes), <<c, 0>>, size, TRUE)}

(* mallocSmall                                                             *)
Small(h, size) ==
  LET k == GetPool(size)
  IN  IF Filled(h.pool[k], k) THEN {Get(h, k, size)}
      ELSE IF Unused = {} THEN {}
      ELSE {Get(Grow(h, k, Min(Unused)), k, size)}

(* chi_system_malloc; the empty set when memory is out                     *)
Alloc(h, size) == IF IsSmall(size) THEN Small(h, size) ELSE Large(h, size)

(* chi_system_free                                                         *)
Release(h, m) ==
  LET b == h.block[m]
      k == GetPool(b.size)
  IN  IF b.large THEN WithoutChunk(WithoutBlock(h, m), m[1])
      ELSE WithPool(WithoutBlock(h, m), k, [h.pool[k] EXCEPT !.free = <<m>> \o @])

(* Broken: the header is not counted.                                      *)
Fitting_header(h, m) ==
  IF h.block[m].large THEN h.chunk[m[1]] ELSE Object(GetPool(h.block[m].size))

(* What realloc takes a block to have room for: maxSize.                   *)
Fitting(h, m) ==
  IF h.block[m].large THEN h.chunk[m[1]] - Header ELSE Object(GetPool(h.block[m].size)) - Header

Become(h) == pool' = h.pool /\ chunk' = h.chunk /\ block' = h.block

-----------------------------------------------------------------------------
(* chi_system_malloc, and calloc, which clears the block as well           *)
Malloc(size) ==
  /\ Cardinality(DOMAIN block) < MaxBlocks
  /\ \E h \in Alloc(Heap, size) : Become(h)

(* chi_system_free                                                         *)
FreeBlock(m) == Become(Release(Heap, m))

(* chi_system_realloc: in place, or a new block and a copy, unless memory  *)
(* is out.                                                                 *)
Realloc(m, size) ==
  \/ size = 0 /\ Become(Release(Heap, m))
  \/ /\ size > 0
     /\ size <= Fitting(Heap, m)
     /\ Become(WithBlock(Heap, m, size, block[m].large))
  \/ /\ size > Fitting(Heap, m)
     /\ \E h \in Alloc(Heap, size) : Become(Release(h, m))

Next ==
  \/ \E size \in BlockSizes : Malloc(size)
  \/ \E m \in DOMAIN block : FreeBlock(m)
  \/ \E m \in DOMAIN block, size \in BlockSizes : Realloc(m, size)

Spec == Init /\ [][Next]_vars

-----------------------------------------------------------------------------
(* What belongs to somebody: blocks with the size their owners asked for,  *)
(* objects of the free lists, and what pools have not handed out.          *)
Owned == {<<{}, m, Header + block[m].size>> : m \in DOMAIN block}
         \cup UNION {{<<{k}, m, Object(k)>> : m \in ToSet(pool[k].free) \cup Rest(pool[k], k)} : k \in Pools}

(* No two of them overlap, none leaves its chunk, and none is in a list    *)
(* twice, although realloc changes the size from which free concludes the  *)
(* pool of a block.                                                        *)
MallocSound ==
  /\ \A a, b \in Owned : a # b => Units(a[2], a[3]) \cap Units(b[2], b[3]) = {}
  /\ \A a \in Owned : a[2][1] \in DOMAIN chunk /\ a[2][2] + a[3] <= chunk[a[2][1]]
  /\ \A k \in Pools : IsInjective(pool[k].free)

=============================================================================
