----------------------------- MODULE ChunkArena -----------------------------
(***************************************************************************)
(* The chunk allocator with an arena and delayed unmapping                 *)
(* (native/chunk.c).                                                       *)
(*                                                                         *)
(* The arena is tiled by chunks: used ones, and free ones in a list per    *)
(* size class.  A chunk that is given back stays mapped in a list of its   *)
(* own, where it can be reused, until the unmap task returns it to the     *)
(* arena.  Memory is committed and decommitted without the lock.  Sizes    *)
(* and addresses count units of CHI_CHUNK_MIN_SIZE.  A chunk is known by   *)
(* its start; its handle comes from a pool that does not run dry.          *)
(***************************************************************************)
EXTENDS Naturals, Sequences, FiniteSets, FiniteSetsExt, SequencesExt

CONSTANTS
  ArenaSize,   \* units of the arena
  Requests,    \* the requests: <<size, align>>, 0 for no alignment
  Allocators,  \* threads that allocate and free
  UnmapTask    \* the task that unmaps

VARIABLES
  chunks,      \* start of a chunk |-> its size and whether it is used
  sizeList,    \* the free chunks of a size class
  committed,   \* units backed by memory
  delayed,     \* UnmapAllocator.list
  expired,     \* how many of its chunks have waited long enough
  held,        \* chunks of the program |-> the request
  apc,         \* where a thread is
  aop          \* its request, or the chunk in its hands

vars == <<chunks, sizeList, committed, delayed, expired, held, apc, aop>>

Free(c) == ~c.used
Units(start, size) == start .. start + size - 1
Aligned(start, align) == align = 0 \/ start % align = 0
AlignUp(start, align) == ((start + align - 1) \div align) * align

(* chunkClassSmaller and chunkClassLarger                                  *)
ClassSmaller(size) == Max({k \in 0 .. size : 2 ^ k <= size})
ClassLarger(size) == LET k == ClassSmaller(size) IN IF 2 ^ k < size THEN k + 1 ELSE k
MaxClass == ClassSmaller(ArenaSize)

(* A size and an alignment are units, and the task is not a thread that    *)
(* allocates.  The last two facts are those about powers of two on which   *)
(* the lists rely: each chunk has one, and from that of a larger class on  *)
(* they have room.                                                         *)
ArenaValid ==
  /\ ArenaSize \in Nat \ {0} /\ UnmapTask \notin Allocators
  /\ Requests \subseteq (Nat \ {0}) \X Nat
  /\ \A size \in 1 .. ArenaSize : ClassSmaller(size) \in 0 .. MaxClass
  /\ \A r \in Requests : \A size \in 1 .. ArenaSize :
       ClassSmaller(size) >= ClassLarger(r[1] + r[2]) => size >= r[1] + r[2]

None == ArenaSize
NoOp == [size |-> 0, align |-> 0, chunk |-> None]

Init ==
  /\ chunks = [s \in {0} |-> [size |-> ArenaSize, used |-> FALSE]]
  /\ sizeList = [k \in 0 .. MaxClass |-> IF k = MaxClass THEN <<0>> ELSE <<>>]
  /\ committed = {}
  /\ delayed = <<>>
  /\ expired = 0
  /\ held = [s \in {} |-> <<0, 0>>]
  /\ apc = [t \in Allocators \cup {UnmapTask} |-> IF t = UnmapTask THEN "none" ELSE "idle"]
  /\ aop = [t \in Allocators \cup {UnmapTask} |-> NoOp]

With(f, x, value) == [y \in DOMAIN f \cup {x} |-> IF y = x THEN value ELSE f[y]]

-----------------------------------------------------------------------------
(* The arena, as a record of chunks and lists.                             *)
Arena == [c |-> chunks, l |-> sizeList]
Mark(a, s, used) == [a EXCEPT !.c[s].used = used]
WithList(a, k, q) == [a EXCEPT !.l[k] = q]

Delete(q, s) == RemoveAt(q, CHOOSE i \in DOMAIN q : q[i] = s)
Unlist(a, s) == LET k == ClassSmaller(a.c[s].size) IN WithList(a, k, Delete(a.l[k], s))
Enlist(a, s) == LET k == ClassSmaller(a.c[s].size) IN WithList(a, k, Append(a.l[k], s))

(* vaCoalesce: the chunk at s swallows the one behind it.                  *)
Coalesce(a, s, b) ==
  [a EXCEPT !.c = [x \in DOMAIN a.c \ {b} |->
                     IF x = s THEN [a.c[s] EXCEPT !.size = @ + a.c[b].size] ELSE a.c[x]]]

(* What vaInsertFree looks for: a free chunk before s, and one behind it,  *)
(* which the chunk at s swallows.                                          *)
Before(a, s) == {x \in DOMAIN a.c : x + a.c[x].size = s /\ Free(a.c[x])}
JoinAfter(a, s) ==
  LET next == s + a.c[s].size
  IN  IF next \in DOMAIN a.c /\ Free(a.c[next]) THEN Coalesce(Unlist(a, next), s, next) ELSE a

(* Broken: a free chunk before the new one is not looked for.              *)
InsertFree_after(a, s) == Enlist(JoinAfter(Mark(a, s, FALSE), s), s)

(* vaInsertFree                                                            *)
InsertFree(a, s) ==
  LET b == Mark(a, s, FALSE)
      h == Max(Before(b, s))
  IN  IF Before(b, s) = {} THEN Enlist(JoinAfter(b, s), s)
      ELSE Enlist(JoinAfter(Coalesce(Unlist(b, h), h, s), h), h)

(* The class vaFindSize takes a chunk from.                                *)
FindClass(a, size) ==
  LET ks == {k \in DOMAIN a.l : k >= ClassLarger(size) /\ a.l[k] # <<>>}
  IN  IF ks = {} THEN MaxClass + 1 ELSE Min(ks)

(* A chunk of a larger size splits in two.                                 *)
Cut(a, s, m) ==
  [a EXCEPT !.c = With(With(@, s, [size |-> m - s, used |-> TRUE]),
                       m, [size |-> a.c[s].size - (m - s), used |-> TRUE])]

(* vaSplit, and the rests become free again.                               *)
Carve(a, s, size, align) ==
  LET start == IF Aligned(s, align) THEN s ELSE AlignUp(s, align)
      b == IF start = s THEN a ELSE Cut(a, s, start)
      whole == b.c[start].size = size
      d == IF whole THEN b ELSE Cut(b, start, start + size)
      e == IF start = s THEN d ELSE InsertFree(d, s)
  IN  [arena |-> IF whole THEN e ELSE InsertFree(e, start + size), start |-> start]

Become(a) == chunks' = a.c /\ sizeList' = a.l
Move(t, l) == apc' = [apc EXCEPT ![t] = l]
Hand(t, s) == aop' = [aop EXCEPT ![t].chunk = s]
Give(t, s) == /\ held' = With(held, s, <<aop[t].size, aop[t].align>>)
              /\ Move(t, "idle")
              /\ aop' = [aop EXCEPT ![t] = NoOp]

-----------------------------------------------------------------------------
(* chiChunkNew                                                             *)
New(t) ==
  /\ apc[t] = "idle"
  /\ \E r \in Requests : aop' = [aop EXCEPT ![t] = [NoOp EXCEPT !.size = r[1], !.align = r[2]]]
  /\ Move(t, "reuse")
  /\ UNCHANGED <<chunks, sizeList, committed, delayed, expired, held>>

(* uaReuse: a chunk that waits to be unmapped.                             *)
Fitting(t) == {i \in DOMAIN delayed : /\ chunks[delayed[i]].size = aop[t].size
                                      /\ Aligned(delayed[i], aop[t].align)}
Reuse(t) ==
  /\ apc[t] = "reuse"
  /\ IF Fitting(t) # {}
     THEN LET i == Min(Fitting(t))
          IN  /\ Give(t, delayed[i])
              /\ delayed' = RemoveAt(delayed, i)
              /\ expired' = IF i <= expired THEN expired - 1 ELSE expired
     ELSE /\ Move(t, "find")
          /\ UNCHANGED <<delayed, expired, held, aop>>
  /\ UNCHANGED <<chunks, sizeList, committed>>

(* vaFind                                                                  *)
Find(t) ==
  /\ apc[t] = "find"
  /\ LET k == FindClass(Arena, aop[t].size + aop[t].align)
     IN  IF k > MaxClass
         THEN Move(t, "emergency") /\ UNCHANGED <<chunks, sizeList, aop>>
         ELSE LET s == Head(sizeList[k])
                  a == Mark(WithList(Arena, k, Tail(sizeList[k])), s, TRUE)
                  r == Carve(a, s, aop[t].size, aop[t].align)
              IN  /\ Become(r.arena)
                  /\ Hand(t, r.start)
                  /\ Move(t, "commit")
  /\ UNCHANGED <<committed, delayed, expired, held>>

(* chiVirtCommit, without the lock, which may fail.                        *)
Commit(t) ==
  /\ apc[t] = "commit"
  /\ LET s == aop[t].chunk
     IN  \/ /\ committed' = committed \cup Units(s, chunks[s].size)
            /\ Give(t, s)
            /\ UNCHANGED <<chunks, sizeList>>
         \/ /\ Become(InsertFree(Arena, s))
            /\ Hand(t, None)
            /\ Move(t, "emergency")
            /\ UNCHANGED <<committed, held>>
  /\ UNCHANGED <<delayed, expired>>

(* uaFreeEmergency: the chunks that wait are unmapped one by one.  It      *)
(* answers FALSE when none is left, and chiChunkNew gives up.              *)
Emergency(t) ==
  /\ apc[t] = "emergency"
  /\ IF delayed = <<>>
     THEN /\ Move(t, "idle")
          /\ aop' = [aop EXCEPT ![t] = NoOp]
          /\ UNCHANGED <<delayed, expired>>
     ELSE /\ Hand(t, Head(delayed))
          /\ delayed' = Tail(delayed)
          /\ expired' = IF expired > 0 THEN expired - 1 ELSE 0
          /\ Move(t, "decommit")
  /\ UNCHANGED <<chunks, sizeList, committed, held>>

-----------------------------------------------------------------------------
(* vaFreeChunk: the memory goes first, without the lock,                   *)
Decommit(t) ==
  /\ apc[t] = "decommit"
  /\ committed' = committed \ Units(aop[t].chunk, chunks[aop[t].chunk].size)
  /\ Move(t, "insert")
  /\ UNCHANGED <<chunks, sizeList, delayed, expired, held, aop>>

(* then the chunk becomes free.                                            *)
Insert(t) ==
  /\ apc[t] = "insert"
  /\ Become(InsertFree(Arena, aop[t].chunk))
  /\ Hand(t, None)
  /\ Move(t, IF t = UnmapTask THEN "pop" ELSE "emergency")
  /\ UNCHANGED <<committed, delayed, expired, held>>

(* chiChunkFree, which is uaFreeChunk: the chunk is left to the task if    *)
(* another one has waited long enough; without a task all are unmapped.    *)
ChunkFree(t) ==
  /\ apc[t] = "idle"
  /\ \E s \in DOMAIN held :
       /\ held' = [x \in DOMAIN held \ {s} |-> held[x]]
       /\ delayed' = Append(delayed, s)
  /\ IF expired = 0 THEN UNCHANGED apc
     ELSE IF apc[UnmapTask] = "none"
          THEN Move(UnmapTask, "pop") \/ Move(t, "emergency")
          ELSE apc' = [apc EXCEPT ![UnmapTask] = IF @ = "wait" THEN "pop" ELSE @]
  /\ UNCHANGED <<chunks, sizeList, committed, expired, aop>>

(* _unmapTimeout has passed for one more chunk of the list.                *)
Expire ==
  /\ expired < Len(delayed)
  /\ expired' = expired + 1
  /\ UNCHANGED <<chunks, sizeList, committed, delayed, held, apc, aop>>

(* uaPopWait                                                               *)
PopWait ==
  /\ apc[UnmapTask] = "pop"
  /\ IF expired > 0
     THEN /\ Hand(UnmapTask, Head(delayed))
          /\ delayed' = Tail(delayed)
          /\ expired' = expired - 1
          /\ Move(UnmapTask, "decommit")
     ELSE Move(UnmapTask, "wait") /\ UNCHANGED <<delayed, expired, aop>>
  /\ UNCHANGED <<chunks, sizeList, committed, held>>

Next ==
  \/ \E t \in Allocators : New(t) \/ Reuse(t) \/ Find(t) \/ Commit(t) \/ Emergency(t) \/ ChunkFree(t)
  \/ \E t \in Allocators \cup {UnmapTask} : Decommit(t) \/ Insert(t)
  \/ Expire
  \/ PopWait

Spec == Init /\ [][Next]_vars

-----------------------------------------------------------------------------
(* Every variable has its type.                                            *)
TypeOK ==
  /\ DOMAIN chunks \subseteq 0 .. ArenaSize - 1
  /\ \A s \in DOMAIN chunks : chunks[s] \in [size : 1 .. ArenaSize, used : BOOLEAN]
  /\ sizeList \in [0 .. MaxClass -> Seq(0 .. ArenaSize - 1)]
  /\ committed \subseteq 0 .. ArenaSize - 1
  /\ delayed \in Seq(0 .. ArenaSize - 1)
  /\ expired \in 0 .. Len(delayed)
  /\ DOMAIN held \subseteq DOMAIN chunks
  /\ \A t \in Allocators : apc[t] \in {"idle", "reuse", "find", "commit", "emergency",
                                        "decommit", "insert"}
  /\ apc[UnmapTask] \in {"none", "pop", "wait", "decommit", "insert"}

(* After any mix of allocations, splits and frees the chunks tile the      *)
(* arena, free neighbours have been joined (chunk.h promises it), and the  *)
(* size lists hold the free chunks, each once and in its class.            *)
Tiled == \A u \in 0 .. ArenaSize - 1 :
           \E s \in DOMAIN chunks : /\ u \in Units(s, chunks[s].size)
                                    /\ \A r \in DOMAIN chunks \ {s} : u \notin Units(r, chunks[r].size)
Joined == \A s \in DOMAIN chunks : LET n == s + chunks[s].size
                                   IN  Free(chunks[s]) /\ n \in DOMAIN chunks => chunks[n].used
Sorted == \A k \in DOMAIN sizeList :
            /\ ToSet(sizeList[k]) = {s \in DOMAIN chunks : /\ Free(chunks[s])
                                                           /\ ClassSmaller(chunks[s].size) = k}
            /\ IsInjective(sizeList[k])
ArenaSound == Tiled /\ Joined /\ Sorted

(* What the program has been given is what it asked for, and is backed by  *)
(* memory of its own until it gives it back, whatever the unmap task and   *)
(* other threads unmap meanwhile.                                          *)
HeldUsable ==
  \A s \in DOMAIN held :
    /\ s \in DOMAIN chunks /\ chunks[s].used
    /\ chunks[s].size = held[s][1] /\ Aligned(s, held[s][2])
    /\ Units(s, chunks[s].size) \subseteq committed
    /\ s \notin ToSet(delayed) /\ \A t \in DOMAIN aop : aop[t].chunk # s

(* No memory is left committed to a free chunk.                            *)
NoLeak == \A s \in DOMAIN chunks : Free(chunks[s]) => Units(s, chunks[s].size) \cap committed = {}

=============================================================================
