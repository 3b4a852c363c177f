----------------------------- MODULE MemoryProofs -----------------------------
(***************************************************************************)
(* Chunks tile the arena, free neighbours are joined, the lists have the   *)
(* free chunks, and what the program holds is its own and backed by memory *)
(* (ChunkArena), for arenas of any size, any requests and any number of    *)
(* threads.  Blocks that malloc makes of chunks overlap neither each other *)
(* nor what is free (Malloc), for chunks and blocks of any size and number.*)
(***************************************************************************)
EXTENDS ChunkArena, FiniteSetTheorems, NaturalsInduction, WellFoundedInduction, TLAPS

CONSTANTS ChunkMin, BlockSizes, MallocChunks, MaxBlocks  \* Malloc
VARIABLES pool, chunk, block
M == INSTANCE Malloc

Addr == 0 .. ArenaSize - 1
ChunkRec == [size : 1 .. ArenaSize, used : BOOLEAN]
ChunkMap == UNION {[D -> ChunkRec] : D \in SUBSET Addr}
ListMap == [0 .. MaxClass -> Seq(Addr)]
ArenaType(a) == a \in [c : ChunkMap, l : ListMap]

End(c, s) == s + c[s].size

(* The chunks tile the arena.                                              *)
Tiles(c) ==
  /\ \A s \in DOMAIN c : End(c, s) <= ArenaSize
  /\ \A r, s \in DOMAIN c : r < s => End(c, r) <= s
  /\ \A u \in Addr : \E s \in DOMAIN c : s <= u /\ u < End(c, s)

(* Free neighbours are joined, except with the chunks of X.                *)
Joins(c, X) ==
  \A s \in DOMAIN c :
    (/\ ~c[s].used
     /\ End(c, s) \in DOMAIN c
     /\ s \notin X /\ End(c, s) \notin X)
      => c[End(c, s)].used

(* The lists have the free chunks except those of X.                       *)
Lists(c, l, X) ==
  /\ \A k \in 0 .. MaxClass : IsInjective(l[k])
  /\ \A k \in 0 .. MaxClass :
       ToSet(l[k]) = {s \in DOMAIN c : ~c[s].used /\ ClassSmaller(c[s].size) = k} \ X

(* An arena that is sound up to the chunks of X.                           *)
Sound(a, X) ==
  ArenaType(a) /\ Tiles(a.c) /\ Joins(a.c, X) /\ Lists(a.c, a.l, X)

(* The used chunks of d are those of c without X.                          *)
Used(c, x) == x \in DOMAIN c /\ c[x].used
Keeps(c, d, X) ==
  \A x \in Addr : /\ Used(d, x) <=> Used(c, x) /\ x \notin X
                  /\ Used(d, x) => d[x] = c[x]

-----------------------------------------------------------------------------
(* Lists of starts.                                                        *)

(* A list without its first start,                                         *)
LEMMA TailStarts ==
  ASSUME NEW q \in Seq(Addr), q # <<>>, IsInjective(q)
  PROVE  /\ Tail(q) \in Seq(Addr) /\ IsInjective(Tail(q))
         /\ Head(q) \in ToSet(q) /\ ToSet(Tail(q)) = ToSet(q) \ {Head(q)}
<1>1. Len(q) \in Nat /\ Len(q) > 0 /\ DOMAIN q = 1 .. Len(q) /\ Head(q) = q[1]
  OBVIOUS
<1>2. /\ Tail(q) \in Seq(Addr) /\ DOMAIN Tail(q) = 1 .. Len(q) - 1
      /\ \A i \in 1 .. Len(q) - 1 : Tail(q)[i] = q[i + 1]
  BY <1>1
<1>3. IsInjective(Tail(q))
  BY <1>1, <1>2 DEF IsInjective
<1>4. \A x \in ToSet(q) \ {Head(q)} : x \in ToSet(Tail(q))
  <2> SUFFICES ASSUME NEW i \in 1 .. Len(q), i # 1
               PROVE  q[i] \in ToSet(Tail(q))
    BY <1>1 DEF ToSet
  <2>1. i - 1 \in 1 .. Len(q) - 1 /\ (i - 1) + 1 = i
    BY <1>1
  <2> QED BY <1>2, <2>1 DEF ToSet
<1>5. \A x \in ToSet(Tail(q)) : x \in ToSet(q) \ {Head(q)}
  <2> SUFFICES ASSUME NEW i \in 1 .. Len(q) - 1
               PROVE  q[i + 1] \in ToSet(q) \ {q[1]}
    BY <1>1, <1>2 DEF ToSet
  <2>1. i + 1 \in DOMAIN q /\ 1 \in DOMAIN q /\ i + 1 # 1
    BY <1>1
  <2> QED BY <2>1 DEF ToSet, IsInjective
<1>6. ToSet(Tail(q)) = ToSet(q) \ {Head(q)}
  BY <1>4, <1>5
<1>7. Head(q) \in ToSet(q)
  BY <1>1 DEF ToSet
<1> QED BY <1>2, <1>3, <1>6, <1>7

(* with another one at the end,                                            *)
LEMMA AppendStarts ==
  ASSUME NEW q \in Seq(Addr), NEW s \in Addr, IsInjective(q), s \notin ToSet(q)
  PROVE  /\ Append(q, s) \in Seq(Addr) /\ IsInjective(Append(q, s))
         /\ ToSet(Append(q, s)) = ToSet(q) \cup {s}
<1> DEFINE r == Append(q, s)
<1>1. /\ r \in Seq(Addr) /\ Len(q) \in Nat /\ DOMAIN q = 1 .. Len(q)
      /\ DOMAIN r = 1 .. Len(q) + 1 /\ r[Len(q) + 1] = s
      /\ \A i \in 1 .. Len(q) : r[i] = q[i]
  OBVIOUS
<1> HIDE DEF r
<1>2. \A i \in DOMAIN r : i \in DOMAIN q \/ i = Len(q) + 1
  BY <1>1
<1>3. \A i \in DOMAIN q : r[i] = q[i] /\ i \in DOMAIN r /\ q[i] # s /\ i # Len(q) + 1
  BY <1>1 DEF ToSet
<1>4. IsInjective(r)
  <2> SUFFICES ASSUME NEW i \in DOMAIN r, NEW j \in DOMAIN r, r[i] = r[j]
               PROVE  i = j
    BY DEF IsInjective
  <2> QED BY <1>1, <1>2, <1>3 DEF IsInjective
<1>5. Len(q) + 1 \in DOMAIN r
  BY <1>1
<1>6. ToSet(r) = ToSet(q) \cup {s}
  BY <1>1, <1>2, <1>3, <1>5 DEF ToSet
<1> QED BY <1>1, <1>4, <1>6 DEF r

(* without one of them,                                                    *)
LEMMA RemoveAtStarts ==
  ASSUME NEW q \in Seq(Addr), NEW i \in DOMAIN q, IsInjective(q)
  PROVE  /\ RemoveAt(q, i) \in Seq(Addr) /\ Len(RemoveAt(q, i)) = Len(q) - 1
         /\ IsInjective(RemoveAt(q, i)) /\ ToSet(RemoveAt(q, i)) = ToSet(q) \ {q[i]}
<1> DEFINE u == SubSeq(q, 1, i - 1)
           v == SubSeq(q, i + 1, Len(q))
           r == u \o v
           n == Len(q)
<1>1. n \in Nat /\ DOMAIN q = 1 .. n /\ i \in 1 .. n
  OBVIOUS
<1>2. u \in Seq(Addr) /\ Len(u) = i - 1 /\ \A j \in 1 .. i - 1 : u[j] = q[j]
  BY <1>1
<1>3. v \in Seq(Addr) /\ Len(v) = Len(q) - i /\ \A j \in 1 .. Len(q) - i : v[j] = q[i + j]
  OBVIOUS
<1>4. RemoveAt(q, i) = r
  BY DEF RemoveAt
<1> HIDE DEF u, v
<1>5. r \in Seq(Addr) /\ DOMAIN r = 1 .. n - 1 /\ Len(r) = n - 1
  <2>1. r \in Seq(Addr)
    BY <1>2, <1>3
  <2>3. Len(r) = Len(u) + Len(v)
    <3>1. u \in Seq(Addr) /\ v \in Seq(Addr) /\ Len(u) \in Nat /\ Len(v) \in Nat
      BY <1>2, <1>3
    <3> QED BY ONLY <3>1
  <2>2. Len(r) = n - 1
    BY <1>1, <1>2, <1>3, <2>3
  <2> HIDE DEF r, n
  <2> QED BY <2>1, <2>2
<1>10. ASSUME NEW j \in 1 .. n - 1, j < i
       PROVE  r[j] = q[j]
  <2>1. r[j] = u[j]
    BY <1>1, <1>2, <1>3, <1>10
  <2> QED BY <2>1, <1>2, <1>10
<1>11. ASSUME NEW j \in 1 .. n - 1, j >= i
       PROVE  r[j] = q[j + 1]
  <2>1. j \in 1 .. Len(u) + Len(v) /\ ~(j <= Len(u)) /\ j - (i - 1) \in 1 .. Len(q) - i
    BY <1>1, <1>2, <1>3, <1>11
  <2>3. r[j] = v[j - Len(u)]
    BY <1>2, <1>3, <2>1
  <2>2. v[j - (i - 1)] = q[i + (j - (i - 1))] /\ i + (j - (i - 1)) = j + 1
    BY <2>1, <1>1, <1>3
  <2> QED BY <1>2, <2>2, <2>3
<1> HIDE DEF r, n
<1>6. IsInjective(r)
  <2> SUFFICES ASSUME NEW j \in 1 .. n - 1, NEW k \in 1 .. n - 1, r[j] = r[k]
               PROVE  j = k
    BY <1>5 DEF IsInjective
  <2>1. \A x, y \in 1 .. n : q[x] = q[y] => x = y
    BY <1>1 DEF IsInjective
  <2>2. j \in 1 .. n /\ j + 1 \in 1 .. n /\ k \in 1 .. n /\ k + 1 \in 1 .. n
    BY <1>1
  <2>3. CASE j < i /\ k < i
    BY <1>10, <2>1, <2>2, <2>3
  <2>4. CASE j >= i /\ k >= i
    <3>1. j + 1 = k + 1
      BY <1>11, <2>1, <2>2, <2>4
    <3> QED BY <3>1, <2>2
  <2>5. CASE j < i /\ k >= i
    <3>1. j = k + 1
      BY <1>10, <1>11, <2>1, <2>2, <2>5
    <3> QED BY <1>1, <2>2, <2>5, <3>1
  <2>6. CASE j >= i /\ k < i
    <3>1. j + 1 = k
      BY <1>10, <1>11, <2>1, <2>2, <2>6
    <3> QED BY <1>1, <2>2, <2>6, <3>1
  <2> QED BY <1>1, <2>2, <2>3, <2>4, <2>5, <2>6
<1>7. \A x \in ToSet(r) : x \in ToSet(q) \ {q[i]}
  <2> SUFFICES ASSUME NEW j \in 1 .. n - 1
               PROVE  r[j] \in ToSet(q) \ {q[i]}
    BY <1>5 DEF ToSet
  <2>1. \E m \in DOMAIN q : m # i /\ r[j] = q[m]
    <3>1. CASE j < i
      BY <1>1, <1>10, <3>1
    <3>2. CASE j >= i
      <4>1. j + 1 \in DOMAIN q /\ j + 1 # i /\ r[j] = q[j + 1]
        BY <1>1, <1>5, <1>11, <3>2
      <4> QED BY <4>1
    <3> QED BY <1>1, <3>1, <3>2
  <2> QED BY <2>1 DEF ToSet, IsInjective
<1>8. \A x \in ToSet(q) \ {q[i]} : x \in ToSet(r)
  <2> SUFFICES ASSUME NEW m \in DOMAIN q, m # i
               PROVE  q[m] \in ToSet(r)
    BY DEF ToSet
  <2>1. CASE m < i
    <3>1. m \in 1 .. n - 1 /\ r[m] = q[m]
      BY <1>1, <1>10, <2>1
    <3> QED BY <1>5, <3>1 DEF ToSet
  <2>2. CASE m > i
    <3>1. m - 1 \in 1 .. n - 1 /\ r[m - 1] = q[(m - 1) + 1] /\ (m - 1) + 1 = m
      BY <1>1, <1>11, <2>2
    <3> QED BY <1>5, <3>1 DEF ToSet
  <2> QED BY <1>1, <2>1, <2>2
<1>9. ToSet(r) = ToSet(q) \ {q[i]}
  BY <1>7, <1>8
<1> QED BY <1>4, <1>5, <1>6, <1>9 DEF n

(* and without a certain one (chiListDelete).                              *)
LEMMA DeleteStarts ==
  ASSUME NEW q \in Seq(Addr), NEW s \in ToSet(q), IsInjective(q)
  PROVE  /\ Delete(q, s) \in Seq(Addr) /\ IsInjective(Delete(q, s))
         /\ ToSet(Delete(q, s)) = ToSet(q) \ {s}
<1> DEFINE i == CHOOSE j \in DOMAIN q : q[j] = s
<1>1. i \in DOMAIN q /\ q[i] = s
  BY DEF ToSet
<1> HIDE DEF i
<1>2. /\ RemoveAt(q, i) \in Seq(Addr) /\ IsInjective(RemoveAt(q, i))
      /\ ToSet(RemoveAt(q, i)) = ToSet(q) \ {q[i]}
  BY <1>1, RemoveAtStarts
<1> QED BY <1>1, <1>2 DEF Delete, i

(* Of some numbers one is the least.                                       *)
LEMMA LeastOf ==
  ASSUME NEW T \in SUBSET Nat, T # {}
  PROVE  Min(T) \in T /\ \A y \in T : Min(T) <= y
<1> DEFINE R == {ss \in Nat \X Nat : ss[1] < ss[2]}
<1>1. IsWellFoundedOn(R, Nat)
  BY NatLessThanWellFounded DEF OpToRel
<1> HIDE DEF R
<1>2. PICK x \in T : \A y \in T : ~ (<<y, x>> \in R)
  BY <1>1, WFMin
<1>3. \A y \in T : x =< y
  <2> TAKE y \in T
  <2>1. ~(<<y, x>> \in R) /\ x \in Nat /\ y \in Nat
    BY <1>2
  <2>2. <<y, x>>[1] = y /\ <<y, x>>[2] = x
    OBVIOUS
  <2>3. ~(y < x)
    BY <2>1, <2>2 DEF R
  <2> QED BY <2>1, <2>3
<1> QED BY <1>3 DEF Min

-----------------------------------------------------------------------------
(* Rounding up to an alignment.                                            *)
LEMMA AlignUpIs ==
  ASSUME NEW s \in Nat, NEW align \in Nat, align # 0
  PROVE  /\ AlignUp(s, align) \in Nat /\ s <= AlignUp(s, align) /\ AlignUp(s, align) < s + align
         /\ Aligned(AlignUp(s, align), align)
<1> DEFINE n == s + align - 1
           q == n \div align
<1>1. n \in Nat
  OBVIOUS
<1>2. q \in Nat /\ n % align \in 0 .. align - 1 /\ n = align * q + (n % align)
  BY <1>1
<1>3. (q * align) % align = 0
  BY <1>2
<1>4. AlignUp(s, align) = q * align
  BY DEF AlignUp
<1>5. q * align \in Nat /\ q * align = align * q
  BY <1>2
<1> HIDE DEF q, n
<1>6. n = s + align - 1
  BY DEF n
<1> QED BY <1>2, <1>3, <1>4, <1>5, <1>6 DEF Aligned

-----------------------------------------------------------------------------
(* Parts of an arena.                                                      *)

(* A map of chunks is a function,                                          *)
LEMMA MapIs ==
  ASSUME NEW c \in ChunkMap
  PROVE  /\ DOMAIN c \subseteq Addr /\ c \in [DOMAIN c -> ChunkRec]
         /\ \A s \in DOMAIN c : s \in Nat /\ c[s].size \in 1 .. ArenaSize /\ c[s].used \in BOOLEAN
<1>1. PICK D \in SUBSET Addr : c \in [D -> ChunkRec]
  BY DEF ChunkMap
<1>2. DOMAIN c \subseteq Addr /\ c \in [DOMAIN c -> ChunkRec]
  BY <1>1
<1>3. ASSUME NEW s \in DOMAIN c
      PROVE  s \in Nat /\ c[s].size \in 1 .. ArenaSize /\ c[s].used \in BOOLEAN
  <2>1. c[s] \in ChunkRec /\ s \in Addr
    BY <1>2
  <2> QED BY <2>1 DEF ChunkRec, Addr
<1> QED BY <1>2, <1>3

(* and a function is one.                                                  *)
LEMMA IsMap ==
  ASSUME NEW D \in SUBSET Addr, NEW c \in [D -> ChunkRec]
  PROVE  c \in ChunkMap
BY DEF ChunkMap

(* Chunks do not overlap.                                                  *)
LEMMA Apart ==
  ASSUME NEW c \in ChunkMap, Tiles(c), NEW r \in DOMAIN c, NEW s \in DOMAIN c, r # s
  PROVE  End(c, r) <= s \/ End(c, s) <= r
<1>1. r \in Nat /\ s \in Nat
  BY MapIs
<1>2. CASE r < s
  BY <1>2 DEF Tiles
<1>3. CASE s < r
  BY <1>3 DEF Tiles
<1> QED BY <1>1, <1>2, <1>3

(* A chunk becomes used or free.                                           *)
MarkedAs(a, s, u, b) ==
  /\ ArenaType(b) /\ b.l = a.l /\ DOMAIN b.c = DOMAIN a.c
  /\ b.c[s].size = a.c[s].size /\ b.c[s].used = u
  /\ \A x \in DOMAIN a.c : x # s => b.c[x] = a.c[x]

(* A chunk is marked as used or free.                                      *)
LEMMA Marked ==
  ASSUME NEW a, ArenaType(a), NEW s \in DOMAIN a.c, NEW u \in BOOLEAN,
         NEW b, b = Mark(a, s, u)
  PROVE  MarkedAs(a, s, u, b)
<1> DEFINE c == [a.c EXCEPT ![s] = [a.c[s] EXCEPT !.used = u]]
<1>1. b = [a EXCEPT !.c = c]
  BY DEF ArenaType, Mark
<1>2. a.c \in ChunkMap /\ a.l \in ListMap
  BY DEF ArenaType
<1>3. /\ DOMAIN a.c \subseteq Addr /\ a.c \in [DOMAIN a.c -> ChunkRec] /\ a.c[s] \in ChunkRec
  BY <1>2, MapIs
<1>4. [a.c[s] EXCEPT !.used = u] \in ChunkRec
  BY <1>3 DEF ChunkRec
<1>5. c \in [DOMAIN a.c -> ChunkRec] /\ DOMAIN c = DOMAIN a.c
  BY <1>3, <1>4
<1>6. c[s].size = a.c[s].size /\ c[s].used = u /\ \A x \in DOMAIN a.c : x # s => c[x] = a.c[x]
  BY <1>3 DEF ChunkRec
<1>7. c \in ChunkMap
  BY <1>3, <1>5, IsMap
<1> HIDE DEF c
<1>8. b.c = c /\ b.l = a.l /\ b \in [c : ChunkMap, l : ListMap]
  BY <1>1, <1>2, <1>7 DEF ArenaType
<1> QED BY <1>5, <1>6, <1>8 DEF ArenaType, MarkedAs

(* The list of a class becomes q.                                          *)
LEMMA Relisted ==
  ASSUME NEW a, ArenaType(a), NEW k \in 0 .. MaxClass, NEW q \in Seq(Addr),
         NEW b, b = WithList(a, k, q)
  PROVE  /\ ArenaType(b) /\ b.c = a.c /\ b.l[k] = q
         /\ \A j \in 0 .. MaxClass : j # k => b.l[j] = a.l[j]
<1> DEFINE m == [a.l EXCEPT ![k] = q]
<1>1. b = [a EXCEPT !.l = m]
  BY DEF ArenaType, WithList
<1>2. a.c \in ChunkMap /\ a.l \in [0 .. MaxClass -> Seq(Addr)]
  BY DEF ArenaType, ListMap
<1>3. m \in ListMap /\ m[k] = q /\ \A j \in 0 .. MaxClass : j # k => m[j] = a.l[j]
  BY <1>2 DEF ListMap
<1> HIDE DEF m
<1>4. b.c = a.c /\ b.l = m /\ b \in [c : ChunkMap, l : ListMap]
  BY <1>1, <1>2, <1>3 DEF ArenaType
<1> QED BY <1>3, <1>4 DEF ArenaType

(* A sound arena in which a used chunk becomes free.                       *)
LEMMA Freed ==
  ASSUME NEW a, Sound(a, {}), NEW s \in DOMAIN a.c, a.c[s].used,
         NEW b, b = Mark(a, s, FALSE)
  PROVE  Sound(b, {s}) /\ s \in DOMAIN b.c /\ ~b.c[s].used /\ Keeps(a.c, b.c, {s})
<1>1. ArenaType(a) /\ a.c \in ChunkMap /\ a.l \in ListMap
  BY DEF Sound, ArenaType
<1>2. /\ ArenaType(b) /\ b.l = a.l /\ DOMAIN b.c = DOMAIN a.c
      /\ b.c[s].size = a.c[s].size /\ ~b.c[s].used
      /\ \A x \in DOMAIN a.c : x # s => b.c[x] = a.c[x]
  <2>1. MarkedAs(a, s, FALSE, b)
    BY <1>1, Marked
  <2> QED BY <2>1 DEF MarkedAs
<1>3. \A x \in DOMAIN a.c : b.c[x].size = a.c[x].size /\ End(b.c, x) = End(a.c, x)
  BY <1>2 DEF End
<1>4. Tiles(b.c)
  BY <1>2, <1>3 DEF Tiles, Sound
<1>5. Joins(b.c, {s})
  BY <1>2, <1>3 DEF Joins, Sound
<1>6. Lists(b.c, b.l, {s})
  <2>1. ASSUME NEW k \in 0 .. MaxClass
        PROVE  {x \in DOMAIN a.c : ~a.c[x].used /\ ClassSmaller(a.c[x].size) = k} \ {}
                 = {x \in DOMAIN b.c : ~b.c[x].used /\ ClassSmaller(b.c[x].size) = k} \ {s}
    BY <1>2
  <2> QED BY <1>2, <2>1 DEF Lists, Sound
<1>7. Keeps(a.c, b.c, {s})
  BY <1>2 DEF Keeps, Used
<1> QED BY <1>2, <1>4, <1>5, <1>6, <1>7 DEF Sound

(* Two free neighbours become one.                                         *)
Swallows(a, s, h, n, f) ==
  /\ Sound(f, {h}) /\ h \in DOMAIN f.c /\ ~f.c[h].used /\ End(f.c, h) = End(a.c, n)
  /\ DOMAIN f.c = DOMAIN a.c \ {n} /\ \A x \in DOMAIN a.c : x # h /\ x # n => f.c[x] = a.c[x]

(* A free chunk leaves the list of its class.                              *)
LEMMA UnlistIs ==
  ASSUME ArenaValid, NEW a, NEW e, Sound(a, e), NEW r \in DOMAIN a.c, ~a.c[r].used, r \notin e,
         NEW b, b = Unlist(a, r)
  PROVE  ArenaType(b) /\ b.c = a.c /\ Lists(b.c, b.l, e \cup {r})
<1> DEFINE k == ClassSmaller(a.c[r].size)
           q == Delete(a.l[k], r)
<1>1. ArenaType(a) /\ a.c \in ChunkMap /\ a.l \in [0 .. MaxClass -> Seq(Addr)]
  BY DEF Sound, ArenaType, ListMap
<1>2. k \in 0 .. MaxClass
  <2>1. a.c[r].size \in 1 .. ArenaSize
    BY <1>1, MapIs
  <2> QED BY <2>1 DEF ArenaValid
<1>3. a.l[k] \in Seq(Addr) /\ IsInjective(a.l[k]) /\ r \in ToSet(a.l[k])
  BY <1>1, <1>2 DEF Sound, Lists
<1>4. q \in Seq(Addr) /\ IsInjective(q) /\ ToSet(q) = ToSet(a.l[k]) \ {r}
  BY <1>3, DeleteStarts
<1>5. b = WithList(a, k, q)
  BY DEF Unlist
<1>9. \A j \in 0 .. MaxClass : j # k => ClassSmaller(a.c[r].size) # j
  OBVIOUS
<1> HIDE DEF k, q
<1>6. ArenaType(b) /\ b.c = a.c /\ b.l[k] = q
  BY <1>1, <1>2, <1>4, <1>5, Relisted
<1>7. \A j \in 0 .. MaxClass : j # k => b.l[j] = a.l[j]
  BY <1>1, <1>2, <1>4, <1>5, Relisted
<1>8. Lists(b.c, b.l, e \cup {r})
  <2>1. ASSUME NEW j \in 0 .. MaxClass
        PROVE  /\ IsInjective(b.l[j])
               /\ ToSet(b.l[j]) = {x \in DOMAIN a.c : ~a.c[x].used
                                         /\ ClassSmaller(a.c[x].size) = j} \ (e \cup {r})
    <3>1. /\ IsInjective(a.l[j])
          /\ ToSet(a.l[j]) = {x \in DOMAIN a.c : ~a.c[x].used
                                         /\ ClassSmaller(a.c[x].size) = j} \ e
      BY DEF Sound, Lists
    <3>2. CASE j = k
      BY <1>4, <1>6, <3>1, <3>2
    <3>3. CASE j # k
      BY <1>7, <1>9, <3>1, <3>3
    <3> QED BY <3>2, <3>3
  <2> QED BY <1>6, <2>1 DEF Lists
<1> QED BY <1>6, <1>8

(* vaCoalesce: a chunk swallows the one behind it.                         *)
LEMMA Swallowed ==
  ASSUME ArenaValid, NEW a, NEW s, Sound(a, {s}), NEW h \in DOMAIN a.c, NEW n \in DOMAIN a.c,
         End(a.c, h) = n, ~a.c[h].used, ~a.c[n].used, s \in {h, n},
         NEW r \in {h, n}, r # s, NEW f, f = Coalesce(Unlist(a, r), h, n)
  PROVE  Swallows(a, s, h, n, f)
<1> DEFINE b == Unlist(a, r)
           g == [x \in DOMAIN a.c \ {n} |->
                   IF x = h THEN [a.c[h] EXCEPT !.size = @ + a.c[n].size] ELSE a.c[x]]
<1>1. ArenaType(b) /\ b.c = a.c /\ Lists(b.c, b.l, {s, r})
  <2> DEFINE e == {s}
  <2>1. r \in DOMAIN a.c /\ ~a.c[r].used /\ b = Unlist(a, r) /\ Sound(a, e) /\ r \notin e
    OBVIOUS
  <2>2. e \cup {r} = {s, r}
    OBVIOUS
  <2> HIDE DEF b, e
  <2>3. ArenaType(b) /\ b.c = a.c /\ Lists(b.c, b.l, e \cup {r})
    BY <2>1, UnlistIs
  <2> QED BY <2>2, <2>3
<1>2. a.c \in ChunkMap /\ Tiles(a.c) /\ Joins(a.c, {s})
  BY DEF Sound, ArenaType
<1>3. /\ DOMAIN a.c \subseteq Addr
      /\ \A x \in DOMAIN a.c : /\ a.c[x] \in ChunkRec /\ x \in Nat
                               /\ a.c[x].size \in 1 .. ArenaSize
                               /\ End(a.c, x) <= ArenaSize
  BY <1>2, MapIs DEF Tiles
<1>4. ArenaSize \in Nat /\ h \in Nat /\ n \in Nat /\ h # n /\ h < n
  BY <1>3 DEF ArenaValid, End
<1>6. a.c[h].size + a.c[n].size \in 1 .. ArenaSize
  BY <1>3, <1>4 DEF End
<1>5. /\ [a.c[h] EXCEPT !.size = @ + a.c[n].size] \in ChunkRec
      /\ [a.c[h] EXCEPT !.size = @ + a.c[n].size].size = a.c[h].size + a.c[n].size
      /\ ~[a.c[h] EXCEPT !.size = @ + a.c[n].size].used
  BY <1>3, <1>6 DEF ChunkRec
<1>7. g \in ChunkMap
  <2>1. g \in [DOMAIN a.c \ {n} -> ChunkRec]
    BY <1>3, <1>5
  <2> QED BY <1>3, <2>1, IsMap
<1>8. f = [b EXCEPT !.c = g]
  BY <1>1 DEF Coalesce
<1>9. /\ DOMAIN g = DOMAIN a.c \ {n} /\ h \in DOMAIN g /\ ~g[h].used
      /\ g[h].size = a.c[h].size + a.c[n].size
      /\ \A x \in DOMAIN a.c : x # h /\ x # n => g[x] = a.c[x]
  BY <1>4, <1>5
<1> HIDE DEF g, b
<1>10. f.c = g /\ f.l = b.l /\ ArenaType(f)
  BY <1>1, <1>7, <1>8 DEF ArenaType
<1>11. End(g, h) = End(a.c, n) /\ \A x \in DOMAIN g : x # h => End(g, x) = End(a.c, x)
  BY <1>3, <1>4, <1>9 DEF End
<1>12. Tiles(g)
  <2>1. ASSUME NEW x \in DOMAIN g
        PROVE  End(g, x) <= ArenaSize
    BY <1>3, <1>9, <1>11
  <2>2. ASSUME NEW x \in DOMAIN g, NEW y \in DOMAIN g, x < y
        PROVE  End(g, x) <= y
    <3>1. CASE x = h
      <4>1. y \in DOMAIN a.c /\ y \in Nat /\ y # n /\ h < y
        BY <1>3, <1>9, <2>2, <3>1
      <4>2. n <= y
        BY <1>2, <4>1 DEF Tiles
      <4>3. n < y
        BY <1>4, <4>1, <4>2
      <4>4. End(a.c, n) <= y
        BY <1>2, <4>1, <4>3 DEF Tiles
      <4> QED BY <1>11, <3>1, <4>4
    <3>2. CASE x # h
      BY <1>2, <1>9, <1>11, <2>2, <3>2 DEF Tiles
    <3> QED BY <3>1, <3>2
  <2>3. ASSUME NEW u \in Addr
        PROVE  \E x \in DOMAIN g : x <= u /\ u < End(g, x)
    <3>1. PICK x \in DOMAIN a.c : x <= u /\ u < End(a.c, x)
      BY <1>2 DEF Tiles
    <3>2. u \in Nat
      BY <1>4 DEF Addr
    <3>3. CASE x = n
      BY <1>3, <1>4, <1>9, <1>11, <3>1, <3>2, <3>3 DEF End
    <3>4. CASE x = h
      BY <1>3, <1>4, <1>9, <1>11, <3>1, <3>2, <3>4 DEF End
    <3>5. CASE x # h /\ x # n
      BY <1>9, <1>11, <3>1, <3>5
    <3> QED BY <3>3, <3>4, <3>5
  <2> QED BY <2>1, <2>2, <2>3 DEF Tiles
<1>13. Joins(g, {h})
  <2> SUFFICES ASSUME NEW x \in DOMAIN g, ~g[x].used, End(g, x) \in DOMAIN g, x # h, End(g, x) # h
               PROVE  g[End(g, x)].used
    BY DEF Joins
  <2>1. x \in DOMAIN a.c /\ End(a.c, x) \in DOMAIN a.c /\ ~a.c[x].used /\ End(a.c, x) # n /\ x # n
    BY <1>9, <1>11
  <2>2. a.c[End(a.c, x)].used
    BY <1>2, <1>11, <2>1 DEF Joins
  <2> QED BY <1>9, <1>11, <2>1, <2>2
<1>14. Lists(g, b.l, {h})
  <2>1. ASSUME NEW k \in 0 .. MaxClass
        PROVE  {x \in DOMAIN g : ~g[x].used /\ ClassSmaller(g[x].size) = k} \ {h}
                 = {x \in DOMAIN a.c : ~a.c[x].used /\ ClassSmaller(a.c[x].size) = k} \ {s, r}
    BY <1>9
  <2> QED BY <1>1, <2>1 DEF Lists
<1> QED BY <1>9, <1>10, <1>11, <1>12, <1>13, <1>14 DEF Sound, Swallows

(* A free chunk without free neighbours is put into its list.              *)
LEMMA Enlisted ==
  ASSUME ArenaValid, NEW d, NEW h, Sound(d, {h}), h \in DOMAIN d.c, ~d.c[h].used,
         \A x \in DOMAIN d.c : End(d.c, x) = h => d.c[x].used,
         End(d.c, h) \in DOMAIN d.c => d.c[End(d.c, h)].used,
         NEW e, e = Enlist(d, h)
  PROVE  Sound(e, {}) /\ e.c = d.c
<1> DEFINE k == ClassSmaller(d.c[h].size)
           q == Append(d.l[k], h)
<1>1. ArenaType(d) /\ d.c \in ChunkMap /\ d.l \in [0 .. MaxClass -> Seq(Addr)]
  BY DEF Sound, ArenaType, ListMap
<1>2. k \in 0 .. MaxClass /\ h \in Addr
  <2>1. d.c[h].size \in 1 .. ArenaSize /\ h \in Addr
    BY <1>1, MapIs
  <2> QED BY <2>1 DEF ArenaValid
<1>3. d.l[k] \in Seq(Addr) /\ IsInjective(d.l[k]) /\ h \notin ToSet(d.l[k])
  BY <1>1, <1>2 DEF Sound, Lists
<1>4. q \in Seq(Addr) /\ IsInjective(q) /\ ToSet(q) = ToSet(d.l[k]) \cup {h}
  BY <1>2, <1>3, AppendStarts
<1>5. e = WithList(d, k, q)
  BY DEF Enlist
<1>6. \A j \in 0 .. MaxClass : j # k => ClassSmaller(d.c[h].size) # j
  OBVIOUS
<1>7. ClassSmaller(d.c[h].size) = k
  OBVIOUS
<1> HIDE DEF k, q
<1>8. ArenaType(e) /\ e.c = d.c /\ e.l[k] = q
  BY <1>1, <1>2, <1>4, <1>5, Relisted
<1>9. \A j \in 0 .. MaxClass : j # k => e.l[j] = d.l[j]
  BY <1>1, <1>2, <1>4, <1>5, Relisted
<1>10. Lists(e.c, e.l, {})
  <2>1. ASSUME NEW j \in 0 .. MaxClass
        PROVE  /\ IsInjective(e.l[j])
               /\ ToSet(e.l[j]) = {x \in DOMAIN d.c : ~d.c[x].used
                                         /\ ClassSmaller(d.c[x].size) = j} \ {}
    <3>1. /\ IsInjective(d.l[j])
          /\ ToSet(d.l[j]) = {x \in DOMAIN d.c : ~d.c[x].used
                                         /\ ClassSmaller(d.c[x].size) = j} \ {h}
      BY DEF Sound, Lists
    <3>2. CASE j = k
      BY <1>4, <1>7, <1>8, <3>1, <3>2
    <3>3. CASE j # k
      BY <1>6, <1>9, <3>1, <3>3
    <3> QED BY <3>2, <3>3
  <2> QED BY <1>8, <2>1 DEF Lists
<1>11. Tiles(e.c) /\ Joins(e.c, {})
  BY <1>8 DEF Sound, Joins
<1> QED BY <1>8, <1>10, <1>11 DEF Sound

(* A chunk swallows a free one behind it.                                  *)
Alone(d, h) ==
  /\ Sound(d, {h}) /\ h \in DOMAIN d.c /\ ~d.c[h].used
  /\ \A x \in DOMAIN d.c : End(d.c, x) = h => d.c[x].used

(* A free chunk behind it, if there is one, is swallowed.                  *)
LEMMA JoinedAfter ==
  ASSUME ArenaValid, NEW f, NEW h, Alone(f, h), NEW d, d = JoinAfter(f, h)
  PROVE  /\ Alone(d, h) /\ Keeps(f.c, d.c, {})
         /\ End(d.c, h) \in DOMAIN d.c => d.c[End(d.c, h)].used
<1> DEFINE next == End(f.c, h)
<1>1. f.c \in ChunkMap /\ Tiles(f.c) /\ Joins(f.c, {h})
  BY DEF Alone, Sound, ArenaType
<1>2. \A x \in DOMAIN f.c : x \in Nat /\ f.c[x].size \in Nat /\ f.c[x].size > 0 /\ x \in Addr
  BY <1>1, MapIs, ArenaValid DEF ArenaValid
<1>3. h \in DOMAIN f.c /\ ~f.c[h].used
  BY DEF Alone
<1>4. CASE next \notin DOMAIN f.c \/ f.c[next].used
  <2>1. d = f
    BY <1>4 DEF JoinAfter, Free, End
  <2> QED BY <1>3, <1>4, <2>1 DEF Keeps
<1>5. CASE next \in DOMAIN f.c /\ ~f.c[next].used
  <2>1. d = Coalesce(Unlist(f, next), h, next)
    BY <1>5 DEF JoinAfter, Free, End
  <2>2. next # h
    BY <1>2, <1>3 DEF End
  <2>3. Swallows(f, h, h, next, d)
    BY <1>3, <1>5, <2>1, <2>2, Swallowed DEF Alone
  <2>4. Keeps(f.c, d.c, {})
    BY <1>3, <1>5, <2>3 DEF Keeps, Used, Swallows
  <2>5. ASSUME NEW x \in DOMAIN d.c, End(d.c, x) = h
        PROVE  d.c[x].used
    <3>1. x # h
      BY <1>2, <1>3, <1>5, <2>3, <2>5 DEF Swallows, End
    <3>2. x # next /\ x \in DOMAIN f.c /\ d.c[x] = f.c[x]
      BY <2>3, <3>1 DEF Swallows
    <3>3. End(f.c, x) = h
      BY <2>5, <3>2 DEF End
    <3> QED BY <3>2, <3>3 DEF Alone
  <2>6. ASSUME End(d.c, h) \in DOMAIN d.c
        PROVE  d.c[End(d.c, h)].used
    <3>1. /\ End(d.c, h) = End(f.c, next) /\ End(f.c, next) \in DOMAIN f.c
          /\ End(f.c, next) # next
      BY <2>3, <2>6 DEF Swallows
    <3>2. End(f.c, next) # h
      BY <1>2, <1>3, <1>5 DEF End
    <3>3. f.c[End(f.c, next)].used
      BY <1>1, <1>5, <2>2, <3>1, <3>2 DEF Joins
    <3> QED BY <2>3, <3>1, <3>2, <3>3 DEF Swallows
  <2> QED BY <2>3, <2>4, <2>5, <2>6 DEF Swallows, Alone
<1>6. f.c[next].used \in BOOLEAN \/ next \notin DOMAIN f.c
  BY <1>1, MapIs
<1> QED BY <1>4, <1>5, <1>6

(* A chunk is swallowed by a free one before it.                           *)
LEMMA JoinedBefore ==
  ASSUME ArenaValid, NEW b, NEW s, Sound(b, {s}), s \in DOMAIN b.c, ~b.c[s].used,
         Before(b, s) # {}, NEW h, h = Max(Before(b, s)),
         NEW f, f = Coalesce(Unlist(b, h), h, s)
  PROVE  Alone(f, h) /\ Keeps(b.c, f.c, {})
<1> DEFINE prev == Before(b, s)
<1>3. b.c \in ChunkMap /\ Tiles(b.c) /\ Joins(b.c, {s})
  BY DEF Sound, ArenaType
<1>4. \A x \in DOMAIN b.c : x \in Nat /\ b.c[x].size \in Nat /\ b.c[x].size > 0 /\ x \in Addr
  BY <1>3, MapIs, ArenaValid DEF ArenaValid
<1>5. prev = {x \in DOMAIN b.c : End(b.c, x) = s /\ ~b.c[x].used}
  BY DEF Before, End, Free
<1>6. \A x, y \in prev : x = y
  <2> SUFFICES ASSUME NEW x \in DOMAIN b.c, NEW y \in DOMAIN b.c, End(b.c, x) = s, End(b.c, y) = s,
                      x # y
               PROVE  FALSE
    BY <1>5
  <2>1. End(b.c, x) <= y \/ End(b.c, y) <= x
    BY <1>3, Apart
  <2> QED BY <1>4, <2>1 DEF End
<1>7. h \in prev
  <2>1. PICK x \in prev : TRUE
    OBVIOUS
  <2>2. prev = {x} /\ x \in Nat
    BY <1>4, <1>5, <1>6, <2>1
  <2>3. \E y \in {x} : \A z \in {x} : y >= z
    BY <2>2
  <2>4. Max({x}) \in {x}
    BY <2>3 DEF Max
  <2> QED BY <2>2, <2>4
<1>8. h \in DOMAIN b.c /\ End(b.c, h) = s /\ ~b.c[h].used
  BY <1>5, <1>7
<1>9. h # s
  BY <1>4, <1>8 DEF End
<1>10. Swallows(b, s, h, s, f)
  BY <1>8, <1>9, Swallowed
<1>11. Keeps(b.c, f.c, {})
  BY <1>8, <1>10 DEF Keeps, Used, Swallows
<1>12. ASSUME NEW x \in DOMAIN f.c, End(f.c, x) = h
       PROVE  f.c[x].used
  <2>1. x # h
    <3>1. End(f.c, h) = End(b.c, s) /\ h \in Nat /\ s \in Nat
      BY <1>4, <1>8, <1>10 DEF Swallows
    <3>2. End(b.c, s) > s /\ s > h
      BY <1>4, <1>8 DEF End
    <3> QED BY <1>12, <3>1, <3>2
  <2>2. x # s /\ x \in DOMAIN b.c /\ f.c[x] = b.c[x]
    BY <1>10, <2>1 DEF Swallows
  <2>3. End(b.c, x) = h
    BY <1>12, <2>2 DEF End
  <2> QED BY <1>3, <1>8, <1>9, <2>1, <2>2, <2>3 DEF Joins
<1> QED BY <1>10, <1>11, <1>12 DEF Swallows, Alone

(* vaInsertFree                                                            *)
LEMMA Inserted ==
  ASSUME ArenaValid, NEW a, Sound(a, {}), NEW s \in DOMAIN a.c, a.c[s].used
  PROVE  Sound(InsertFree(a, s), {}) /\ Keeps(a.c, InsertFree(a, s).c, {s})
<1> DEFINE b == Mark(a, s, FALSE)
           h == IF Before(b, s) = {} THEN s ELSE Max(Before(b, s))
           f == IF Before(b, s) = {} THEN b ELSE Coalesce(Unlist(b, h), h, s)
           d == JoinAfter(f, h)
           e == Enlist(d, h)
<1>1. Sound(b, {s}) /\ s \in DOMAIN b.c /\ ~b.c[s].used /\ Keeps(a.c, b.c, {s})
  BY Freed
<1> HIDE DEF b
<1>2. InsertFree(a, s) = e
  BY DEF InsertFree, b
<1>3. Alone(f, h) /\ Keeps(b.c, f.c, {})
  <2>1. CASE Before(b, s) = {}
    <3>1. f = b /\ h = s
      BY <2>1
    <3>2. ASSUME NEW x \in DOMAIN b.c, End(b.c, x) = s
          PROVE  b.c[x].used
      BY <2>1, <3>2 DEF Before, End, Free
    <3> QED BY <1>1, <3>1, <3>2 DEF Keeps, Alone
  <2>2. CASE Before(b, s) # {}
    BY <1>1, <2>2, JoinedBefore
  <2> QED BY <2>1, <2>2
<1> HIDE DEF h, f
<1>4. d = JoinAfter(f, h)
  OBVIOUS
<1> HIDE DEF d
<1>5. Alone(d, h) /\ Keeps(f.c, d.c, {}) /\ (End(d.c, h) \in DOMAIN d.c => d.c[End(d.c, h)].used)
  BY <1>3, <1>4, JoinedAfter
<1>6. e = Enlist(d, h)
  OBVIOUS
<1> HIDE DEF e
<1>7. Sound(e, {}) /\ e.c = d.c
  BY <1>5, <1>6, Enlisted DEF Alone
<1>8. Keeps(a.c, e.c, {s})
  BY <1>1, <1>3, <1>5, <1>7 DEF Keeps
<1> QED BY <1>2, <1>7, <1>8

-----------------------------------------------------------------------------
(* A used chunk is divided.                                                *)
KeepsBut(c, d, X) ==
  \A x \in Addr \ X : (Used(d, x) <=> Used(c, x)) /\ (Used(d, x) => d[x] = c[x])

Divided(a, s, m, b) ==
  /\ Sound(b, {}) /\ Used(b.c, s) /\ Used(b.c, m)
  /\ b.c[s].size = m - s /\ b.c[m].size = End(a.c, s) - m
  /\ KeepsBut(a.c, b.c, {s, m})

(* vaSplit: a chunk is cut in two.                                         *)
LEMMA CutDivides ==
  ASSUME ArenaValid, NEW a, Sound(a, {}), NEW s \in DOMAIN a.c, a.c[s].used,
         NEW m \in Nat, s < m, m < End(a.c, s), NEW b, b = Cut(a, s, m)
  PROVE  Divided(a, s, m, b)
<1> DEFINE low == [size |-> m - s, used |-> TRUE]
           high == [size |-> a.c[s].size - (m - s), used |-> TRUE]
           g == With(With(a.c, s, low), m, high)
<1>1. a.c \in ChunkMap /\ a.l \in ListMap /\ Tiles(a.c) /\ ArenaType(a)
  BY DEF Sound, ArenaType
<1>2. /\ DOMAIN a.c \subseteq Addr
      /\ \A x \in DOMAIN a.c : /\ a.c[x] \in ChunkRec /\ x \in Nat
                               /\ a.c[x].size \in 1 .. ArenaSize
                               /\ End(a.c, x) <= ArenaSize
  BY <1>1, MapIs DEF Tiles
<1>3. ArenaSize \in Nat /\ s \in Nat /\ s # m
  BY <1>2 DEF ArenaValid
<1>4. m \in Addr /\ m - s \in 1 .. ArenaSize /\ a.c[s].size - (m - s) \in 1 .. ArenaSize
  BY <1>2, <1>3 DEF Addr, End
<1>5. m \notin DOMAIN a.c
  <2> SUFFICES ASSUME m \in DOMAIN a.c
               PROVE  FALSE
    OBVIOUS
  <2>1. End(a.c, s) <= m
    BY <1>1, <1>3 DEF Tiles
  <2> QED BY <1>2, <1>3, <2>1 DEF End
<1>6. /\ low \in ChunkRec /\ low.size = m - s /\ low.used
      /\ high \in ChunkRec /\ high.size = End(a.c, s) - m /\ high.used
  BY <1>2, <1>3, <1>4 DEF ChunkRec, End
<1>7. b = [a EXCEPT !.c = g]
  BY <1>1 DEF Cut, ArenaType
<1> HIDE DEF low, high
<1>8. /\ DOMAIN g = DOMAIN a.c \cup {m} /\ g[s] = low /\ g[m] = high
      /\ \A x \in DOMAIN a.c : x # s => g[x] = a.c[x]
  BY <1>3, <1>5 DEF With
<1>9. g \in ChunkMap
  <2>1. g \in [DOMAIN a.c \cup {m} -> ChunkRec]
    <3>1. g = [x \in DOMAIN a.c \cup {m} |-> g[x]]
      BY <1>3, <1>5 DEF With
    <3>2. \A x \in DOMAIN a.c \cup {m} : g[x] \in ChunkRec
      BY <1>2, <1>6, <1>8
    <3> HIDE DEF g
    <3> QED BY <3>1, <3>2
  <2> QED BY <1>2, <1>4, <2>1, IsMap
<1> HIDE DEF g
<1>10. b.c = g /\ b.l = a.l /\ ArenaType(b)
  BY <1>1, <1>7, <1>9 DEF ArenaType
<1>11. /\ End(g, s) = m /\ End(g, m) = End(a.c, s)
       /\ \A x \in DOMAIN a.c : x # s => End(g, x) = End(a.c, x)
  BY <1>2, <1>3, <1>6, <1>8 DEF End
<1>12. Tiles(g)
  <2>1. ASSUME NEW x \in DOMAIN g
        PROVE  End(g, x) <= ArenaSize
    <3>1. End(a.c, s) \in Nat
      BY <1>2, <1>3 DEF End
    <3> QED BY <1>2, <1>3, <1>8, <1>11, <3>1
  <2>2. ASSUME NEW x \in DOMAIN g, NEW y \in DOMAIN g, x < y
        PROVE  End(g, x) <= y
    <3>1. CASE x # s /\ x # m /\ y # m
      BY <1>1, <1>8, <1>11, <2>2, <3>1 DEF Tiles
    <3>2. CASE x = s /\ y = m
      BY <1>11, <3>2
    <3>3. CASE x = s /\ y # m
      <4>1. End(a.c, s) <= y /\ y \in Nat
        BY <1>1, <1>2, <1>8, <2>2, <3>3 DEF Tiles
      <4> QED BY <1>2, <1>3, <1>11, <3>3, <4>1 DEF End
    <3>4. CASE x = m
      <4>1. y \in DOMAIN a.c /\ s < y
        BY <1>2, <1>3, <1>8, <2>2, <3>4
      <4>2. End(a.c, s) <= y
        BY <1>1, <4>1 DEF Tiles
      <4> QED BY <1>11, <3>4, <4>2
    <3>5. CASE x # s /\ x # m /\ y = m
      <4>1. x \in DOMAIN a.c /\ x \in Nat
        BY <1>2, <1>8, <3>5
      <4>2. End(a.c, x) <= s \/ End(a.c, s) <= x
        BY <1>1, <3>5, <4>1, Apart
      <4> QED BY <1>2, <1>3, <1>11, <2>2, <3>5, <4>1, <4>2 DEF End
    <3> QED BY <3>1, <3>2, <3>3, <3>4, <3>5
  <2>3. ASSUME NEW u \in Addr
        PROVE  \E x \in DOMAIN g : x <= u /\ u < End(g, x)
    <3>1. PICK x \in DOMAIN a.c : x <= u /\ u < End(a.c, x)
      BY <1>1 DEF Tiles
    <3>2. u \in Nat
      BY <1>3 DEF Addr
    <3>3. CASE x = s /\ u < m
      BY <1>8, <1>11, <3>1, <3>3
    <3>4. CASE x = s /\ m <= u
      BY <1>8, <1>11, <3>1, <3>4
    <3>5. CASE x # s
      BY <1>8, <1>11, <3>1, <3>5
    <3> QED BY <3>2, <3>3, <3>4, <3>5
  <2> QED BY <2>1, <2>2, <2>3 DEF Tiles
<1>13. Joins(g, {})
  <2> SUFFICES ASSUME NEW x \in DOMAIN g, ~g[x].used, End(g, x) \in DOMAIN g
               PROVE  g[End(g, x)].used
    BY DEF Joins
  <2>1. x \in DOMAIN a.c /\ x # s /\ ~a.c[x].used
    BY <1>6, <1>8
  <2>2. CASE End(g, x) = m \/ End(g, x) = s
    BY <1>6, <1>8, <2>2
  <2>3. CASE End(g, x) # m /\ End(g, x) # s
    <3>1. End(a.c, x) \in DOMAIN a.c /\ End(g, x) = End(a.c, x)
      BY <1>8, <1>11, <2>1, <2>3
    <3> QED BY <1>8, <2>1, <2>3, <3>1 DEF Sound, Joins
  <2> QED BY <2>2, <2>3
<1>14. Lists(g, a.l, {})
  <2>1. ASSUME NEW k \in 0 .. MaxClass
        PROVE  {x \in DOMAIN g : ~g[x].used /\ ClassSmaller(g[x].size) = k} \ {}
                 = {x \in DOMAIN a.c : ~a.c[x].used /\ ClassSmaller(a.c[x].size) = k} \ {}
    BY <1>5, <1>6, <1>8
  <2> QED BY <2>1 DEF Lists, Sound
<1>15. KeepsBut(a.c, b.c, {s, m})
  BY <1>8, <1>10 DEF KeepsBut, Used
<1> QED BY <1>6, <1>8, <1>10, <1>12, <1>13, <1>14, <1>15 DEF Sound, Divided, Used

(* Of a used chunk with room for it a part is taken, the rest is free.     *)
Carved(a, s, size, align, r) ==
  /\ Sound(r.arena, {}) /\ Used(r.arena.c, r.start)
  /\ r.start \in Addr /\ r.arena.c[r.start].size = size /\ Aligned(r.start, align)
  /\ Used(a.c, r.start) => r.start = s
  /\ \A x \in Addr : x # r.start => /\ Used(r.arena.c, x) <=> Used(a.c, x) /\ x # s
                                    /\ Used(r.arena.c, x) => r.arena.c[x] = a.c[x]

(* A used chunk is carved out of one that is large enough; the rests become*)
(* free.                                                                   *)
LEMMA CarveIs ==
  ASSUME ArenaValid, NEW a, Sound(a, {}), NEW s \in DOMAIN a.c, a.c[s].used,
         NEW size \in Nat \ {0}, NEW align \in Nat, a.c[s].size >= size + align
  PROVE  Carved(a, s, size, align, Carve(a, s, size, align))
<1> DEFINE start == IF Aligned(s, align) THEN s ELSE AlignUp(s, align)
           b == IF start = s THEN a ELSE Cut(a, s, start)
           whole == b.c[start].size = size
           d == IF whole THEN b ELSE Cut(b, start, start + size)
           e == IF start = s THEN d ELSE InsertFree(d, s)
           f == IF whole THEN e ELSE InsertFree(e, start + size)
<1>1. Carve(a, s, size, align) = [arena |-> f, start |-> start]
  BY DEF Carve
<1>2. a.c \in ChunkMap /\ Tiles(a.c)
  BY DEF Sound, ArenaType
<1>3. /\ ArenaSize \in Nat /\ s \in Nat /\ a.c[s].size \in Nat /\ End(a.c, s) \in Nat
      /\ End(a.c, s) <= ArenaSize /\ DOMAIN a.c \subseteq Addr
  BY <1>2, MapIs DEF ArenaValid, End, Tiles
<1>4. start \in Nat /\ s <= start /\ start + size <= End(a.c, s) /\ Aligned(start, align)
  <2>1. CASE Aligned(s, align)
    BY <1>3, <2>1 DEF End
  <2>2. CASE ~Aligned(s, align)
    <3>1. align # 0 /\ start = AlignUp(s, align)
      BY <2>2 DEF Aligned
    <3> HIDE DEF start
    <3>2. start \in Nat /\ s <= start /\ start < s + align /\ Aligned(start, align)
      BY <1>3, <3>1, AlignUpIs
    <3> QED BY <1>3, <3>2 DEF End
  <2> QED BY <2>1, <2>2
<1> HIDE DEF start
<1>5. start \in Addr /\ s \in Addr
  BY <1>3, <1>4 DEF Addr
<1>6. ASSUME NEW x \in Nat, s < x, x < End(a.c, s)
      PROVE  ~Used(a.c, x)
  <2> SUFFICES ASSUME x \in DOMAIN a.c
               PROVE  FALSE
    BY DEF Used
  <2>1. End(a.c, s) <= x
    BY <1>2, <1>6 DEF Tiles
  <2> QED BY <1>3, <1>6, <2>1
\* What is before the part.
<1>7. /\ Sound(b, {}) /\ Used(b.c, start) /\ End(b.c, start) = End(a.c, s)
      /\ start # s => Used(b.c, s)
      /\ KeepsBut(a.c, b.c, {s, start})
  <2>1. CASE start = s
    <3>1. b = a
      BY <2>1
    <3> QED BY <2>1, <3>1 DEF KeepsBut, Used
  <2>2. CASE start # s
    <3>1. b = Cut(a, s, start) /\ s < start /\ start < End(a.c, s)
      BY <1>3, <1>4, <2>2
    <3> HIDE DEF b
    <3>2. Divided(a, s, start, b)
      BY <1>4, <3>1, CutDivides
    <3>3. End(b.c, start) = End(a.c, s)
      BY <1>3, <1>4, <3>2 DEF Divided, End
    <3> QED BY <3>2, <3>3 DEF Divided
  <2> QED BY <2>1, <2>2
<1>8. whole <=> b.c[start].size = size
  OBVIOUS
<1> HIDE DEF b, whole
<1>9. start \in DOMAIN b.c /\ b.c[start].used /\ b.c[start].size \in Nat
  BY <1>7, MapIs DEF Used, Sound, ArenaType
<1>10. whole <=> start + size = End(a.c, s)
  BY <1>4, <1>7, <1>8, <1>9 DEF End
\* What is behind it.
<1>11. /\ Sound(d, {}) /\ Used(d.c, start) /\ d.c[start].size = size
       /\ start # s => Used(d.c, s)
       /\ ~whole => Used(d.c, start + size) /\ start + size \in Addr /\ ~Used(a.c, start + size)
       /\ KeepsBut(a.c, d.c, {s, start, start + size})
       /\ whole => KeepsBut(a.c, d.c, {s, start})
  <2>1. CASE whole
    <3>1. d = b
      BY <2>1
    <3> QED BY <1>7, <1>8, <2>1, <3>1 DEF KeepsBut
  <2>2. CASE ~whole
    <3>1. d = Cut(b, start, start + size)
      BY <2>2
    <3>2. start < start + size /\ start + size < End(b.c, start) /\ start + size \in Nat
      BY <1>3, <1>4, <1>7, <1>10, <2>2
    <3>3. start + size \in Addr /\ ~Used(a.c, start + size)
      BY <1>3, <1>4, <1>6, <1>7, <3>2 DEF Addr
    <3> HIDE DEF d
    <3>4. Divided(b, start, start + size, d)
      BY <1>7, <1>9, <3>1, <3>2, CutDivides
    <3>5. (start + size) - start = size /\ s # start + size
      BY <1>3, <1>4
    <3>6. KeepsBut(b.c, d.c, {start, start + size})
      BY <3>4 DEF Divided
    <3>7. start # s => Used(d.c, s)
      BY <1>5, <1>7, <3>5, <3>6 DEF KeepsBut
    <3>8. KeepsBut(a.c, d.c, {s, start, start + size})
      BY <1>7, <3>6 DEF KeepsBut
    <3> QED BY <2>2, <3>3, <3>4, <3>5, <3>7, <3>8 DEF Divided
  <2> QED BY <2>1, <2>2
<1> HIDE DEF d
\* The rests become free.
<1>12. /\ Sound(e, {}) /\ Used(e.c, start) /\ e.c[start].size = size
       /\ ~whole => Used(e.c, start + size)
       /\ \A x \in Addr : x # start /\ x # start + size =>
            (Used(e.c, x) <=> Used(a.c, x) /\ x # s) /\ (Used(e.c, x) => e.c[x] = a.c[x])
       /\ \A x \in Addr : whole /\ x # start =>
            (Used(e.c, x) <=> Used(a.c, x) /\ x # s) /\ (Used(e.c, x) => e.c[x] = a.c[x])
  <2>1. CASE start = s
    <3>1. e = d
      BY <2>1
    <3> QED BY <1>11, <2>1, <3>1 DEF KeepsBut
  <2>2. CASE start # s
    <3>1. e = InsertFree(d, s)
      BY <2>2
    <3> HIDE DEF e
    <3>2. Sound(e, {}) /\ Keeps(d.c, e.c, {s})
      BY <1>11, <2>2, <3>1, Inserted DEF Used
    <3>3. s # start + size
      BY <1>3, <1>4
    <3> QED BY <1>5, <1>11, <2>2, <3>2, <3>3 DEF Keeps, KeepsBut
  <2> QED BY <2>1, <2>2
<1> HIDE DEF e
<1>13. /\ Sound(f, {}) /\ Used(f.c, start) /\ f.c[start].size = size
       /\ \A x \in Addr : x # start =>
            (Used(f.c, x) <=> Used(a.c, x) /\ x # s) /\ (Used(f.c, x) => f.c[x] = a.c[x])
  <2>1. CASE whole
    <3>1. f = e
      BY <2>1
    <3> QED BY <1>12, <2>1, <3>1
  <2>2. CASE ~whole
    <3>1. f = InsertFree(e, start + size)
      BY <2>2
    <3> HIDE DEF f
    <3>2. Sound(f, {}) /\ Keeps(e.c, f.c, {start + size})
      BY <1>12, <2>2, <3>1, Inserted DEF Used
    <3>3. start # start + size
      BY <1>4
    <3> QED BY <1>5, <1>11, <1>12, <2>2, <3>2, <3>3 DEF Keeps
  <2> QED BY <2>1, <2>2
<1> HIDE DEF f
<1>14. Used(a.c, start) => start = s
  BY <1>3, <1>4, <1>6
<1>15. Carve(a, s, size, align).arena = f /\ Carve(a, s, size, align).start = start
  BY <1>1
<1> QED BY <1>4, <1>5, <1>13, <1>14, <1>15 DEF Carved

-----------------------------------------------------------------------------
(* The invariant: the arena is sound, and every used chunk has one owner:  *)
(* the program, the list of those that wait, or the hands of a thread.     *)
Thread == Allocators \cup {UnmapTask}
Carrying == {"commit", "decommit", "insert"}
Hands == {aop[t].chunk : t \in Thread} \ {None}

Op == [size : Nat, align : Nat, chunk : Addr \cup {None}]
PC == {"none", "pop", "wait", "idle", "reuse", "find", "emergency"} \cup Carrying

ShapeInv ==
  /\ delayed \in Seq(Addr) /\ IsInjective(delayed) /\ expired \in 0 .. Len(delayed)
  /\ apc \in [Thread -> PC] /\ aop \in [Thread -> Op] /\ DOMAIN held \subseteq Addr

HandsInv ==
  /\ \A t \in Thread : apc[t] \in Carrying <=> aop[t].chunk # None
  /\ \A t, u \in Thread : aop[t].chunk = aop[u].chunk /\ aop[t].chunk # None => t = u
  /\ \A s \in Hands : Used(chunks, s) /\ s \notin DOMAIN held /\ s \notin ToSet(delayed)
  /\ \A t \in Thread : apc[t] \in {"reuse", "find"} => <<aop[t].size, aop[t].align>> \in Requests
  /\ \A t \in Thread : apc[t] = "commit" =>
       chunks[aop[t].chunk].size = aop[t].size /\ Aligned(aop[t].chunk, aop[t].align)

Backed(s) == Units(s, chunks[s].size) \subseteq committed

HeldInv ==
  \A s \in DOMAIN held :
    /\ Used(chunks, s) /\ chunks[s].size = held[s][1] /\ Aligned(s, held[s][2])
    /\ Backed(s) /\ s \notin ToSet(delayed)

DelayedInv == \A s \in ToSet(delayed) : Used(chunks, s) /\ Backed(s)

ChunkInv == Sound(Arena, {}) /\ ShapeInv /\ HandsInv /\ HeldInv /\ DelayedInv

-----------------------------------------------------------------------------
(* What a thread does to itself.                                           *)
MovedTo(t, l) ==
  apc' \in [Thread -> PC] /\ apc'[t] = l /\ \A u \in Thread : u # t => apc'[u] = apc[u]
HandedTo(t, s) ==
  /\ aop' \in [Thread -> Op] /\ aop'[t].chunk = s
  /\ aop'[t].size = aop[t].size /\ aop'[t].align = aop[t].align
  /\ \A u \in Thread : u # t => aop'[u] = aop[u]
OpBecomes(t, op) ==
  aop' \in [Thread -> Op] /\ aop'[t] = op /\ \A u \in Thread : u # t => aop'[u] = aop[u]

(* A thread moves,                                                         *)
LEMMA Moves ==
  ASSUME ShapeInv, NEW t \in Thread, NEW l \in PC, Move(t, l)
  PROVE  MovedTo(t, l)
BY DEF ShapeInv, Move, MovedTo

(* a thread has a chunk in its hands or a request,                         *)
LEMMA HandsChange ==
  ASSUME ShapeInv, NEW t \in Thread, NEW s \in Addr \cup {None}, Hand(t, s)
  PROVE  HandedTo(t, s)
<1> DEFINE op == [aop[t] EXCEPT !.chunk = s]
<1>1. aop \in [Thread -> Op] /\ aop[t] \in Op
  BY DEF ShapeInv
<1>2. op \in Op /\ op.chunk = s /\ op.size = aop[t].size /\ op.align = aop[t].align
  BY <1>1 DEF Op
<1>3. aop' = [aop EXCEPT ![t] = op]
  BY DEF Hand
<1> HIDE DEF op
<1> QED BY <1>1, <1>2, <1>3 DEF HandedTo

(* and that changes.                                                       *)
LEMMA OpChanges ==
  ASSUME ShapeInv, NEW t \in Thread, NEW op \in Op, aop' = [aop EXCEPT ![t] = op]
  PROVE  OpBecomes(t, op)
BY DEF ShapeInv, OpBecomes

(* No chunk is called None.                                                *)
LEMMA NoneIs ==
  ASSUME ArenaValid
  PROVE  None \notin Addr /\ NoOp \in Op /\ NoOp.chunk = None
BY DEF ArenaValid, None, NoOp, Op, Addr

(* A thread with free hands.                                               *)
LEMMA FreeHands ==
  ASSUME ShapeInv, HandsInv, NEW t \in Thread, apc[t] \notin Carrying
  PROVE  aop[t].chunk = None
BY DEF HandsInv

(* The arena stays as it is.                                               *)
LEMMA ArenaStays ==
  ASSUME UNCHANGED <<chunks, sizeList>>, Sound(Arena, {})
  PROVE  Sound(Arena, {})' /\ \A s : Used(chunks, s)' <=> Used(chunks, s)
<1>1. Arena' = Arena
  BY DEF Arena
<1> QED
  BY <1>1 DEF Used, Sound, ArenaType, Tiles, Joins, Lists, End, ToSet, IsInjective, ClassSmaller

(* The arena becomes another one.                                          *)
LEMMA ArenaBecomes ==
  ASSUME NEW a, Sound(a, {}), Become(a)
  PROVE  Sound(Arena, {})'
<1>1. a = [c |-> a.c, l |-> a.l]
  BY DEF Sound, ArenaType
<1>2. Arena' = [c |-> a.c, l |-> a.l]
  BY DEF Become, Arena
<1>3. Arena' = a
  BY ONLY <1>1, <1>2
<1>4. Sound(Arena, {})' <=> Sound(Arena', {})
  BY DEF Sound, ArenaType, Tiles, Joins, Lists, End, ToSet, IsInjective, ClassSmaller, Max,
         Arena, MaxClass, ListMap, ChunkMap, Addr, ChunkRec
<1> QED BY ONLY <1>3, <1>4, Sound(a, {})

-----------------------------------------------------------------------------
(* Steps that keep the invariant: a thread without a chunk goes on,        *)
LEMMA IdleKeeps ==
  ASSUME ArenaValid, ChunkInv, NEW t \in Thread, NEW l \in PC \ Carrying, NEW op \in Op,
         aop[t].chunk = None, op.chunk = None, MovedTo(t, l), OpBecomes(t, op),
         l \in {"reuse", "find"} => <<op.size, op.align>> \in Requests,
         UNCHANGED <<chunks, sizeList, committed, delayed, expired, held>>
  PROVE  ChunkInv'
<1>1. ShapeInv /\ HandsInv /\ HeldInv /\ DelayedInv /\ Sound(Arena, {})
  BY DEF ChunkInv
<1>2. Sound(Arena, {})' /\ \A s : Used(chunks, s)' <=> Used(chunks, s)
  BY <1>1, ArenaStays
<1>3. ShapeInv'
  BY <1>1 DEF ShapeInv, OpBecomes, MovedTo
<1>4. \A u \in Thread : aop'[u].chunk = aop[u].chunk
  BY DEF OpBecomes
<1>5. HandsInv'
  <2>1. \A u \in Thread : apc'[u] \in Carrying <=> aop'[u].chunk # None
    BY <1>1 DEF HandsInv, OpBecomes, MovedTo
  <2>2. \A u, v \in Thread : aop'[u].chunk = aop'[v].chunk /\ aop'[u].chunk # None => u = v
    BY <1>1, <1>4 DEF HandsInv
  <2>3. Hands' = Hands
    BY <1>4 DEF Hands
  <2>4. \A s \in Hands' : Used(chunks, s)' /\ s \notin DOMAIN held' /\ s \notin ToSet(delayed')
    BY <1>1, <1>2, <2>3 DEF HandsInv
  <2>5. \A u \in Thread : apc'[u] \in {"reuse", "find"}
          => <<aop'[u].size, aop'[u].align>> \in Requests
    BY <1>1 DEF HandsInv, OpBecomes, MovedTo
  <2>6. \A u \in Thread : apc'[u] = "commit" =>
          chunks'[aop'[u].chunk].size = aop'[u].size /\ Aligned(aop'[u].chunk, aop'[u].align)
    BY <1>1 DEF HandsInv, OpBecomes, MovedTo, Carrying
  <2> QED BY <2>1, <2>2, <2>4, <2>5, <2>6 DEF HandsInv, ToSet
<1>6. HeldInv' /\ DelayedInv'
  BY <1>1, <1>2 DEF HeldInv, DelayedInv, Used, Backed, ToSet, Units, Aligned
<1> QED BY <1>2, <1>3, <1>5, <1>6 DEF ChunkInv

(* it gives a chunk to the program,                                        *)
LEMMA GiveKeeps ==
  ASSUME ArenaValid, ChunkInv, NEW t \in Thread, NEW s, Used(chunks, s), s \in Addr,
         chunks[s].size = aop[t].size, Aligned(s, aop[t].align), s \notin DOMAIN held,
         \A u \in Thread : u # t => aop[u].chunk # s,
         Backed(s)', s \notin ToSet(delayed'), ToSet(delayed') \subseteq ToSet(delayed),
         committed \subseteq committed',
         delayed' \in Seq(Addr), IsInjective(delayed'), expired' \in 0 .. Len(delayed'),
         Give(t, s), UNCHANGED <<chunks, sizeList>>
  PROVE  ChunkInv'
<1>1. ShapeInv /\ HandsInv /\ HeldInv /\ DelayedInv /\ Sound(Arena, {})
  BY DEF ChunkInv
<1>2. Sound(Arena, {})' /\ \A x : Used(chunks, x)' <=> Used(chunks, x)
  BY <1>1, ArenaStays
<1>3. MovedTo(t, "idle")
  BY <1>1, Moves DEF Give, PC
<1>4. NoOp \in Op /\ NoOp.chunk = None
  BY NoneIs
<1>5. OpBecomes(t, NoOp)
  BY <1>1, <1>4, OpChanges DEF Give
<1>6. /\ DOMAIN held' = DOMAIN held \cup {s} /\ held'[s] = <<aop[t].size, aop[t].align>>
      /\ \A x \in DOMAIN held : held'[x] = held[x]
  BY DEF Give, With
<1>7. ShapeInv'
  BY <1>1, <1>3, <1>5, <1>6 DEF ShapeInv, OpBecomes, MovedTo
<1>8. HandsInv'
  <2>1. \A u \in Thread : apc'[u] \in Carrying <=> aop'[u].chunk # None
    BY <1>1, <1>3, <1>4, <1>5 DEF HandsInv, OpBecomes, MovedTo, Carrying
  <2>2. \A u, v \in Thread : aop'[u].chunk = aop'[v].chunk /\ aop'[u].chunk # None => u = v
    BY <1>1, <1>4, <1>5 DEF HandsInv, OpBecomes
  <2>3. \A x \in Hands' : x \in Hands /\ x # s
    BY <1>4, <1>5 DEF Hands, OpBecomes
  <2>4. \A x \in Hands' : Used(chunks, x)' /\ x \notin DOMAIN held' /\ x \notin ToSet(delayed')
    BY <1>1, <1>2, <1>6, <2>3 DEF HandsInv
  <2>5. \A u \in Thread : apc'[u] \in {"reuse", "find"}
          => <<aop'[u].size, aop'[u].align>> \in Requests
    BY <1>1, <1>3, <1>5 DEF HandsInv, OpBecomes, MovedTo
  <2>6. \A u \in Thread : apc'[u] = "commit" =>
          chunks'[aop'[u].chunk].size = aop'[u].size /\ Aligned(aop'[u].chunk, aop'[u].align)
    BY <1>1, <1>3, <1>5 DEF HandsInv, OpBecomes, MovedTo
  <2> QED BY <2>1, <2>2, <2>4, <2>5, <2>6 DEF HandsInv, ToSet
<1>9. HeldInv'
  <2>1. ASSUME NEW x \in DOMAIN held'
        PROVE  /\ Used(chunks, x)' /\ chunks'[x].size = held'[x][1] /\ Aligned(x, held'[x][2])
               /\ Backed(x)' /\ x \notin ToSet(delayed')
    <3>1. CASE x = s
      BY <1>2, <1>6, <3>1
    <3>2. CASE x # s
      <4>1. x \in DOMAIN held /\ held'[x] = held[x]
        BY <1>6, <3>2
      <4>2. Backed(x)'
        BY <1>1, <4>1 DEF HeldInv, Backed, Units
      <4> QED BY <1>1, <1>2, <4>1, <4>2 DEF HeldInv
    <3> QED BY <3>1, <3>2
  <2> QED BY <2>1 DEF HeldInv, ToSet, Aligned
<1>10. DelayedInv'
  BY <1>1, <1>2 DEF DelayedInv, Backed, Units, ToSet
<1> QED BY <1>2, <1>7, <1>8, <1>9, <1>10 DEF ChunkInv

(* it takes a chunk that has waited,                                       *)
LEMMA PopKeeps ==
  ASSUME ArenaValid, ChunkInv, NEW t \in Thread, aop[t].chunk = None, delayed # <<>>,
         Hand(t, Head(delayed)), delayed' = Tail(delayed), expired' \in 0 .. Len(delayed) - 1,
         Move(t, "decommit"), UNCHANGED <<chunks, sizeList, committed, held>>
  PROVE  ChunkInv'
<1>1. ShapeInv /\ HandsInv /\ HeldInv /\ DelayedInv /\ Sound(Arena, {})
  BY DEF ChunkInv
<1>2. Sound(Arena, {})' /\ \A x : Used(chunks, x)' <=> Used(chunks, x)
  BY <1>1, ArenaStays
<1> DEFINE s == Head(delayed)
<1>3. /\ delayed' \in Seq(Addr) /\ IsInjective(delayed') /\ s \in ToSet(delayed)
      /\ ToSet(delayed') = ToSet(delayed) \ {s}
  BY <1>1, TailStarts DEF ShapeInv
<1>4. Len(delayed') = Len(delayed) - 1 /\ s \in Addr
  BY <1>1 DEF ShapeInv
<1>5. MovedTo(t, "decommit")
  BY <1>1, Moves DEF PC, Carrying
<1>6. HandedTo(t, s)
  BY <1>1, <1>4, HandsChange
<1> HIDE DEF s
<1>7. ShapeInv'
  BY <1>1, <1>3, <1>4, <1>5, <1>6 DEF ShapeInv, HandedTo, MovedTo
<1>8. s # None /\ s \notin Hands /\ s \notin DOMAIN held
  <2>1. s # None
    BY <1>4, NoneIs
  <2> QED BY <1>1, <1>3, <2>1 DEF HandsInv, HeldInv
<1>9. HandsInv'
  <2>1. \A u \in Thread : apc'[u] \in Carrying <=> aop'[u].chunk # None
    BY <1>1, <1>5, <1>6, <1>8 DEF HandsInv, HandedTo, MovedTo, Carrying
  <2>2. \A u, v \in Thread : aop'[u].chunk = aop'[v].chunk /\ aop'[u].chunk # None => u = v
    BY <1>1, <1>6, <1>8 DEF HandsInv, HandedTo, Hands
  <2>3. \A x \in Hands' : x \in Hands \/ x = s
    BY <1>6 DEF Hands, HandedTo
  <2>4. \A x \in Hands' : Used(chunks, x)' /\ x \notin DOMAIN held' /\ x \notin ToSet(delayed')
    BY <1>1, <1>2, <1>3, <1>8, <2>3 DEF HandsInv, DelayedInv
  <2>5. \A u \in Thread : apc'[u] \in {"reuse", "find"}
          => <<aop'[u].size, aop'[u].align>> \in Requests
    BY <1>1, <1>5, <1>6 DEF HandsInv, HandedTo, MovedTo
  <2>6. \A u \in Thread : apc'[u] = "commit" =>
          chunks'[aop'[u].chunk].size = aop'[u].size /\ Aligned(aop'[u].chunk, aop'[u].align)
    BY <1>1, <1>5, <1>6 DEF HandsInv, HandedTo, MovedTo
  <2> QED BY <2>1, <2>2, <2>4, <2>5, <2>6 DEF HandsInv, ToSet
<1>10. HeldInv' /\ DelayedInv'
  BY <1>1, <1>2, <1>3 DEF HeldInv, DelayedInv, Used, Backed, ToSet, Units, Aligned
<1> QED BY <1>2, <1>7, <1>9, <1>10 DEF ChunkInv

(* or returns one to the arena.                                            *)
LEMMA ReturnKeeps ==
  ASSUME ArenaValid, ChunkInv, NEW t \in Thread, aop[t].chunk # None,
         NEW l \in {"pop", "emergency"}, Become(InsertFree(Arena, aop[t].chunk)),
         Hand(t, None), Move(t, l), UNCHANGED <<committed, delayed, expired, held>>
  PROVE  ChunkInv'
<1>1. ShapeInv /\ HandsInv /\ HeldInv /\ DelayedInv /\ Sound(Arena, {})
  BY DEF ChunkInv
<1> DEFINE s == aop[t].chunk
           a == InsertFree(Arena, s)
<1>2. s \in Hands /\ Used(chunks, s) /\ s \notin DOMAIN held /\ s \notin ToSet(delayed)
  BY <1>1 DEF Hands, HandsInv
<1>3. Arena.c = chunks /\ Arena.l = sizeList
  BY DEF Arena
<1>4. Sound(a, {}) /\ Keeps(chunks, a.c, {s})
  BY <1>1, <1>2, <1>3, Inserted DEF Used
<1>5. chunks' = a.c /\ sizeList' = a.l
  BY DEF Become
<1>15. Become(a)
  OBVIOUS
<1> HIDE DEF s, a
<1>6. Sound(Arena, {})'
  BY <1>4, <1>15, ArenaBecomes
<1>7. \A x \in Addr : /\ Used(chunks', x) <=> Used(chunks, x) /\ x # s
                      /\ Used(chunks', x) => chunks'[x] = chunks[x]
  BY <1>4, <1>5 DEF Keeps
<1>8. MovedTo(t, l)
  BY <1>1, Moves DEF PC
<1>9. HandedTo(t, None)
  BY <1>1, HandsChange
<1>10. ShapeInv'
  BY <1>1, <1>8, <1>9 DEF ShapeInv, HandedTo, MovedTo
<1>11. HandsInv'
  <2>1. \A u \in Thread : apc'[u] \in Carrying <=> aop'[u].chunk # None
    BY <1>1, <1>8, <1>9 DEF HandsInv, HandedTo, MovedTo, Carrying
  <2>2. \A u, v \in Thread : aop'[u].chunk = aop'[v].chunk /\ aop'[u].chunk # None => u = v
    BY <1>1, <1>9 DEF HandsInv, HandedTo
  <2>3. ASSUME NEW x \in Hands'
        PROVE  x \in Hands /\ x # s /\ x \in Addr
    <3>1. PICK u \in Thread : x = aop'[u].chunk /\ x # None
      BY DEF Hands
    <3>2. u # t /\ aop'[u] = aop[u]
      BY <1>9, <3>1 DEF HandedTo
    <3>3. x # s
      BY <1>1, <3>1, <3>2 DEF HandsInv, s
    <3>4. aop[u] \in Op
      BY <1>1 DEF ShapeInv
    <3> QED BY <3>1, <3>2, <3>3, <3>4 DEF Hands, Op
  <2>4. \A x \in Hands' : Used(chunks, x)' /\ x \notin DOMAIN held' /\ x \notin ToSet(delayed')
    BY <1>1, <1>7, <2>3 DEF HandsInv, Used
  <2>5. \A u \in Thread : apc'[u] \in {"reuse", "find"}
          => <<aop'[u].size, aop'[u].align>> \in Requests
    BY <1>1, <1>8, <1>9 DEF HandsInv, HandedTo, MovedTo
  <2>6. ASSUME NEW u \in Thread, apc'[u] = "commit"
        PROVE  chunks'[aop'[u].chunk].size = aop'[u].size /\ Aligned(aop'[u].chunk, aop'[u].align)
    <3>1. u # t /\ apc[u] = "commit" /\ aop'[u] = aop[u]
      BY <1>8, <1>9, <2>6 DEF MovedTo, HandedTo
    <3>2. aop[u].chunk \in Hands' /\ aop[u].chunk # None
      BY <1>1, <3>1 DEF HandsInv, Carrying, Hands
    <3>3. chunks'[aop[u].chunk] = chunks[aop[u].chunk]
      BY <1>7, <2>3, <2>4, <3>2 DEF Used
    <3> QED BY <1>1, <3>1, <3>3 DEF HandsInv
  <2> QED BY <2>1, <2>2, <2>4, <2>5, <2>6 DEF HandsInv, ToSet
<1>12. \A x \in Addr : x # s /\ Used(chunks, x) =>
         /\ Used(chunks, x)' /\ chunks'[x] = chunks[x] /\ (Backed(x) => Backed(x)')
  BY <1>7 DEF Used, Backed, Units
<1>13. HeldInv'
  <2>1. ASSUME NEW x \in DOMAIN held
        PROVE  x \in Addr /\ x # s /\ Used(chunks, x)
    BY <1>1, <1>2 DEF ShapeInv, HeldInv
  <2> QED BY <1>1, <1>12, <2>1 DEF HeldInv, ToSet, Aligned
<1>14. DelayedInv'
  <2>1. ASSUME NEW x \in ToSet(delayed)
        PROVE  x \in Addr /\ x # s /\ Used(chunks, x)
    BY <1>1, <1>2 DEF ShapeInv, DelayedInv, ToSet
  <2> QED BY <1>1, <1>12, <2>1 DEF DelayedInv, ToSet
<1> QED BY <1>6, <1>10, <1>11, <1>13, <1>14 DEF ChunkInv

-----------------------------------------------------------------------------
(* What vaFindSize finds.                                                  *)

(* A class with chunks of the size or larger ones.                         *)
LEMMA ClassFound ==
  ASSUME ArenaValid, NEW a, Sound(a, {}), NEW size, NEW k, k = FindClass(a, size), ~(k > MaxClass)
  PROVE  k \in 0 .. MaxClass /\ k >= ClassLarger(size) /\ a.l[k] # <<>>
<1> DEFINE ks == {j \in DOMAIN a.l : j >= ClassLarger(size) /\ a.l[j] # <<>>}
<1>1. MaxClass \in Nat
  <2>1. ArenaSize \in 1 .. ArenaSize
    BY DEF ArenaValid
  <2>2. MaxClass \in 0 .. MaxClass
    BY <2>1 DEF ArenaValid, MaxClass
  <2> QED BY <2>2
<1>2. DOMAIN a.l = 0 .. MaxClass
  BY DEF Sound, ArenaType, ListMap
<1>3. k = IF ks = {} THEN MaxClass + 1 ELSE Min(ks)
  BY DEF FindClass
<1>4. ks \in SUBSET Nat
  BY <1>1, <1>2
<1>5. ks # {}
  BY <1>1, <1>3
<1>6. k \in ks
  <2> HIDE DEF ks
  <2> QED BY <1>3, <1>4, <1>5, LeastOf
<1> QED BY <1>2, <1>6

(* The first chunk of a class is taken from its list.                      *)
TakenAs(a, k, s, b) ==
  /\ Sound(b, {}) /\ s \in DOMAIN a.c /\ ~a.c[s].used /\ ClassSmaller(a.c[s].size) = k
  /\ Used(b.c, s) /\ b.c[s].size = a.c[s].size /\ a.c[s].size \in 1 .. ArenaSize
  /\ DOMAIN b.c = DOMAIN a.c /\ \A x \in DOMAIN a.c : x # s => b.c[x] = a.c[x]

(* The first chunk of a class is taken out of its list.                    *)
LEMMA Taken ==
  ASSUME ArenaValid, NEW a, Sound(a, {}), NEW k \in 0 .. MaxClass, a.l[k] # <<>>,
         NEW s, s = Head(a.l[k]), NEW b, b = Mark(WithList(a, k, Tail(a.l[k])), s, TRUE)
  PROVE  TakenAs(a, k, s, b)
<1> DEFINE q == Tail(a.l[k])
           m == WithList(a, k, q)
<1>1. ArenaType(a) /\ a.c \in ChunkMap /\ a.l \in [0 .. MaxClass -> Seq(Addr)]
  BY DEF Sound, ArenaType, ListMap
<1>2. Tiles(a.c) /\ Joins(a.c, {}) /\ Lists(a.c, a.l, {})
  BY DEF Sound
<1>3. /\ a.l[k] \in Seq(Addr) /\ IsInjective(a.l[k])
      /\ ToSet(a.l[k]) = {x \in DOMAIN a.c : ~a.c[x].used /\ ClassSmaller(a.c[x].size) = k}
  BY <1>1, <1>2 DEF Lists
<1>4. q \in Seq(Addr) /\ IsInjective(q) /\ s \in ToSet(a.l[k]) /\ ToSet(q) = ToSet(a.l[k]) \ {s}
  BY <1>3, TailStarts
<1>5. s \in DOMAIN a.c /\ ~a.c[s].used /\ ClassSmaller(a.c[s].size) = k
  BY <1>3, <1>4
<1> HIDE DEF q
<1>6. m = WithList(a, k, q)
  OBVIOUS
<1> HIDE DEF m
<1>7. ArenaType(m) /\ m.c = a.c /\ m.l[k] = q
  BY <1>1, <1>4, <1>6, Relisted
<1>8. \A j \in 0 .. MaxClass : j # k => m.l[j] = a.l[j]
  BY <1>1, <1>4, <1>6, Relisted
<1>9. MarkedAs(m, s, TRUE, b)
  BY <1>5, <1>6, <1>7, Marked DEF q
<1>10. /\ ArenaType(b) /\ b.l = m.l /\ DOMAIN b.c = DOMAIN a.c
       /\ b.c[s].size = a.c[s].size /\ b.c[s].used
       /\ \A x \in DOMAIN a.c : x # s => b.c[x] = a.c[x]
  BY <1>7, <1>9 DEF MarkedAs
<1>11. \A x \in DOMAIN a.c : End(b.c, x) = End(a.c, x)
  BY <1>10 DEF End
<1>12. Tiles(b.c)
  BY <1>2, <1>10, <1>11 DEF Tiles
<1>13. Joins(b.c, {})
  <2> SUFFICES ASSUME NEW x \in DOMAIN b.c, ~b.c[x].used, End(b.c, x) \in DOMAIN b.c
               PROVE  b.c[End(b.c, x)].used
    BY DEF Joins
  <2>1. x # s /\ ~a.c[x].used /\ End(a.c, x) = End(b.c, x)
    BY <1>10, <1>11
  <2>2. a.c[End(a.c, x)].used
    BY <1>2, <1>10, <2>1 DEF Joins
  <2> QED BY <1>10, <2>1, <2>2
<1>14. Lists(b.c, b.l, {})
  <2>1. ASSUME NEW j \in 0 .. MaxClass
        PROVE  /\ IsInjective(b.l[j])
               /\ ToSet(b.l[j]) =
                    {x \in DOMAIN b.c : ~b.c[x].used /\ ClassSmaller(b.c[x].size) = j} \ {}
    <3>1. /\ IsInjective(a.l[j])
          /\ ToSet(a.l[j]) = {x \in DOMAIN a.c : ~a.c[x].used /\ ClassSmaller(a.c[x].size) = j}
      BY <1>2 DEF Lists
    <3>2. CASE j = k
      <4>1. b.l[j] = q /\ IsInjective(b.l[j])
        BY <1>4, <1>7, <1>10, <3>2
      <4>2. ToSet(b.l[j]) = ToSet(a.l[j]) \ {s}
        BY <1>4, <3>2, <4>1
      <4>3. \A x \in DOMAIN a.c : (~b.c[x].used /\ ClassSmaller(b.c[x].size) = j)
                                   <=> (x # s /\ ~a.c[x].used /\ ClassSmaller(a.c[x].size) = j)
        BY <1>10
      <4>4. {x \in DOMAIN b.c : ~b.c[x].used /\ ClassSmaller(b.c[x].size) = j}
              = {x \in DOMAIN a.c : ~a.c[x].used /\ ClassSmaller(a.c[x].size) = j} \ {s}
        BY <1>10, <4>3
      <4> QED BY <3>1, <4>1, <4>2, <4>4
    <3>3. CASE j # k
      <4>1. b.l[j] = a.l[j]
        BY <1>8, <1>10, <3>3
      <4>2. \A x \in DOMAIN a.c : (~b.c[x].used /\ ClassSmaller(b.c[x].size) = j)
                                   <=> (~a.c[x].used /\ ClassSmaller(a.c[x].size) = j)
        BY <1>5, <1>10, <3>3
      <4>3. {x \in DOMAIN b.c : ~b.c[x].used /\ ClassSmaller(b.c[x].size) = j}
              = {x \in DOMAIN a.c : ~a.c[x].used /\ ClassSmaller(a.c[x].size) = j}
        BY <1>10, <4>2
      <4> QED BY <3>1, <4>1, <4>3
    <3> QED BY <3>2, <3>3
  <2> QED BY <2>1 DEF Lists
<1>15. a.c[s].size \in 1 .. ArenaSize
  BY <1>1, <1>5, MapIs
<1> QED BY <1>5, <1>10, <1>12, <1>13, <1>14, <1>15 DEF TakenAs, Sound, Used

(* A thread gets a new chunk.                                              *)
LEMMA FoundKeeps ==
  ASSUME ArenaValid, ChunkInv, NEW t \in Thread, aop[t].chunk = None, NEW s \in Addr,
         NEW a, Sound(a, {}), Become(a), Used(a.c, s), ~Used(chunks, s),
         a.c[s].size = aop[t].size, Aligned(s, aop[t].align),
         \A x \in Addr : x # s => /\ Used(a.c, x) <=> Used(chunks, x)
                                  /\ Used(a.c, x) => a.c[x] = chunks[x],
         Hand(t, s), Move(t, "commit"), UNCHANGED <<committed, delayed, expired, held>>
  PROVE  ChunkInv'
<1>1. ShapeInv /\ HandsInv /\ HeldInv /\ DelayedInv
  BY DEF ChunkInv
<1>2. Sound(Arena, {})'
  BY ArenaBecomes
<1>3. chunks' = a.c
  BY DEF Become
<1>4. MovedTo(t, "commit")
  BY <1>1, Moves DEF PC, Carrying
<1>5. HandedTo(t, s)
  BY <1>1, HandsChange
<1>6. s # None /\ s \notin Hands /\ s \notin DOMAIN held /\ s \notin ToSet(delayed)
  <2>1. s # None
    BY NoneIs
  <2> QED BY <1>1, <2>1 DEF HandsInv, HeldInv, DelayedInv
<1>7. ASSUME NEW x \in Addr, Used(chunks, x)
      PROVE  /\ Used(chunks, x)' /\ chunks'[x] = chunks[x] /\ (Backed(x) => Backed(x)')
  BY <1>3, <1>7 DEF Used, Backed, Units
<1>8. ShapeInv'
  BY <1>1, <1>4, <1>5 DEF ShapeInv, HandedTo, MovedTo
<1>9. HandsInv'
  <2>1. \A u \in Thread : apc'[u] \in Carrying <=> aop'[u].chunk # None
    BY <1>1, <1>4, <1>5, <1>6 DEF HandsInv, HandedTo, MovedTo, Carrying
  <2>2. \A u, v \in Thread : aop'[u].chunk = aop'[v].chunk /\ aop'[u].chunk # None => u = v
    BY <1>1, <1>5, <1>6 DEF HandsInv, HandedTo, Hands
  <2>3. ASSUME NEW x \in Hands'
        PROVE  x \in Addr /\ (x \in Hands \/ x = s)
    <3>1. PICK u \in Thread : x = aop'[u].chunk /\ x # None
      BY DEF Hands
    <3>2. aop[u] \in Op
      BY <1>1 DEF ShapeInv
    <3> QED BY <1>5, <3>1, <3>2 DEF Hands, HandedTo, Op
  <2>4. \A x \in Hands' : Used(chunks, x)' /\ x \notin DOMAIN held' /\ x \notin ToSet(delayed')
    <3>1. Used(chunks, s)'
      BY <1>3 DEF Used
    <3> QED BY <1>1, <1>6, <1>7, <2>3, <3>1 DEF HandsInv
  <2>5. \A u \in Thread : apc'[u] \in {"reuse", "find"}
          => <<aop'[u].size, aop'[u].align>> \in Requests
    BY <1>1, <1>4, <1>5 DEF HandsInv, HandedTo, MovedTo
  <2>6. ASSUME NEW u \in Thread, apc'[u] = "commit"
        PROVE  chunks'[aop'[u].chunk].size = aop'[u].size /\ Aligned(aop'[u].chunk, aop'[u].align)
    <3>1. CASE u = t
      BY <1>3, <1>5, <3>1 DEF HandedTo
    <3>2. CASE u # t
      <4>1. apc[u] = "commit" /\ aop'[u] = aop[u]
        BY <1>4, <1>5, <2>6, <3>2 DEF MovedTo, HandedTo
      <4>2. aop[u].chunk \in Hands /\ aop[u].chunk \in Addr
        BY <1>1, <4>1 DEF HandsInv, Carrying, Hands, ShapeInv, Op
      <4>3. chunks'[aop[u].chunk] = chunks[aop[u].chunk]
        BY <1>1, <1>7, <4>2 DEF HandsInv
      <4> QED BY <1>1, <4>1, <4>3 DEF HandsInv
    <3> QED BY <3>1, <3>2
  <2> QED BY <2>1, <2>2, <2>4, <2>5, <2>6 DEF HandsInv, ToSet
<1>10. HeldInv'
  <2>1. ASSUME NEW x \in DOMAIN held
        PROVE  x \in Addr /\ Used(chunks, x)
    BY <1>1 DEF ShapeInv, HeldInv
  <2> QED BY <1>1, <1>7, <2>1 DEF HeldInv, ToSet, Aligned
<1>11. DelayedInv'
  <2>1. ASSUME NEW x \in ToSet(delayed)
        PROVE  x \in Addr /\ Used(chunks, x)
    BY <1>1 DEF ShapeInv, DelayedInv, ToSet
  <2> QED BY <1>1, <1>7, <2>1 DEF DelayedInv, ToSet
<1> QED BY <1>2, <1>8, <1>9, <1>10, <1>11 DEF ChunkInv

-----------------------------------------------------------------------------
(* One lemma per action.                                                   *)

(* chiChunkNew begins.                                                     *)
LEMMA NewKeeps ==
  ASSUME ArenaValid, ChunkInv, NEW t \in Allocators, New(t)
  PROVE  ChunkInv'
<1>1. t \in Thread /\ ShapeInv /\ HandsInv
  BY DEF ChunkInv, Thread
<1>2. PICK r \in Requests : aop' = [aop EXCEPT ![t] = [NoOp EXCEPT !.size = r[1], !.align = r[2]]]
  BY DEF New
<1> DEFINE op == [NoOp EXCEPT !.size = r[1], !.align = r[2]]
<1>3. r \in (Nat \ {0}) \X Nat
  BY DEF ArenaValid
<1>4. op \in Op /\ op.size = r[1] /\ op.align = r[2] /\ op.chunk = None
  BY <1>3 DEF NoOp, Op
<1>5. <<op.size, op.align>> \in Requests
  BY <1>3, <1>4
<1>6. aop' = [aop EXCEPT ![t] = op]
  BY <1>2
<1> HIDE DEF op
<1>7. OpBecomes(t, op)
  BY <1>1, <1>4, <1>6, OpChanges
<1>8. "reuse" \in PC \ Carrying
  BY DEF PC, Carrying
<1>9. MovedTo(t, "reuse")
  BY <1>1, <1>8, Moves DEF New
<1>10. aop[t].chunk = None
  BY <1>1, FreeHands DEF New, Carrying
<1> QED BY <1>1, <1>4, <1>5, <1>7, <1>8, <1>9, <1>10, IdleKeeps DEF New

(* A thread that only moves.                                               *)
LEMMA MoveKeeps ==
  ASSUME ArenaValid, ChunkInv, NEW t \in Thread, NEW l \in {"find", "emergency", "wait", "pop"},
         aop[t].chunk = None, l = "find" => apc[t] = "reuse", Move(t, l),
         UNCHANGED <<chunks, sizeList, committed, delayed, expired, held, aop>>
  PROVE  ChunkInv'
<1>1. ShapeInv /\ HandsInv
  BY DEF ChunkInv
<1>2. l \in PC \ Carrying
  BY DEF PC, Carrying
<1>3. MovedTo(t, l)
  BY <1>1, <1>2, Moves
<1>4. aop[t] \in Op /\ OpBecomes(t, aop[t])
  BY <1>1 DEF ShapeInv, OpBecomes
<1>5. l \in {"reuse", "find"} => <<aop[t].size, aop[t].align>> \in Requests
  BY <1>1 DEF HandsInv
<1> QED BY <1>2, <1>3, <1>4, <1>5, IdleKeeps

(* A waiting chunk is reused.                                              *)
LEMMA ReuseKeeps ==
  ASSUME ArenaValid, ChunkInv, NEW t \in Allocators, Reuse(t)
  PROVE  ChunkInv'
<1>1. ShapeInv /\ HandsInv /\ HeldInv /\ DelayedInv
  BY DEF ChunkInv
<1>2. t \in Thread /\ apc[t] = "reuse" /\ aop[t].chunk = None
  BY <1>1, FreeHands DEF Reuse, Thread, Carrying
<1>3. CASE Fitting(t) = {}
  BY <1>2, <1>3, MoveKeeps DEF Reuse
<1>4. CASE Fitting(t) # {}
  <2> DEFINE i == Min(Fitting(t))
  <2>1. DOMAIN delayed = 1 .. Len(delayed) /\ Len(delayed) \in Nat /\ expired \in Nat
        /\ expired <= Len(delayed)
    BY <1>1 DEF ShapeInv
  <2>2. i \in Fitting(t)
    <3>1. Fitting(t) \in SUBSET Nat
      BY <2>1 DEF Fitting
    <3> QED BY <1>4, <3>1, LeastOf
  <2>10. delayed[i] \in Addr
    BY <1>1, <2>2 DEF Fitting, ShapeInv
  <2>11. PICK s \in Addr : s = delayed[i]
    BY <2>10
  <2>3. /\ i \in DOMAIN delayed /\ chunks[s].size = aop[t].size /\ Aligned(s, aop[t].align)
        /\ s \in ToSet(delayed) /\ s \in Addr
    <3>1. i \in DOMAIN delayed /\ chunks[s].size = aop[t].size /\ Aligned(s, aop[t].align)
      BY <2>2, <2>11 DEF Fitting
    <3> QED BY <2>11, <3>1 DEF ToSet
  <2>4. /\ Give(t, s) /\ delayed' = RemoveAt(delayed, i)
          /\ UNCHANGED <<chunks, sizeList, committed>>
        /\ expired' = IF i <= expired THEN expired - 1 ELSE expired
    BY <1>4, <2>11 DEF Reuse
  <2> HIDE DEF i
  <2>5. /\ delayed' \in Seq(Addr) /\ Len(delayed') = Len(delayed) - 1
        /\ IsInjective(delayed') /\ ToSet(delayed') = ToSet(delayed) \ {s}
    BY <1>1, <2>3, <2>4, <2>11, RemoveAtStarts DEF ShapeInv
  <2>6. expired' \in 0 .. Len(delayed')
    BY <2>1, <2>3, <2>4, <2>5
  <2>7. Used(chunks, s) /\ Backed(s) /\ s \notin DOMAIN held /\ s \notin Hands /\ s # None
    BY <1>1, <2>3, NoneIs DEF DelayedInv, HeldInv, HandsInv
  <2>8. Backed(s)'
    BY <2>4, <2>7 DEF Backed, Units
  <2>9. \A u \in Thread : u # t => aop[u].chunk # s
    BY <2>7 DEF Hands
  <2> QED BY <1>2, <2>3, <2>4, <2>5, <2>6, <2>7, <2>8, <2>9, GiveKeeps
<1> QED BY <1>3, <1>4

(* A chunk of the arena is found.                                          *)
FoundAs(t, s, a) ==
  /\ Sound(a, {}) /\ Become(a) /\ Used(a.c, s) /\ ~Used(chunks, s)
  /\ a.c[s].size = aop[t].size /\ Aligned(s, aop[t].align)
  /\ \A x \in Addr : x # s => /\ Used(a.c, x) <=> Used(chunks, x)
                              /\ Used(a.c, x) => a.c[x] = chunks[x]
  /\ Hand(t, s) /\ Move(t, "commit")

(* Either none is found, or one that was free.                             *)
LEMMA FindFinds ==
  ASSUME ArenaValid, ChunkInv, NEW t \in Allocators, Find(t)
  PROVE  /\ t \in Thread /\ aop[t].chunk = None /\ UNCHANGED <<committed, delayed, expired, held>>
         /\ \/ Move(t, "emergency") /\ UNCHANGED <<chunks, sizeList, aop>>
            \/ \E s \in Addr, a \in [c : ChunkMap, l : ListMap] : FoundAs(t, s, a)
<1>1. ShapeInv /\ HandsInv /\ Sound(Arena, {})
  BY DEF ChunkInv
<1>2. t \in Thread /\ apc[t] = "find" /\ aop[t].chunk = None
  BY <1>1, FreeHands DEF Find, Thread, Carrying
<1> DEFINE size == aop[t].size
           align == aop[t].align
           k == FindClass(Arena, size + align)
<1>3. CASE k > MaxClass
  BY <1>2, <1>3 DEF Find
<1>4. CASE ~(k > MaxClass)
  <2> DEFINE s == Head(sizeList[k])
             a == Mark(WithList(Arena, k, Tail(sizeList[k])), s, TRUE)
             r == Carve(a, s, size, align)
  <2>1. /\ Become(r.arena) /\ Hand(t, r.start) /\ Move(t, "commit")
        /\ UNCHANGED <<committed, delayed, expired, held>>
    BY <1>4 DEF Find
  <2>2. <<size, align>> \in Requests /\ size \in Nat \ {0} /\ align \in Nat
    BY <1>1, <1>2 DEF HandsInv, ArenaValid
  <2>3. k \in 0 .. MaxClass /\ k >= ClassLarger(size + align) /\ sizeList[k] # <<>>
    BY <1>1, <1>4, ClassFound DEF Arena
  <2> HIDE DEF k
  <2>4. Arena.l = sizeList /\ Arena.c = chunks
    BY DEF Arena
  <2>5. TakenAs(Arena, k, s, a)
    BY <1>1, <2>3, <2>4, Taken
  <2> HIDE DEF s, a
  <2>6. a.c[s].size >= size + align
    <3>1. a.c[s].size \in 1 .. ArenaSize /\ ClassSmaller(a.c[s].size) >= ClassLarger(size + align)
      BY <2>3, <2>5 DEF TakenAs
    <3> QED BY <2>2, <3>1 DEF ArenaValid
  <2>7. Carved(a, s, size, align, r)
    BY <2>2, <2>5, <2>6, CarveIs DEF TakenAs, Used
  <2> HIDE DEF r
  <2>8. /\ Sound(r.arena, {}) /\ Used(r.arena.c, r.start) /\ r.start \in Addr
        /\ r.arena.c[r.start].size = size /\ Aligned(r.start, align)
    BY <2>7 DEF Carved
  <2>9. ~Used(chunks, r.start)
    BY <2>4, <2>5, <2>7 DEF Carved, TakenAs, Used
  <2>10. \A x \in Addr : x # r.start => /\ Used(r.arena.c, x) <=> Used(chunks, x)
                                        /\ Used(r.arena.c, x) => r.arena.c[x] = chunks[x]
    BY <2>4, <2>5, <2>7 DEF Carved, TakenAs, Used
  <2>11. FoundAs(t, r.start, r.arena)
    <3> DEFINE u == r.start
               v == r.arena
    <3>1. /\ Sound(v, {}) /\ Become(v) /\ Used(v.c, u) /\ ~Used(chunks, u)
          /\ v.c[u].size = aop[t].size /\ Aligned(u, aop[t].align)
          /\ Hand(t, u) /\ Move(t, "commit")
      BY <2>1, <2>8, <2>9
    <3>2. \A x \in Addr : x # u => /\ Used(v.c, x) <=> Used(chunks, x)
                                   /\ Used(v.c, x) => v.c[x] = chunks[x]
      BY <2>10
    <3> HIDE DEF u, v
    <3>3. FoundAs(t, u, v)
      BY <3>1, <3>2 DEF FoundAs
    <3> QED BY <3>3 DEF u, v
  <2>12. r.arena \in [c : ChunkMap, l : ListMap]
    BY <2>8 DEF Sound, ArenaType
  <2>13. \E u \in Addr, v \in [c : ChunkMap, l : ListMap] : FoundAs(t, u, v)
    BY <2>8, <2>11, <2>12
  <2> QED BY <1>2, <2>1, <2>13
<1> QED BY <1>3, <1>4

(* The chunk that is found goes to the thread.                             *)
LEMMA FindKeeps ==
  ASSUME ArenaValid, ChunkInv, NEW t \in Allocators, Find(t)
  PROVE  ChunkInv'
<1>1. t \in Thread /\ aop[t].chunk = None /\ UNCHANGED <<committed, delayed, expired, held>>
  BY FindFinds
<1>2. ASSUME Move(t, "emergency"), UNCHANGED <<chunks, sizeList, aop>>
      PROVE  ChunkInv'
  BY <1>1, <1>2, MoveKeeps
<1>3. ASSUME NEW s \in Addr, NEW a \in [c : ChunkMap, l : ListMap], FoundAs(t, s, a)
      PROVE  ChunkInv'
  <2>1. /\ Sound(a, {}) /\ Become(a) /\ Used(a.c, s) /\ ~Used(chunks, s)
        /\ a.c[s].size = aop[t].size /\ Aligned(s, aop[t].align)
        /\ Hand(t, s) /\ Move(t, "commit")
    BY <1>3 DEF FoundAs
  <2>2. \A x \in Addr : x # s => /\ Used(a.c, x) <=> Used(chunks, x)
                                 /\ Used(a.c, x) => a.c[x] = chunks[x]
    BY <1>3 DEF FoundAs
  <2> QED BY <1>1, <2>1, <2>2, FoundKeeps
<1> QED BY <1>2, <1>3, FindFinds

(* The memory of a new chunk is committed, or the chunk goes back.         *)
LEMMA CommitKeeps ==
  ASSUME ArenaValid, ChunkInv, NEW t \in Allocators, Commit(t)
  PROVE  ChunkInv'
<1>1. ShapeInv /\ HandsInv /\ HeldInv /\ DelayedInv
  BY DEF ChunkInv
<1>2. t \in Thread /\ apc[t] = "commit" /\ aop[t].chunk # None /\ aop[t].chunk \in Addr
  BY <1>1 DEF Commit, Thread, HandsInv, Carrying, ShapeInv, Op
<1>3. PICK s \in Addr : s = aop[t].chunk
  BY <1>2
<1>4. /\ s \in Hands /\ Used(chunks, s) /\ s \notin DOMAIN held /\ s \notin ToSet(delayed)
      /\ chunks[s].size = aop[t].size /\ Aligned(s, aop[t].align)
  BY <1>1, <1>2, <1>3 DEF Hands, HandsInv
<1>5. delayed' = delayed /\ expired' = expired
  BY DEF Commit
<1>6. ASSUME committed' = committed \cup Units(s, chunks[s].size), Give(t, s),
             UNCHANGED <<chunks, sizeList>>
      PROVE  ChunkInv'
  <2>1. Backed(s)'
    BY <1>6 DEF Backed, Units
  <2>2. \A u \in Thread : u # t => aop[u].chunk # s
    BY <1>1, <1>2, <1>3 DEF HandsInv
  <2>3. /\ delayed' \in Seq(Addr) /\ IsInjective(delayed') /\ expired' \in 0 .. Len(delayed')
        /\ s \notin ToSet(delayed') /\ ToSet(delayed') \subseteq ToSet(delayed)
    BY <1>1, <1>4, <1>5 DEF ShapeInv
  <2>4. committed \subseteq committed'
    BY <1>6
  <2> QED BY <1>2, <1>4, <1>6, <2>1, <2>2, <2>3, <2>4, GiveKeeps
<1>7. ASSUME Become(InsertFree(Arena, s)), Hand(t, None), Move(t, "emergency"),
             UNCHANGED <<committed, held>>
      PROVE  ChunkInv'
  BY <1>2, <1>3, <1>5, <1>7, ReturnKeeps
<1> QED BY <1>3, <1>6, <1>7 DEF Commit

(* A waiting chunk is taken to be unmapped at once.                        *)
LEMMA EmergencyKeeps ==
  ASSUME ArenaValid, ChunkInv, NEW t \in Allocators, Emergency(t)
  PROVE  ChunkInv'
<1>1. ShapeInv /\ HandsInv
  BY DEF ChunkInv
<1>2. t \in Thread /\ apc[t] = "emergency" /\ aop[t].chunk = None
  BY <1>1, FreeHands DEF Emergency, Thread, Carrying
<1>3. CASE delayed = <<>>
  <2>1. NoOp \in Op /\ NoOp.chunk = None
    BY NoneIs
  <2>2. OpBecomes(t, NoOp)
    BY <1>1, <1>2, <1>3, <2>1, OpChanges DEF Emergency
  <2>3. "idle" \in PC \ Carrying
    BY DEF PC, Carrying
  <2>4. MovedTo(t, "idle")
    BY <1>1, <1>2, <1>3, <2>3, Moves DEF Emergency
  <2> QED BY <1>2, <1>3, <2>1, <2>2, <2>3, <2>4, IdleKeeps DEF Emergency
<1>4. CASE delayed # <<>>
  <2>1. expired \in Nat /\ expired <= Len(delayed) /\ Len(delayed) \in Nat /\ Len(delayed) # 0
    BY <1>1, <1>4 DEF ShapeInv
  <2>2. expired' \in 0 .. Len(delayed) - 1
    BY <1>4, <2>1 DEF Emergency
  <2> QED BY <1>2, <1>4, <2>2, PopKeeps DEF Emergency
<1> QED BY <1>3, <1>4

(* The unmap task takes a chunk that has waited long enough.               *)
LEMMA PopWaitKeeps ==
  ASSUME ArenaValid, ChunkInv, PopWait
  PROVE  ChunkInv'
<1>1. ShapeInv /\ HandsInv
  BY DEF ChunkInv
<1>2. UnmapTask \in Thread /\ aop[UnmapTask].chunk = None
  BY <1>1, FreeHands DEF PopWait, Thread, Carrying
<1>3. expired \in Nat /\ expired <= Len(delayed) /\ Len(delayed) \in Nat
  BY <1>1 DEF ShapeInv
<1>4. CASE expired > 0
  <2>1. delayed # <<>> /\ expired' \in 0 .. Len(delayed) - 1
    BY <1>3, <1>4 DEF PopWait
  <2> QED BY <1>2, <1>4, <2>1, PopKeeps DEF PopWait
<1>5. CASE ~(expired > 0)
  BY <1>2, <1>5, MoveKeeps DEF PopWait
<1> QED BY <1>4, <1>5

(* A chunk has waited long enough.                                         *)
LEMMA ExpireKeeps ==
  ASSUME ArenaValid, ChunkInv, Expire
  PROVE  ChunkInv'
<1>1. ShapeInv /\ HandsInv /\ HeldInv /\ DelayedInv /\ Sound(Arena, {})
  BY DEF ChunkInv
<1>2. Sound(Arena, {})' /\ \A s : Used(chunks, s)' <=> Used(chunks, s)
  BY <1>1, ArenaStays DEF Expire
<1>3. ShapeInv'
  BY <1>1 DEF ShapeInv, Expire
<1>4. HandsInv' /\ HeldInv' /\ DelayedInv'
  BY <1>1 DEF HandsInv, HeldInv, DelayedInv, Expire, Used, Hands, Backed, Units, Aligned, ToSet
<1> QED BY <1>2, <1>3, <1>4 DEF ChunkInv

(* A chunk in somebody's hands becomes free.                               *)
LEMMA InsertKeeps ==
  ASSUME ArenaValid, ChunkInv, NEW t \in Thread, Insert(t)
  PROVE  ChunkInv'
<1>1. aop[t].chunk # None
  BY DEF ChunkInv, HandsInv, Insert, Carrying
<1>2. PICK l \in {"pop", "emergency"} : l = IF t = UnmapTask THEN "pop" ELSE "emergency"
  OBVIOUS
<1> QED BY <1>1, <1>2, ReturnKeeps DEF Insert

(* Its memory is given back before.                                        *)
LEMMA DecommitKeeps ==
  ASSUME ArenaValid, ChunkInv, NEW t \in Thread, Decommit(t)
  PROVE  ChunkInv'
<1>1. ShapeInv /\ HandsInv /\ HeldInv /\ DelayedInv /\ Sound(Arena, {})
  BY DEF ChunkInv
<1>2. Sound(Arena, {})' /\ \A x : Used(chunks, x)' <=> Used(chunks, x)
  BY <1>1, ArenaStays DEF Decommit
<1>3. apc[t] = "decommit" /\ aop[t].chunk # None /\ aop' = aop /\ chunks' = chunks
  BY <1>1 DEF Decommit, HandsInv, Carrying
<1>4. MovedTo(t, "insert")
  BY <1>1, Moves DEF Decommit, PC, Carrying
<1>5. PICK s \in Addr : s = aop[t].chunk
  BY <1>1, <1>3 DEF ShapeInv, Op
<1>6. /\ Used(chunks, s) /\ s \notin DOMAIN held /\ s \notin ToSet(delayed)
      /\ committed' = committed \ Units(s, chunks[s].size)
  BY <1>1, <1>3, <1>5 DEF HandsInv, Hands, Decommit
<1>7. ASSUME NEW x, Used(chunks, x), Backed(x), x # s
      PROVE  Backed(x)'
  <2>1. chunks \in ChunkMap /\ Tiles(chunks)
    BY <1>1 DEF Sound, ArenaType, Arena
  <2>2. x \in DOMAIN chunks /\ s \in DOMAIN chunks
    BY <1>6, <1>7 DEF Used
  <2>3. End(chunks, x) <= s \/ End(chunks, s) <= x
    BY <1>7, <2>1, <2>2, Apart
  <2>4. x \in Nat /\ s \in Nat /\ chunks[x].size \in Nat /\ chunks[s].size \in Nat
    BY <2>1, <2>2, MapIs, ArenaValid DEF ArenaValid
  <2>5. Units(x, chunks[x].size) \cap Units(s, chunks[s].size) = {}
    BY <2>3, <2>4 DEF Units, End
  <2>6. Units(x, chunks[x].size) \subseteq committed'
    BY <1>6, <1>7, <2>5 DEF Backed
  <2> QED BY <1>3, <2>6 DEF Backed, Units
<1>8. ShapeInv'
  BY <1>1, <1>4 DEF ShapeInv, MovedTo, Decommit
<1>9. HandsInv'
  <2>1. \A u \in Thread : apc'[u] \in Carrying <=> aop'[u].chunk # None
    BY <1>1, <1>3, <1>4 DEF HandsInv, MovedTo, Carrying
  <2>2. \A u, v \in Thread : aop'[u].chunk = aop'[v].chunk /\ aop'[u].chunk # None => u = v
    BY <1>1, <1>3 DEF HandsInv
  <2>3. Hands' = Hands
    BY <1>3 DEF Hands
  <2>4. \A x \in Hands' : Used(chunks, x)' /\ x \notin DOMAIN held' /\ x \notin ToSet(delayed')
    BY <1>1, <1>2, <2>3 DEF HandsInv, Decommit
  <2>5. \A u \in Thread : apc'[u] \in {"reuse", "find"}
          => <<aop'[u].size, aop'[u].align>> \in Requests
    BY <1>1, <1>3, <1>4 DEF HandsInv, MovedTo
  <2>6. \A u \in Thread : apc'[u] = "commit" =>
          chunks'[aop'[u].chunk].size = aop'[u].size /\ Aligned(aop'[u].chunk, aop'[u].align)
    BY <1>1, <1>3, <1>4 DEF HandsInv, MovedTo
  <2> QED BY <2>1, <2>2, <2>4, <2>5, <2>6 DEF HandsInv, ToSet
<1>10. HeldInv'
  <2>1. held' = held /\ delayed' = delayed
    BY DEF Decommit
  <2>2. ASSUME NEW x \in DOMAIN held
        PROVE  /\ Used(chunks, x)' /\ chunks'[x].size = held[x][1] /\ Aligned(x, held[x][2])
               /\ Backed(x)' /\ x \notin ToSet(delayed)
    BY <1>1, <1>2, <1>3, <1>6, <1>7 DEF HeldInv
  <2> QED BY <2>1, <2>2 DEF HeldInv, ToSet, Aligned
<1>11. DelayedInv'
  <2>1. delayed' = delayed
    BY DEF Decommit
  <2>2. ASSUME NEW x \in ToSet(delayed)
        PROVE  Used(chunks, x)' /\ Backed(x)'
    BY <1>1, <1>2, <1>6, <1>7 DEF DelayedInv
  <2> QED BY <2>1, <2>2 DEF DelayedInv, ToSet
<1> QED BY <1>2, <1>8, <1>9, <1>10, <1>11 DEF ChunkInv

(* A chunk of the program joins those that wait.                           *)
LEMMA ChunkFreeKeeps ==
  ASSUME ArenaValid, ChunkInv, NEW t \in Allocators, ChunkFree(t)
  PROVE  ChunkInv'
<1>1. ShapeInv /\ HandsInv /\ HeldInv /\ DelayedInv /\ Sound(Arena, {})
  BY DEF ChunkInv
<1>2. UNCHANGED <<chunks, sizeList, committed, expired, aop>>
  BY DEF ChunkFree
<1>3. Sound(Arena, {})' /\ \A x : Used(chunks, x)' <=> Used(chunks, x)
  BY <1>1, <1>2, ArenaStays
<1>4. PICK s \in DOMAIN held : /\ held' = [x \in DOMAIN held \ {s} |-> held[x]]
                               /\ delayed' = Append(delayed, s)
  BY DEF ChunkFree
<1>5. s \in Addr /\ Used(chunks, s) /\ Backed(s) /\ s \notin ToSet(delayed) /\ s \notin Hands
  BY <1>1 DEF ShapeInv, HeldInv, HandsInv
<1>6. /\ delayed' \in Seq(Addr) /\ IsInjective(delayed')
        /\ ToSet(delayed') = ToSet(delayed) \cup {s}
      /\ Len(delayed') = Len(delayed) + 1 /\ Len(delayed) \in Nat
  BY <1>1, <1>4, <1>5, AppendStarts DEF ShapeInv
<1>7. /\ apc' \in [Thread -> PC]
      /\ \A u \in Thread : \/ apc'[u] = apc[u]
                           \/ apc'[u] \in {"pop", "emergency"}
                             /\ apc[u] \in {"none", "wait", "idle"}
  <2>1. t \in Thread /\ UnmapTask \in Thread /\ apc \in [Thread -> PC] /\ apc[t] = "idle"
    BY <1>1 DEF Thread, ShapeInv, ChunkFree
  <2>2. {"pop", "emergency"} \subseteq PC
    BY DEF PC
  <2>3. CASE expired = 0
    BY <2>1, <2>3 DEF ChunkFree
  <2>4. CASE expired # 0 /\ apc[UnmapTask] = "none"
    <3>1. Move(UnmapTask, "pop") \/ Move(t, "emergency")
      BY <2>4 DEF ChunkFree
    <3>2. CASE Move(UnmapTask, "pop")
      BY <2>1, <2>2, <2>4, <3>2 DEF Move
    <3>3. CASE Move(t, "emergency")
      BY <2>1, <2>2, <3>3 DEF Move
    <3> QED BY <3>1, <3>2, <3>3
  <2>5. CASE expired # 0 /\ apc[UnmapTask] # "none"
    <3>1. apc' = [apc EXCEPT ![UnmapTask] = IF @ = "wait" THEN "pop" ELSE @]
      BY <2>5 DEF ChunkFree
    <3>2. CASE apc[UnmapTask] = "wait"
      BY <2>1, <2>2, <3>1, <3>2
    <3>3. CASE apc[UnmapTask] # "wait"
      BY <2>1, <3>1, <3>3
    <3> QED BY <3>2, <3>3
  <2> QED BY <2>3, <2>4, <2>5
<1>8. /\ DOMAIN held' = DOMAIN held \ {s}
      /\ \A x \in DOMAIN held' : held'[x] = held[x]
  BY <1>4
<1>9. ShapeInv'
  BY <1>1, <1>2, <1>6, <1>7, <1>8 DEF ShapeInv
<1>10. HandsInv'
  <2>1. \A u \in Thread : apc'[u] \in Carrying <=> aop'[u].chunk # None
    BY <1>1, <1>2, <1>7 DEF HandsInv, Carrying
  <2>2. \A u, v \in Thread : aop'[u].chunk = aop'[v].chunk /\ aop'[u].chunk # None => u = v
    BY <1>1, <1>2 DEF HandsInv
  <2>3. Hands' = Hands
    BY <1>2 DEF Hands
  <2>4. \A x \in Hands' : Used(chunks, x)' /\ x \notin DOMAIN held' /\ x \notin ToSet(delayed')
    BY <1>1, <1>3, <1>5, <1>6, <1>8, <2>3 DEF HandsInv
  <2>5. \A u \in Thread : apc'[u] \in {"reuse", "find"}
          => <<aop'[u].size, aop'[u].align>> \in Requests
    BY <1>1, <1>2, <1>7 DEF HandsInv
  <2>6. \A u \in Thread : apc'[u] = "commit" =>
          chunks'[aop'[u].chunk].size = aop'[u].size /\ Aligned(aop'[u].chunk, aop'[u].align)
    BY <1>1, <1>2, <1>7 DEF HandsInv
  <2> QED BY <2>1, <2>2, <2>4, <2>5, <2>6 DEF HandsInv, ToSet
<1>11. HeldInv'
  <2>1. ASSUME NEW x \in DOMAIN held'
        PROVE  /\ Used(chunks, x)' /\ chunks'[x].size = held'[x][1] /\ Aligned(x, held'[x][2])
               /\ Backed(x)' /\ x \notin ToSet(delayed')
    <3>1. x \in DOMAIN held /\ x # s /\ held'[x] = held[x]
      BY <1>8
    <3>2. Backed(x)'
      BY <1>1, <1>2, <3>1 DEF HeldInv, Backed, Units
    <3> QED BY <1>1, <1>2, <1>3, <1>6, <3>1, <3>2 DEF HeldInv
  <2> QED BY <2>1 DEF HeldInv, ToSet, Aligned
<1>12. DelayedInv'
  <2>1. ASSUME NEW x \in ToSet(delayed')
        PROVE  Used(chunks, x)' /\ Backed(x)'
    <3>1. Used(chunks, x) /\ Backed(x)
      BY <1>1, <1>5, <1>6 DEF DelayedInv
    <3> QED BY <1>2, <1>3, <3>1 DEF Backed, Units
  <2> QED BY <2>1 DEF DelayedInv, ToSet
<1> QED BY <1>3, <1>9, <1>10, <1>11, <1>12 DEF ChunkInv

-----------------------------------------------------------------------------
(* The invariant holds at the start,                                       *)
LEMMA ChunkStarts ==
  ASSUME ArenaValid, Init
  PROVE  ChunkInv
<1>1. MaxClass \in Nat /\ ArenaSize \in Nat \ {0} /\ 0 \in Addr
  <2>1. ArenaSize \in 1 .. ArenaSize
    BY DEF ArenaValid
  <2>2. MaxClass \in 0 .. MaxClass
    BY <2>1 DEF ArenaValid, MaxClass
  <2> QED BY <2>2 DEF ArenaValid, Addr
<1>2. /\ DOMAIN chunks = {0} /\ chunks[0].size = ArenaSize /\ ~chunks[0].used
      /\ End(chunks, 0) = ArenaSize /\ \A s : ~Used(chunks, s)
  BY <1>1 DEF Init, End, Used
<1>3. chunks \in ChunkMap
  <2>1. chunks \in [{0} -> ChunkRec]
    BY <1>1 DEF Init, ChunkRec
  <2> QED BY <1>1, <2>1, IsMap
<1>4. sizeList \in ListMap
  BY <1>1 DEF Init, ListMap
<1>5. Tiles(chunks) /\ Joins(chunks, {})
  <2>1. Tiles(chunks)
    BY <1>1, <1>2 DEF Tiles, Addr
  <2> QED BY <1>1, <1>2, <2>1 DEF Joins
<1>6. Lists(chunks, sizeList, {})
  <2>1. ASSUME NEW k \in 0 .. MaxClass
        PROVE  /\ IsInjective(sizeList[k])
               /\ ToSet(sizeList[k]) = {s \in DOMAIN chunks : ~chunks[s].used
                                                 /\ ClassSmaller(chunks[s].size) = k} \ {}
    <3>1. CASE k = MaxClass
      <4>1. sizeList[k] = <<0>>
        BY <3>1 DEF Init
      <4>2. IsInjective(sizeList[k]) /\ ToSet(sizeList[k]) = {0}
        BY <4>1 DEF IsInjective, ToSet
      <4> QED BY <1>2, <3>1, <4>2 DEF MaxClass
    <3>2. CASE k # MaxClass
      <4>1. sizeList[k] = <<>>
        BY <3>2 DEF Init
      <4>2. IsInjective(sizeList[k]) /\ ToSet(sizeList[k]) = {}
        BY <4>1 DEF IsInjective, ToSet
      <4> QED BY <1>2, <3>2, <4>2 DEF MaxClass
    <3> QED BY <3>1, <3>2
  <2> QED BY <2>1 DEF Lists
<1>7. Sound(Arena, {})
  BY <1>3, <1>4, <1>5, <1>6 DEF Sound, ArenaType, Arena
<1>8. NoOp \in Op /\ NoOp.chunk = None
  BY NoneIs
<1>9. ShapeInv
  <2>1. apc \in [Thread -> PC] /\ aop \in [Thread -> Op]
    BY <1>8 DEF Init, Thread, PC
  <2>2. delayed \in Seq(Addr) /\ IsInjective(delayed) /\ expired \in 0 .. Len(delayed)
    BY DEF Init, IsInjective
  <2>3. DOMAIN held \subseteq Addr
    BY DEF Init
  <2> QED BY <2>1, <2>2, <2>3 DEF ShapeInv
<1>10. \A t \in Thread : aop[t].chunk = None /\ apc[t] \in {"none", "idle"}
  BY <1>8 DEF Init, Thread
<1>11. HandsInv
  BY <1>10 DEF HandsInv, Hands, Carrying
<1>12. HeldInv /\ DelayedInv
  BY DEF Init, HeldInv, DelayedInv, ToSet
<1> QED BY <1>7, <1>9, <1>11, <1>12 DEF ChunkInv

(* and every step keeps it.                                                *)
LEMMA ChunkStep ==
  ASSUME ArenaValid, ChunkInv, [Next]_vars
  PROVE  ChunkInv'
<1>1. CASE UNCHANGED vars
  <2>1. Sound(Arena, {})'
    BY <1>1, ArenaStays DEF ChunkInv, vars
  <2>2. (ShapeInv /\ HandsInv /\ HeldInv /\ DelayedInv)'
    BY <1>1 DEF ChunkInv, vars, ShapeInv, HandsInv, HeldInv, DelayedInv, Used, Hands, Backed,
           Units, Aligned, ToSet, IsInjective
  <2> QED BY <2>1, <2>2 DEF ChunkInv
<1>2. CASE \E t \in Allocators : New(t) \/ Reuse(t) \/ Find(t) \/ Commit(t) \/ Emergency(t)
             \/ ChunkFree(t)
  BY <1>2, NewKeeps, ReuseKeeps, FindKeeps, CommitKeeps, EmergencyKeeps, ChunkFreeKeeps
<1>3. CASE \E t \in Allocators \cup {UnmapTask} : Decommit(t) \/ Insert(t)
  BY <1>3, DecommitKeeps, InsertKeeps DEF Thread
<1>4. CASE Expire \/ PopWait
  BY <1>4, ExpireKeeps, PopWaitKeeps
<1> QED BY <1>1, <1>2, <1>3, <1>4 DEF Next

(* What the invariant says of the arena and of what the program holds.     *)
LEMMA ChunkMeans ==
  ASSUME ArenaValid, ChunkInv
  PROVE  ArenaSound /\ HeldUsable
<1>1. chunks \in ChunkMap /\ Tiles(chunks) /\ Joins(chunks, {}) /\ Lists(chunks, sizeList, {})
  BY DEF ChunkInv, Sound, ArenaType, Arena
<1>2. /\ DOMAIN sizeList = 0 .. MaxClass
      /\ \A s \in DOMAIN chunks : /\ s \in Nat /\ chunks[s].size \in Nat
                                  /\ chunks[s].used \in BOOLEAN
  BY <1>1, MapIs, ArenaValid DEF ChunkInv, Sound, ArenaType, Arena, ListMap, ArenaValid
<1>3. Tiled
  <2> SUFFICES ASSUME NEW u \in 0 .. ArenaSize - 1
               PROVE  \E s \in DOMAIN chunks :
                        /\ u \in Units(s, chunks[s].size)
                        /\ \A r \in DOMAIN chunks \ {s} : u \notin Units(r, chunks[r].size)
    BY DEF Tiled
  <2>1. PICK s \in DOMAIN chunks : s <= u /\ u < End(chunks, s)
    BY <1>1 DEF Tiles, Addr
  <2>2. u \in Nat
    BY DEF ArenaValid
  <2>3. u \in Units(s, chunks[s].size)
    BY <1>2, <2>1, <2>2 DEF Units, End
  <2>4. ASSUME NEW r \in DOMAIN chunks \ {s}
        PROVE  u \notin Units(r, chunks[r].size)
    <3>1. End(chunks, r) <= s \/ End(chunks, s) <= r
      BY <1>1, Apart
    <3> QED BY <1>2, <2>1, <2>2, <3>1 DEF Units, End
  <2> QED BY <2>3, <2>4
<1>4. Joined
  BY <1>1, <1>2 DEF Joined, Joins, Free, End
<1>5. Sorted
  <2> SUFFICES ASSUME NEW k \in DOMAIN sizeList
               PROVE  /\ ToSet(sizeList[k]) = {s \in DOMAIN chunks : /\ Free(chunks[s])
                                                           /\ ClassSmaller(chunks[s].size) = k}
                      /\ IsInjective(sizeList[k])
    BY DEF Sorted
  <2>1. ToSet(sizeList[k]) = {s \in DOMAIN chunks : ~chunks[s].used
                                          /\ ClassSmaller(chunks[s].size) = k} \ {}
    BY <1>1, <1>2 DEF Lists
  <2>2. IsInjective(sizeList[k])
    BY <1>1, <1>2 DEF Lists
  <2> QED BY <2>1, <2>2 DEF Free
<1>6. HeldUsable
  <2> SUFFICES ASSUME NEW s \in DOMAIN held
               PROVE  /\ s \in DOMAIN chunks /\ chunks[s].used
                      /\ chunks[s].size = held[s][1] /\ Aligned(s, held[s][2])
                      /\ Units(s, chunks[s].size) \subseteq committed
                      /\ s \notin ToSet(delayed) /\ \A t \in DOMAIN aop : aop[t].chunk # s
    BY DEF HeldUsable
  <2>1. /\ Used(chunks, s) /\ chunks[s].size = held[s][1] /\ Aligned(s, held[s][2])
        /\ Backed(s) /\ s \notin ToSet(delayed)
    BY DEF ChunkInv, HeldInv
  <2>2. s \in Addr /\ s \notin Hands /\ DOMAIN aop = Thread
    BY DEF ChunkInv, HandsInv, ShapeInv
  <2>3. \A t \in DOMAIN aop : aop[t].chunk # s
    BY <2>2, NoneIs DEF Hands
  <2> QED BY <2>1, <2>3 DEF Used, Backed
<1> QED BY <1>3, <1>4, <1>5, <1>6 DEF ArenaSound

-----------------------------------------------------------------------------
(* Committed memory has an owner: it belongs to a used chunk, and not to   *)
(* one that is still to be committed or already decommitted.               *)
Bare(s) == \E t \in Thread : aop[t].chunk = s /\ apc[t] \in {"commit", "insert"}
Owns(s, u) == Used(chunks, s) /\ u \in Units(s, chunks[s].size) /\ ~Bare(s)
OwnedInv == \A u \in committed : \E s \in Addr : Owns(s, u)

ArenaInv == ChunkInv /\ OwnedInv

(* It keeps its owner if no other chunk becomes bare and no used one is    *)
(* changed.                                                                *)
LEMMA OwnedStays ==
  ASSUME OwnedInv, committed' \subseteq committed,
         \A s \in Addr : Used(chunks, s) /\ ~Bare(s) =>
           Used(chunks, s)' /\ chunks'[s] = chunks[s] /\ ~Bare(s)'
  PROVE  OwnedInv'
<1> SUFFICES ASSUME NEW u \in committed'
             PROVE  \E s \in Addr : Owns(s, u)'
  BY DEF OwnedInv
<1>1. PICK s \in Addr : Owns(s, u)
  BY DEF OwnedInv
<1>2. Owns(s, u)'
  BY <1>1 DEF Owns, Units
<1> QED BY <1>2

(* In particular when a thread does not touch the arena and does not come  *)
(* to have a bare chunk.                                                   *)
LEMMA OwnedAway ==
  ASSUME OwnedInv, UNCHANGED <<chunks, committed>>, NEW t \in Thread, NEW l \in PC, MovedTo(t, l),
         l \notin {"commit", "insert"}, \A v \in Thread : v # t => aop'[v] = aop[v]
  PROVE  OwnedInv'
<1>1. ASSUME NEW s \in Addr, ~Bare(s)
      PROVE  ~Bare(s)'
  BY <1>1 DEF Bare, MovedTo
<1>2. \A s : Used(chunks, s)' <=> Used(chunks, s)
  BY DEF Used
<1> QED BY <1>1, <1>2, OwnedStays

(* The steps of a thread that allocates, apart from Find and Commit.       *)
LEMMA AwayOwned ==
  ASSUME ArenaValid, ChunkInv, OwnedInv, NEW t \in Allocators,
         New(t) \/ Reuse(t) \/ Emergency(t)
  PROVE  OwnedInv'
<1>1. ShapeInv /\ t \in Thread
  BY DEF ChunkInv, Thread
<1>2. PICK l \in {"reuse", "find", "idle", "decommit"} : Move(t, l)
  BY DEF New, Reuse, Emergency, Give
<1>3. MovedTo(t, l) /\ l \in PC
  BY <1>1, <1>2, Moves DEF PC, Carrying
<1>4. UNCHANGED <<chunks, committed>>
  BY DEF New, Reuse, Emergency
<1>5. \A v \in Thread : v # t => aop'[v] = aop[v]
  BY <1>1 DEF New, Reuse, Emergency, Give, Hand, ShapeInv
<1> QED BY <1>1, <1>3, <1>4, <1>5, OwnedAway

(* A chunk is found: it was free, and others keep what they have.          *)
LEMMA FindOwned ==
  ASSUME ArenaValid, ChunkInv, OwnedInv, NEW t \in Allocators, Find(t)
  PROVE  OwnedInv'
<1>1. ShapeInv /\ t \in Thread /\ committed' = committed
  BY FindFinds DEF ChunkInv
<1>2. ASSUME Move(t, "emergency"), UNCHANGED <<chunks, sizeList, aop>>
      PROVE  OwnedInv'
  <2>1. "emergency" \in PC
    BY DEF PC
  <2>2. MovedTo(t, "emergency")
    BY <1>1, <1>2, <2>1, Moves
  <2> QED BY <1>1, <1>2, <2>1, <2>2, OwnedAway
<1>3. ASSUME NEW s \in Addr, NEW a \in [c : ChunkMap, l : ListMap], FoundAs(t, s, a)
      PROVE  OwnedInv'
  <2>1. MovedTo(t, "commit") /\ HandedTo(t, s)
    BY <1>1, <1>3, Moves, HandsChange DEF FoundAs, PC, Carrying
  <2>2. chunks' = a.c
    BY <1>3 DEF FoundAs, Become
  <2>3. ASSUME NEW x \in Addr, Used(chunks, x), ~Bare(x)
        PROVE  Used(chunks, x)' /\ chunks'[x] = chunks[x] /\ ~Bare(x)'
    <3>1. x # s
      BY <1>3, <2>3 DEF FoundAs
    <3>2. Used(a.c, x) /\ a.c[x] = chunks[x]
      BY <1>3, <2>3, <3>1 DEF FoundAs
    <3>3. ~Bare(x)'
      BY <2>1, <2>3, <3>1 DEF Bare, MovedTo, HandedTo
    <3> QED BY <2>2, <3>2, <3>3 DEF Used
  <2> QED BY <1>1, <2>3, OwnedStays
<1> QED BY <1>2, <1>3, FindFinds

(* A bare chunk becomes free.                                              *)
LEMMA ReturnOwned ==
  ASSUME ArenaValid, ChunkInv, OwnedInv, NEW t \in Thread, aop[t].chunk # None,
         apc[t] \in {"commit", "insert"}, NEW l \in {"pop", "emergency"},
         Become(InsertFree(Arena, aop[t].chunk)), Hand(t, None), Move(t, l), UNCHANGED committed
  PROVE  OwnedInv'
<1>1. ShapeInv /\ HandsInv /\ Sound(Arena, {}) /\ Arena.c = chunks
  BY DEF ChunkInv, Arena
<1>2. PICK s \in Addr : s = aop[t].chunk
  BY <1>1 DEF ShapeInv, Op
<1>3. Used(chunks, s)
  BY <1>1, <1>2 DEF HandsInv, Hands
<1>4. Keeps(chunks, chunks', {s})
  BY <1>1, <1>2, <1>3, Inserted DEF Used, Become
<1>5. MovedTo(t, l) /\ HandedTo(t, None)
  BY <1>1, Moves, HandsChange DEF PC
<1>6. Bare(s)
  BY <1>2 DEF Bare
<1>7. ASSUME NEW x \in Addr, Used(chunks, x), ~Bare(x)
      PROVE  Used(chunks, x)' /\ chunks'[x] = chunks[x] /\ ~Bare(x)'
  <2>1. Used(chunks', x) /\ chunks'[x] = chunks[x]
    BY <1>4, <1>6, <1>7 DEF Keeps
  <2>2. ~Bare(x)'
    BY <1>5, <1>7 DEF Bare, MovedTo, HandedTo
  <2> QED BY <2>1, <2>2 DEF Used
<1> QED BY <1>7, OwnedStays

(* Memory is committed: it belongs to the chunk that is given to the       *)
(* program.                                                                *)
LEMMA CommitOwned ==
  ASSUME ArenaValid, ChunkInv, OwnedInv, NEW t \in Allocators, Commit(t)
  PROVE  OwnedInv'
<1>1. ShapeInv /\ HandsInv
  BY DEF ChunkInv
<1>2. t \in Thread /\ apc[t] = "commit" /\ aop[t].chunk # None /\ aop[t].chunk \in Addr
  BY <1>1 DEF Commit, Thread, HandsInv, Carrying, ShapeInv, Op
<1>3. PICK s \in Addr : s = aop[t].chunk
  BY <1>2
<1>4. ASSUME committed' = committed \cup Units(s, chunks[s].size), Give(t, s),
             UNCHANGED <<chunks, sizeList>>
      PROVE  OwnedInv'
  <2>1. "idle" \in PC /\ NoOp \in Op /\ NoOp.chunk = None
    BY NoneIs DEF PC
  <2>2. MovedTo(t, "idle") /\ OpBecomes(t, NoOp)
    BY <1>1, <1>2, <1>4, <2>1, Moves, OpChanges DEF Give
  <2>3. \A x : Bare(x)' => Bare(x)
    BY <2>2 DEF Bare, MovedTo, OpBecomes
  <2>4. ~Bare(s)'
    <3>1. \A v \in Thread : v # t => aop[v].chunk # s
      BY <1>1, <1>2, <1>3 DEF HandsInv
    <3> QED BY <2>2, <3>1 DEF Bare, MovedTo, OpBecomes
  <2>5. Used(chunks, s)' /\ \A x : Used(chunks, x) => Used(chunks, x)'
    BY <1>1, <1>2, <1>3, <1>4 DEF HandsInv, Hands, Used
  <2>6. ASSUME NEW u \in committed'
        PROVE  \E x \in Addr : Owns(x, u)'
    <3>1. CASE u \in committed
      <4>1. PICK x \in Addr : Owns(x, u)
        BY <3>1 DEF OwnedInv
      <4>2. Owns(x, u)'
        BY <1>4, <2>3, <2>5, <4>1 DEF Owns, Units
      <4> QED BY <4>2
    <3>2. CASE u \in Units(s, chunks[s].size)
      <4>1. Owns(s, u)'
        BY <1>4, <2>4, <2>5, <3>2 DEF Owns, Units
      <4> QED BY <4>1
    <3> QED BY <1>4, <2>6, <3>1, <3>2
  <2> QED BY <2>6 DEF OwnedInv
<1>5. ASSUME Become(InsertFree(Arena, s)), Hand(t, None), Move(t, "emergency"), UNCHANGED committed
      PROVE  OwnedInv'
  BY <1>2, <1>3, <1>5, ReturnOwned
<1> QED BY <1>3, <1>4, <1>5 DEF Commit

(* Memory is decommitted: what is left belongs to other chunks.            *)
LEMMA DecommitOwned ==
  ASSUME ArenaValid, ChunkInv, OwnedInv, NEW t \in Thread, Decommit(t)
  PROVE  OwnedInv'
<1>1. ShapeInv
  BY DEF ChunkInv
<1>2. MovedTo(t, "insert") /\ aop' = aop /\ chunks' = chunks
  BY <1>1, Moves DEF Decommit, PC, Carrying
<1>3. committed' = committed \ Units(aop[t].chunk, chunks[aop[t].chunk].size)
  BY DEF Decommit
<1>4. ASSUME NEW u \in committed'
      PROVE  \E s \in Addr : Owns(s, u)'
  <2>1. PICK s \in Addr : Owns(s, u)
    BY <1>3, <1>4 DEF OwnedInv
  <2>2. s # aop[t].chunk
    BY <1>3, <1>4, <2>1 DEF Owns
  <2>3. ~Bare(s)'
    BY <1>2, <2>1, <2>2 DEF Owns, Bare, MovedTo
  <2>4. Owns(s, u)'
    BY <1>2, <2>1, <2>3 DEF Owns, Used, Units
  <2> QED BY <2>4
<1> QED BY <1>4 DEF OwnedInv

(* The steps that only change lists of chunks.                             *)
LEMMA ListsOwned ==
  ASSUME ArenaValid, ChunkInv, OwnedInv,
         (\E t \in Allocators : ChunkFree(t)) \/ Expire \/ PopWait \/ UNCHANGED vars
  PROVE  OwnedInv'
<1>1. ShapeInv /\ UNCHANGED <<chunks, committed>>
  BY DEF ChunkInv, ChunkFree, Expire, PopWait, vars
<1>2. ASSUME NEW t \in Thread
      PROVE  apc'[t] \in {"commit", "insert"} => apc[t] = apc'[t] /\ aop[t] = aop'[t]
  BY <1>1, <1>2 DEF ShapeInv, Thread, ChunkFree, Expire, PopWait, vars, Move, Hand
<1>3. ASSUME NEW s \in Addr, ~Bare(s)
      PROVE  ~Bare(s)'
  BY <1>2, <1>3 DEF Bare
<1>4. \A s : Used(chunks, s) => Used(chunks, s)'
  BY <1>1 DEF Used
<1> QED BY <1>1, <1>3, <1>4, OwnedStays

(* Both together hold at the start,                                        *)
LEMMA ArenaStarts ==
  ASSUME ArenaValid, Init
  PROVE  ArenaInv
<1>1. OwnedInv
  BY DEF Init, OwnedInv
<1> QED BY <1>1, ChunkStarts DEF ArenaInv

(* and every step keeps them.                                              *)
LEMMA ArenaStep ==
  ASSUME ArenaValid, ArenaInv, [Next]_vars
  PROVE  ArenaInv'
<1>1. ChunkInv /\ OwnedInv
  BY DEF ArenaInv
<1>2. ChunkInv'
  BY <1>1, ChunkStep
<1>3. ASSUME NEW t \in Allocators, New(t) \/ Reuse(t) \/ Emergency(t) \/ Find(t) \/ Commit(t)
      PROVE  OwnedInv'
  BY <1>1, <1>3, AwayOwned, FindOwned, CommitOwned
<1>4. ASSUME NEW t \in Thread, Decommit(t) \/ Insert(t)
      PROVE  OwnedInv'
  <2>1. CASE Decommit(t)
    BY <1>1, <2>1, DecommitOwned
  <2>2. CASE Insert(t)
    <3>1. apc[t] = "insert" /\ aop[t].chunk # None
      BY <1>1, <2>2 DEF ChunkInv, HandsInv, Insert, Carrying
    <3>2. PICK l \in {"pop", "emergency"} : l = IF t = UnmapTask THEN "pop" ELSE "emergency"
      OBVIOUS
    <3> QED BY <1>1, <2>2, <3>1, <3>2, ReturnOwned DEF Insert
  <2> QED BY <1>4, <2>1, <2>2
<1>5. ASSUME (\E t \in Allocators : ChunkFree(t)) \/ Expire \/ PopWait \/ UNCHANGED vars
      PROVE  OwnedInv'
  BY <1>1, <1>5, ListsOwned
<1> QED BY <1>2, <1>3, <1>4, <1>5 DEF Next, ArenaInv, Thread

(* They also say that nothing is committed to a free chunk.                *)
LEMMA ArenaMeans ==
  ASSUME ArenaValid, ArenaInv
  PROVE  ArenaSound /\ HeldUsable /\ NoLeak
<1>1. chunks \in ChunkMap /\ Tiles(chunks)
  BY DEF ArenaInv, ChunkInv, Sound, ArenaType, Arena
<1>2. ASSUME NEW s \in DOMAIN chunks, Free(chunks[s]), NEW u \in committed,
             u \in Units(s, chunks[s].size)
      PROVE  FALSE
  <2>1. PICK r \in Addr : Owns(r, u)
    BY DEF ArenaInv, OwnedInv
  <2>2. r \in DOMAIN chunks /\ r # s
    BY <1>2, <2>1 DEF Owns, Used, Free
  <2>3. End(chunks, r) <= s \/ End(chunks, s) <= r
    BY <1>1, <2>2, Apart
  <2>4. /\ s \in Nat /\ chunks[s].size \in Nat /\ r \in Nat /\ chunks[r].size \in Nat
        /\ u \in Units(r, chunks[r].size)
    BY <1>1, <2>1, <2>2, MapIs DEF Owns, ArenaValid
  <2> QED BY <1>2, <2>3, <2>4 DEF Units, End
<1>3. NoLeak
  BY <1>2 DEF NoLeak
<1> QED BY <1>3, ChunkMeans DEF ArenaInv

(* However threads allocate, split, free and reuse chunks while the unmap  *)
(* task and others unmap them, the chunks tile the arena, free neighbours  *)
(* are joined, the lists of the size classes have the free chunks, and     *)
(* what the program holds has the size and the alignment it asked for and  *)
(* memory that is nobody else's; free chunks have none.                    *)
THEOREM ArenaIsSound ==
  ASSUME ArenaValid
  PROVE  Spec => [](ArenaSound /\ HeldUsable /\ NoLeak)
<1>1. Init => ArenaInv
  BY ArenaStarts
<1>2. ArenaInv /\ [Next]_vars => ArenaInv'
  BY ArenaStep
<1>3. ArenaInv => ArenaSound /\ HeldUsable /\ NoLeak
  BY ArenaMeans
<1> QED BY <1>1, <1>2, <1>3, PTL DEF Spec

-----------------------------------------------------------------------------
(* Addresses of malloc, and the shape of its heap.                         *)
MAddr == Nat \X Nat
PoolRec == [free : Seq(MAddr), chunk : Nat, next : Nat, end : Nat]
BlockRec == [size : BlockSizes, large : BOOLEAN]
ChunkSpans == UNION {[D -> Nat] : D \in SUBSET MallocChunks}
BlockMap == UNION {[D -> BlockRec] : D \in SUBSET MAddr}
HeapShape(h) == h \in [pool : [M!Pools -> PoolRec], chunk : ChunkSpans, block : BlockMap]

(* A claim is an owner, the start and the length of a piece of a chunk:    *)
(* that of a block, of an object of a free list, or of the rest of a pool. *)
Extent(h, m) == IF h.block[m].large THEN h.chunk[m[1]] ELSE M!Object(M!GetPool(h.block[m].size))
BlockClaim(h, m) == <<"block", 0, m, Extent(h, m)>>
FreeClaim(k, m) == <<"free", k, m, M!Object(k)>>
RestClaim(p, k) == <<"rest", k, <<p.chunk, p.next>>, p.end - p.next>>
BlockClaims(h) == {BlockClaim(h, m) : m \in DOMAIN h.block}
FreeClaims(h) == UNION {{FreeClaim(k, m) : m \in M!ToSet(h.pool[k].free)} : k \in M!Pools}
RestClaims(h) ==
  {RestClaim(h.pool[k], k) : k \in {j \in M!Pools : h.pool[j].next < h.pool[j].end}}
Claims(h) == BlockClaims(h) \cup FreeClaims(h) \cup RestClaims(h)

AreApart(x, y) == x[3][1] # y[3][1] \/ x[3][2] + x[4] <= y[3][2] \/ y[3][2] + y[4] <= x[3][2]
Disjoint(S) == \A x, y \in S : x # y => AreApart(x, y)
IsClaim(x) == x[3] \in MAddr /\ x[4] \in Nat \ {0}
Inside(S, c) == \A x \in S : IsClaim(x) /\ x[3][1] \in DOMAIN c /\ x[3][2] + x[4] <= c[x[3][1]]
Tidy(S, c) == Disjoint(S) /\ Inside(S, c)

(* A block fits into what it is, and its size tells its pool.              *)
BlockFits(h, m) ==
  /\ M!Header + h.block[m].size <= Extent(h, m)
  /\ h.block[m].large => m[2] = 0
  /\ ~h.block[m].large => M!GetPool(h.block[m].size) \in M!Pools

WellKept(h) ==
  /\ HeapShape(h) /\ Tidy(Claims(h), h.chunk)
  /\ \A m \in DOMAIN h.block : BlockFits(h, m)
  /\ \A k \in M!Pools : M!IsInjective(h.pool[k].free)

-----------------------------------------------------------------------------
(* The claims of a heap, one by one.                                       *)
LEMMA ClaimIs ==
  ASSUME NEW h, NEW x
  PROVE  x \in Claims(h) <=> \/ \E m \in DOMAIN h.block : x = BlockClaim(h, m)
                             \/ \E k \in M!Pools : \E m \in M!ToSet(h.pool[k].free) :
                               x = FreeClaim(k, m)
                             \/ \E k \in M!Pools : h.pool[k].next < h.pool[k].end
                               /\ x = RestClaim(h.pool[k], k)
<1>1. x \in BlockClaims(h) <=> \E m \in DOMAIN h.block : x = BlockClaim(h, m)
  BY DEF BlockClaims
<1>2. x \in FreeClaims(h) <=> \E k \in M!Pools : \E m \in M!ToSet(h.pool[k].free) :
        x = FreeClaim(k, m)
  <2>1. x \in FreeClaims(h)
          <=> \E k \in M!Pools : x \in {FreeClaim(k, m) : m \in M!ToSet(h.pool[k].free)}
    BY DEF FreeClaims
  <2> QED BY <2>1
<1>3. x \in RestClaims(h)
        <=> \E k \in M!Pools : h.pool[k].next < h.pool[k].end /\ x = RestClaim(h.pool[k], k)
  BY DEF RestClaims
<1> QED BY <1>1, <1>2, <1>3 DEF Claims

(* A claim is replaced by claims within it.                                *)
Within(y, x) == /\ IsClaim(y) /\ y[3][1] = x[3][1] /\ x[3][2] <= y[3][2]
                /\ y[3][2] + y[4] <= x[3][2] + x[4]

(* It keeps a tidy set of claims tidy.                                     *)
LEMMA Replaced ==
  ASSUME NEW S, NEW c, Tidy(S, c), c \in ChunkSpans, NEW x \in S, NEW y, NEW z,
         Within(y, x), Within(z, x), y # z => AreApart(y, z),
         NEW T, T \subseteq (S \ {x}) \cup {y, z}
  PROVE  Tidy(T, c)
<1>1. \A v \in S : IsClaim(v) /\ v[3][1] \in DOMAIN c /\ v[3][2] + v[4] <= c[v[3][1]]
  BY DEF Inside, Tidy
<1>2. \A v \in S : v[3][2] \in Nat /\ v[4] \in Nat /\ c[v[3][1]] \in Nat
  <2>1. \A d \in DOMAIN c : c[d] \in Nat
    BY DEF ChunkSpans
  <2> QED BY <1>1, <2>1 DEF IsClaim, MAddr
<1>3. y[3][2] \in Nat /\ y[4] \in Nat /\ z[3][2] \in Nat /\ z[4] \in Nat
  BY DEF Within, IsClaim, MAddr
<1>4. Inside(T, c)
  BY <1>1, <1>2, <1>3 DEF Inside, Within
<1>5. \A v \in S : v # x => AreApart(v, y) /\ AreApart(y, v) /\ AreApart(v, z) /\ AreApart(z, v)
  <2> SUFFICES ASSUME NEW v \in S, v # x
               PROVE  AreApart(v, y) /\ AreApart(y, v) /\ AreApart(v, z) /\ AreApart(z, v)
    OBVIOUS
  <2>1. AreApart(v, x) /\ IsClaim(x)
    BY <1>1 DEF Disjoint, Tidy
  <2> QED BY <1>2, <1>3, <2>1 DEF AreApart, Within
<1>6. Disjoint(T)
  BY <1>5 DEF Disjoint, AreApart, Tidy
<1> QED BY <1>4, <1>6 DEF Tidy

(* A new chunk is claimed.                                                 *)
LEMMA Added ==
  ASSUME NEW S, NEW c, Tidy(S, c), NEW d, d \notin DOMAIN c, NEW y, IsClaim(y),
         y[3][1] = d, NEW T, T \subseteq S \cup {y}, NEW b, y[3][2] + y[4] <= b
  PROVE  Tidy(T, M!With(c, d, b))
<1>1. \A x \in S : AreApart(x, y) /\ AreApart(y, x)
  BY DEF Inside, AreApart, Tidy
<1>2. Disjoint(T)
  BY <1>1 DEF Disjoint, Tidy
<1>3. /\ DOMAIN M!With(c, d, b) = DOMAIN c \cup {d} /\ M!With(c, d, b)[d] = b
      /\ \A v \in DOMAIN c : M!With(c, d, b)[v] = c[v]
  BY DEF M!With
<1>4. Inside(T, M!With(c, d, b))
  BY <1>3 DEF Inside, Tidy
<1> QED BY <1>2, <1>4 DEF Tidy

-----------------------------------------------------------------------------
(* A part of a heap changes.                                               *)
PoolIs(h, k, p, g) ==
  /\ HeapShape(g) /\ g.chunk = h.chunk /\ g.block = h.block /\ g.pool[k] = p
  /\ \A j \in M!Pools : j # k => g.pool[j] = h.pool[j]

(* A pool changes,                                                         *)
LEMMA PoolChanges ==
  ASSUME NEW h, HeapShape(h), NEW k \in M!Pools, NEW p \in PoolRec, NEW g, g = M!WithPool(h, k, p)
  PROVE  PoolIs(h, k, p, g)
<1> DEFINE q == [h.pool EXCEPT ![k] = p]
<1>1. g = [h EXCEPT !.pool = q]
  BY DEF M!WithPool, HeapShape
<1>2. q \in [M!Pools -> PoolRec] /\ q[k] = p /\ \A j \in M!Pools : j # k => q[j] = h.pool[j]
  BY DEF HeapShape
<1> HIDE DEF q
<1>3. g \in [pool : [M!Pools -> PoolRec], chunk : ChunkSpans, block : BlockMap]
      /\ g.pool = q /\ g.chunk = h.chunk /\ g.block = h.block
  BY <1>1, <1>2 DEF HeapShape
<1> QED BY <1>2, <1>3 DEF PoolIs, HeapShape

ChunkIs(h, c, b, g) ==
  /\ HeapShape(g) /\ g.pool = h.pool /\ g.block = h.block
  /\ g.chunk = M!With(h.chunk, c, b) /\ DOMAIN g.chunk = DOMAIN h.chunk \cup {c} /\ g.chunk[c] = b
  /\ \A d \in DOMAIN h.chunk : d # c => g.chunk[d] = h.chunk[d]

(* a chunk is added,                                                       *)
LEMMA ChunkChanges ==
  ASSUME NEW h, HeapShape(h), NEW c \in MallocChunks, NEW b \in Nat, NEW g, g = M!WithChunk(h, c, b)
  PROVE  ChunkIs(h, c, b, g)
<1> DEFINE q == M!With(h.chunk, c, b)
<1>1. g = [h EXCEPT !.chunk = q]
  BY DEF M!WithChunk, HeapShape
<1>2. PICK D \in SUBSET MallocChunks : h.chunk \in [D -> Nat]
  BY DEF HeapShape, ChunkSpans
<1>3. /\ q \in [D \cup {c} -> Nat] /\ DOMAIN q = DOMAIN h.chunk \cup {c} /\ q[c] = b
      /\ \A d \in DOMAIN h.chunk : d # c => q[d] = h.chunk[d]
  BY <1>2 DEF M!With
<1>4. q \in ChunkSpans
  <2> HIDE DEF q
  <2> QED BY <1>2, <1>3 DEF ChunkSpans
<1>7. q = M!With(h.chunk, c, b)
  OBVIOUS
<1> HIDE DEF q
<1>5. g \in [pool : [M!Pools -> PoolRec], chunk : ChunkSpans, block : BlockMap]
      /\ g.pool = h.pool /\ g.chunk = q /\ g.block = h.block
  BY <1>1, <1>4 DEF HeapShape
<1> QED BY <1>3, <1>5, <1>7 DEF ChunkIs, HeapShape

BlockIs(h, m, size, large, g) ==
  /\ HeapShape(g) /\ g.pool = h.pool /\ g.chunk = h.chunk
  /\ DOMAIN g.block = DOMAIN h.block \cup {m} /\ g.block[m].size = size
    /\ (g.block[m].large <=> large)
  /\ \A x \in DOMAIN h.block : x # m => g.block[x] = h.block[x]

(* a block is added or gets another size.                                  *)
LEMMA BlockChanges ==
  ASSUME NEW h, HeapShape(h), NEW m \in MAddr, NEW size \in BlockSizes, NEW large \in BOOLEAN,
         NEW g, g = M!WithBlock(h, m, size, large)
  PROVE  BlockIs(h, m, size, large, g)
<1> DEFINE r == [size |-> size, large |-> large]
           q == M!With(h.block, m, r)
<1>1. g = [h EXCEPT !.block = q]
  BY DEF M!WithBlock, HeapShape
<1>2. PICK D \in SUBSET MAddr : h.block \in [D -> BlockRec]
  BY DEF HeapShape, BlockMap
<1>3. r \in BlockRec /\ r.size = size /\ (r.large <=> large)
  BY DEF BlockRec
<1> HIDE DEF r
<1>4. /\ q \in [D \cup {m} -> BlockRec] /\ DOMAIN q = DOMAIN h.block \cup {m} /\ q[m] = r
      /\ \A x \in DOMAIN h.block : x # m => q[x] = h.block[x]
  BY <1>2, <1>3 DEF M!With
<1> HIDE DEF q
<1>5. q \in BlockMap
  BY <1>2, <1>4 DEF BlockMap
<1>6. g \in [pool : [M!Pools -> PoolRec], chunk : ChunkSpans, block : BlockMap]
      /\ g.pool = h.pool /\ g.chunk = h.chunk /\ g.block = q
  BY <1>1, <1>5 DEF HeapShape
<1> QED BY <1>3, <1>4, <1>6 DEF BlockIs, HeapShape

-----------------------------------------------------------------------------
(* What a heap consists of.                                                *)
LEMMA ShapeIs ==
  ASSUME NEW h, HeapShape(h)
  PROVE  /\ DOMAIN h.block \subseteq MAddr /\ DOMAIN h.chunk \subseteq MallocChunks
         /\ \A m \in DOMAIN h.block : h.block[m].size \in BlockSizes /\ h.block[m].large \in BOOLEAN
         /\ \A c \in DOMAIN h.chunk : h.chunk[c] \in Nat
         /\ \A k \in M!Pools : h.pool[k] \in PoolRec
<1>1. PICK D \in SUBSET MAddr : h.block \in [D -> BlockRec]
  BY DEF HeapShape, BlockMap
<1>2. PICK E \in SUBSET MallocChunks : h.chunk \in [E -> Nat]
  BY DEF HeapShape, ChunkSpans
<1>3. \A m \in DOMAIN h.block : h.block[m].size \in BlockSizes /\ h.block[m].large \in BOOLEAN
  BY <1>1 DEF BlockRec
<1> QED BY <1>1, <1>2, <1>3 DEF HeapShape

(* Free lists.                                                             *)
LEMMA TailFree ==
  ASSUME NEW q \in Seq(MAddr), q # <<>>, M!IsInjective(q)
  PROVE  /\ Tail(q) \in Seq(MAddr) /\ M!IsInjective(Tail(q)) /\ Head(q) \in MAddr
         /\ Head(q) \in M!ToSet(q) /\ M!ToSet(Tail(q)) = M!ToSet(q) \ {Head(q)}
<1>1. Len(q) \in Nat /\ Len(q) > 0 /\ DOMAIN q = 1 .. Len(q) /\ Head(q) = q[1] /\ Head(q) \in MAddr
  OBVIOUS
<1>2. /\ Tail(q) \in Seq(MAddr) /\ DOMAIN Tail(q) = 1 .. Len(q) - 1
      /\ \A i \in 1 .. Len(q) - 1 : Tail(q)[i] = q[i + 1]
  BY <1>1
<1>3. M!IsInjective(Tail(q))
  BY <1>1, <1>2 DEF M!IsInjective
<1>4. \A x \in M!ToSet(q) \ {Head(q)} : x \in M!ToSet(Tail(q))
  <2> SUFFICES ASSUME NEW i \in 1 .. Len(q), i # 1
               PROVE  q[i] \in M!ToSet(Tail(q))
    BY <1>1 DEF M!ToSet
  <2>1. i - 1 \in 1 .. Len(q) - 1 /\ (i - 1) + 1 = i
    BY <1>1
  <2> QED BY <1>2, <2>1 DEF M!ToSet
<1>5. \A x \in M!ToSet(Tail(q)) : x \in M!ToSet(q) \ {Head(q)}
  <2> SUFFICES ASSUME NEW i \in 1 .. Len(q) - 1
               PROVE  q[i + 1] \in M!ToSet(q) \ {q[1]}
    BY <1>1, <1>2 DEF M!ToSet
  <2>1. i + 1 \in DOMAIN q /\ 1 \in DOMAIN q /\ i + 1 # 1
    BY <1>1
  <2> QED BY <2>1 DEF M!ToSet, M!IsInjective
<1>6. M!ToSet(Tail(q)) = M!ToSet(q) \ {Head(q)}
  BY <1>4, <1>5
<1>7. Head(q) \in M!ToSet(q)
  BY <1>1 DEF M!ToSet
<1> QED BY <1>1, <1>2, <1>3, <1>6, <1>7

(* A block becomes the first of a list.                                    *)
LEMMA PushFree ==
  ASSUME NEW q \in Seq(MAddr), NEW m \in MAddr, M!IsInjective(q), m \notin M!ToSet(q)
  PROVE  /\ <<m>> \o q \in Seq(MAddr) /\ M!IsInjective(<<m>> \o q)
         /\ M!ToSet(<<m>> \o q) = M!ToSet(q) \cup {m}
<1> DEFINE r == <<m>> \o q
           n == Len(q)
<1>1. n \in Nat /\ DOMAIN q = 1 .. n /\ r \in Seq(MAddr) /\ Len(r) = n + 1
  OBVIOUS
<1>2. r[1] = m /\ \A i \in 1 .. n : r[i + 1] = q[i]
  BY <1>1
<1> HIDE DEF r, n
<1>3. DOMAIN r = 1 .. n + 1
  BY <1>1
<1>4. \A j \in DOMAIN r : j = 1 \/ (j - 1 \in DOMAIN q /\ r[j] = q[j - 1])
  BY <1>1, <1>2, <1>3
<1>5. M!IsInjective(r)
  <2> SUFFICES ASSUME NEW i \in DOMAIN r, NEW j \in DOMAIN r, r[i] = r[j]
               PROVE  i = j
    BY DEF M!IsInjective
  <2>1. \A x \in DOMAIN q : q[x] # m
    BY DEF M!ToSet
  <2>2. i \in Nat /\ j \in Nat
    BY <1>1, <1>3
  <2>3. CASE i = 1 \/ j = 1
    BY <1>2, <1>4, <2>1, <2>3
  <2>4. CASE i # 1 /\ j # 1
    <3>1. i - 1 = j - 1
      BY <1>4, <2>4 DEF M!IsInjective
    <3> QED BY <2>2, <3>1
  <2> QED BY <2>3, <2>4
<1>6. M!ToSet(r) = M!ToSet(q) \cup {m}
  <2>1. \A x \in M!ToSet(r) : x \in M!ToSet(q) \cup {m}
    BY <1>2, <1>4 DEF M!ToSet
  <2>2. \A x \in M!ToSet(q) : x \in M!ToSet(r)
    <3> SUFFICES ASSUME NEW i \in 1 .. n
                 PROVE  q[i] \in M!ToSet(r)
      BY <1>1 DEF M!ToSet
    <3>1. i + 1 \in DOMAIN r
      BY <1>1, <1>3
    <3> QED BY <1>2, <3>1 DEF M!ToSet
  <2>3. m \in M!ToSet(r)
    <3>1. 1 \in DOMAIN r
      BY <1>1, <1>3
    <3> QED BY <1>2, <3>1 DEF M!ToSet
  <2> QED BY <2>1, <2>2, <2>3
<1> QED BY <1>1, <1>5, <1>6 DEF r

-----------------------------------------------------------------------------
(* An object of a pool becomes a block.                                    *)
(* An object of a free list, or a part of what a pool has left, becomes a  *)
(* block: the claim of x is replaced by that of the block, and by z.       *)
Leaves(h, k, q, m, x, z) ==
  /\ x \in Claims(h) /\ Within(<<"block", 0, m, M!Object(k)>>, x) /\ Within(z, x)
  /\ <<"block", 0, m, M!Object(k)>> # z => AreApart(<<"block", 0, m, M!Object(k)>>, z)
  /\ \A n \in DOMAIN h.block : BlockClaim(h, n) # x
  /\ \A j \in M!Pools : j # k => RestClaim(h.pool[j], j) # x
                               /\ \A n \in M!ToSet(h.pool[j].free) : FreeClaim(j, n) # x
  /\ \A n \in M!ToSet(q.free) : n \in M!ToSet(h.pool[k].free) /\ FreeClaim(k, n) # x
  /\ q.next < q.end => RestClaim(q, k) = z \/ (RestClaim(q, k) \in Claims(h) /\ RestClaim(q, k) # x)

Extends(h, g) == WellKept(g) /\ DOMAIN h.block \subseteq DOMAIN g.block

(* It keeps the heap.                                                      *)
LEMMA Reassigned ==
  ASSUME M!MallocValid, NEW h, WellKept(h), NEW k \in M!Pools, NEW size \in BlockSizes,
         M!GetPool(size) = k, size + M!Header <= M!Object(k),
         NEW q \in PoolRec, NEW m \in MAddr, M!IsInjective(q.free), NEW x, NEW z,
         Leaves(h, k, q, m, x, z),
         NEW g, g = M!WithBlock(M!WithPool(h, k, q), m, size, FALSE)
  PROVE  Extends(h, g)
<1> DEFINE y == <<"block", 0, m, M!Object(k)>>
           b == M!WithPool(h, k, q)
<1>1. HeapShape(h) /\ M!Object(k) \in Nat \ {0} /\ h.chunk \in ChunkSpans
  BY ShapeIs DEF WellKept, HeapShape, M!MallocValid
<1>2. PoolIs(h, k, q, b)
  BY <1>1, PoolChanges
<1>9. g = M!WithBlock(b, m, size, FALSE)
  OBVIOUS
<1> HIDE DEF b
<1>3. BlockIs(b, m, size, FALSE, g)
  BY <1>2, <1>9, BlockChanges DEF PoolIs
<1>4. /\ HeapShape(g) /\ g.pool[k] = q /\ \A j \in M!Pools : j # k => g.pool[j] = h.pool[j]
      /\ g.chunk = h.chunk /\ DOMAIN g.block = DOMAIN h.block \cup {m}
      /\ g.block[m].size = size /\ ~g.block[m].large
      /\ \A n \in DOMAIN h.block : n # m => g.block[n] = h.block[n]
  BY <1>2, <1>3 DEF PoolIs, BlockIs
<1>5. /\ BlockClaim(g, m) = y
      /\ \A n \in DOMAIN h.block : n # m => BlockClaim(g, n) = BlockClaim(h, n)
        /\ Extent(g, n) = Extent(h, n)
  BY <1>4 DEF BlockClaim, Extent
<1>6. Claims(g) \subseteq (Claims(h) \ {x}) \cup {y, z}
  <2> HIDE DEF y
  <2> SUFFICES ASSUME NEW w \in Claims(g)
               PROVE  w \in (Claims(h) \ {x}) \cup {y, z}
    OBVIOUS
  <2>1. CASE \E n \in DOMAIN g.block : w = BlockClaim(g, n)
    <3>1. PICK n \in DOMAIN g.block : w = BlockClaim(g, n)
      BY <2>1
    <3>2. CASE n = m
      BY <1>5, <3>1, <3>2
    <3>3. CASE n # m
      <4>1. n \in DOMAIN h.block /\ w = BlockClaim(h, n)
        BY <1>4, <1>5, <3>1, <3>3
      <4> QED BY <4>1, ClaimIs DEF Leaves
    <3> QED BY <3>2, <3>3
  <2>2. CASE \E j \in M!Pools : \E n \in M!ToSet(g.pool[j].free) : w = FreeClaim(j, n)
    <3>1. PICK j \in M!Pools : \E n \in M!ToSet(g.pool[j].free) : w = FreeClaim(j, n)
      BY <2>2
    <3>2. PICK n \in M!ToSet(g.pool[j].free) : w = FreeClaim(j, n)
      BY <3>1
    <3>3. n \in M!ToSet(h.pool[j].free) /\ w # x
      BY <1>4, <3>2 DEF Leaves
    <3> QED BY <3>2, <3>3, ClaimIs
  <2>3. CASE \E j \in M!Pools : g.pool[j].next < g.pool[j].end /\ w = RestClaim(g.pool[j], j)
    <3>1. PICK j \in M!Pools : g.pool[j].next < g.pool[j].end /\ w = RestClaim(g.pool[j], j)
      BY <2>3
    <3>2. CASE j = k
      BY <1>4, <3>1, <3>2 DEF Leaves
    <3>3. CASE j # k
      <4>1. h.pool[j].next < h.pool[j].end /\ w = RestClaim(h.pool[j], j) /\ w # x
        BY <1>4, <3>1, <3>3 DEF Leaves
      <4> QED BY <4>1, ClaimIs
    <3> QED BY <3>2, <3>3
  <2> QED BY <2>1, <2>2, <2>3, ClaimIs
<1>7. Tidy(Claims(g), h.chunk)
  <2>1. Within(y, x) /\ (y # z => AreApart(y, z)) /\ Within(z, x) /\ x \in Claims(h)
    BY DEF Leaves
  <2> HIDE DEF y
  <2> QED BY <1>1, <1>6, <2>1, Replaced DEF WellKept
<1>8. \A n \in DOMAIN g.block : BlockFits(g, n)
  <2> SUFFICES ASSUME NEW n \in DOMAIN g.block
               PROVE  BlockFits(g, n)
    OBVIOUS
  <2>1. CASE n = m
    <3>1. Extent(g, m) = M!Object(k)
      BY <1>4 DEF Extent
    <3>2. M!Header + size <= M!Object(k)
      BY <1>1 DEF M!Header, M!MallocValid
    <3> QED BY <1>4, <2>1, <3>1, <3>2 DEF BlockFits
  <2>2. CASE n # m
    BY <1>4, <1>5, <2>2 DEF WellKept, BlockFits
  <2> QED BY <2>1, <2>2
<1>10. \A j \in M!Pools : M!IsInjective(g.pool[j].free)
  BY <1>4 DEF WellKept
<1> QED BY <1>4, <1>7, <1>8, <1>10 DEF WellKept, Extends

(* chiPoolGet takes an object of the free list or of the rest of a pool.   *)
LEMMA GetKeeps ==
  ASSUME M!MallocValid, NEW h, WellKept(h), NEW k \in M!Pools, M!Filled(h.pool[k], k),
         NEW size \in BlockSizes, M!GetPool(size) = k, size + M!Header <= M!Object(k),
         NEW g, g = M!Get(h, k, size)
  PROVE  Extends(h, g)
<1> DEFINE p == h.pool[k]
<1>1. /\ p \in PoolRec /\ M!IsInjective(p.free) /\ M!Object(k) \in Nat \ {0}
      /\ p.free \in Seq(MAddr) /\ p.chunk \in Nat /\ p.next \in Nat /\ p.end \in Nat
  <2>1. p \in PoolRec /\ M!IsInjective(p.free) /\ M!Object(k) \in Nat \ {0}
    BY ShapeIs DEF WellKept, M!MallocValid
  <2> QED BY <2>1 DEF PoolRec
<1>2. CASE p.free # <<>>
  <2> DEFINE q == [p EXCEPT !.free = Tail(@)]
             m == Head(p.free)
             x == FreeClaim(k, m)
             z == <<"block", 0, m, M!Object(k)>>
  <2>1. g = M!WithBlock(M!WithPool(h, k, q), m, size, FALSE)
    BY <1>2 DEF M!Get
  <2>2. /\ Tail(p.free) \in Seq(MAddr) /\ M!IsInjective(Tail(p.free)) /\ m \in MAddr
        /\ m \in M!ToSet(p.free) /\ M!ToSet(Tail(p.free)) = M!ToSet(p.free) \ {m}
    BY <1>1, <1>2, TailFree
  <2>3. q \in PoolRec /\ q.free = Tail(p.free) /\ q.chunk = p.chunk /\ q.next = p.next
          /\ q.end = p.end
    BY <1>1, <2>2 DEF PoolRec
  <2> HIDE DEF q, m
  <2>4. Leaves(h, k, q, m, x, z)
    <3>1. x \in Claims(h)
      BY <2>2, ClaimIs
    <3>2. Within(z, x)
      BY <1>1, <2>2 DEF Within, IsClaim, FreeClaim, MAddr
    <3>3. \A n \in DOMAIN h.block : BlockClaim(h, n) # x
      BY DEF BlockClaim, FreeClaim
    <3>4. \A j \in M!Pools : j # k => RestClaim(h.pool[j], j) # x
                                    /\ \A n \in M!ToSet(h.pool[j].free) : FreeClaim(j, n) # x
      BY DEF RestClaim, FreeClaim
    <3>5. \A n \in M!ToSet(q.free) : n \in M!ToSet(p.free) /\ FreeClaim(k, n) # x
      BY <2>2, <2>3 DEF FreeClaim
    <3>6. q.next < q.end => RestClaim(q, k) \in Claims(h) /\ RestClaim(q, k) # x
      <4>1. RestClaim(q, k) = RestClaim(h.pool[k], k)
        BY <2>3 DEF RestClaim
      <4>2. RestClaim(q, k) # x
        BY DEF RestClaim, FreeClaim
      <4> QED BY <2>3, <4>1, <4>2, ClaimIs
    <3> HIDE DEF x
    <3> QED BY <3>1, <3>2, <3>3, <3>4, <3>5, <3>6 DEF Leaves
  <2>5. M!IsInjective(q.free)
    BY <2>2, <2>3
  <2> HIDE DEF x, z
  <2> QED BY <2>1, <2>2, <2>3, <2>4, <2>5, Reassigned
<1>3. CASE p.free = <<>>
  <2> DEFINE q == [p EXCEPT !.next = @ + M!Object(k)]
             m == <<p.chunk, p.next>>
             y == <<"block", 0, m, M!Object(k)>>
             x == RestClaim(p, k)
             z == IF q.next < q.end THEN RestClaim(q, k) ELSE y
  <2>1. g = M!WithBlock(M!WithPool(h, k, q), m, size, FALSE) /\ p.next + M!Object(k) <= p.end
    BY <1>3 DEF M!Get, M!Filled
  <2>2. /\ q \in PoolRec /\ q.free = p.free /\ q.chunk = p.chunk /\ q.next = p.next + M!Object(k)
        /\ q.end = p.end /\ m \in MAddr /\ m[1] = p.chunk /\ m[2] = p.next
    <3>1. p.next + M!Object(k) \in Nat
      BY <1>1
    <3>2. /\ q \in PoolRec /\ q.free = p.free /\ q.chunk = p.chunk /\ q.next = p.next + M!Object(k)
          /\ q.end = p.end
      BY <1>1, <3>1 DEF PoolRec
    <3>3. m \in MAddr /\ m[1] = p.chunk /\ m[2] = p.next
      BY <1>1 DEF MAddr
    <3> HIDE DEF q, m
    <3> QED BY <3>2, <3>3
  <2> HIDE DEF q
  <2>4. Leaves(h, k, q, m, x, z)
    <3>1. x \in Claims(h)
      BY <1>1, <2>1, ClaimIs
    <3>2. Within(y, x)
      BY <1>1, <2>1, <2>2 DEF Within, IsClaim, RestClaim, MAddr
    <3>7. ASSUME q.next < q.end
          PROVE  Within(RestClaim(q, k), x) /\ AreApart(y, RestClaim(q, k))
      <4> DEFINE v == RestClaim(q, k)
                 o == M!Object(k)
      <4>1. /\ x[3][1] = p.chunk /\ x[3][2] = p.next /\ x[4] = p.end - p.next
            /\ y[3][1] = p.chunk /\ y[3][2] = p.next /\ y[4] = o
            /\ v[3] = <<p.chunk, p.next + o>> /\ v[3][1] = p.chunk
            /\ v[3][2] = p.next + o /\ v[4] = p.end - (p.next + o)
        BY <2>2 DEF RestClaim
      <4>2. /\ p.next \in Nat /\ p.end \in Nat /\ o \in Nat /\ p.next + o < p.end
            /\ v[3] \in MAddr
        BY <1>1, <2>2, <3>7, <4>1 DEF MAddr
      <4> HIDE DEF x, y, v, o
      <4>3. v[4] \in Nat \ {0} /\ v[3][2] + v[4] = p.end /\ x[3][2] + x[4] = p.end
            /\ x[3][2] <= v[3][2] /\ y[3][2] + y[4] <= v[3][2]
        BY <4>1, <4>2
      <4>4. Within(v, x)
        BY <4>1, <4>2, <4>3 DEF Within, IsClaim
      <4>5. AreApart(y, v)
        BY <4>3 DEF AreApart
      <4> QED BY <4>4, <4>5 DEF v
    <3>8. Within(z, x) /\ (y # z => AreApart(y, z))
      <4> HIDE DEF x, y
      <4> QED BY <3>2, <3>7
    <3>3. \A n \in DOMAIN h.block : BlockClaim(h, n) # x
      BY DEF BlockClaim, RestClaim
    <3>4. \A j \in M!Pools : j # k => RestClaim(h.pool[j], j) # x
                                    /\ \A n \in M!ToSet(h.pool[j].free) : FreeClaim(j, n) # x
      BY DEF RestClaim, FreeClaim
    <3>5. \A n \in M!ToSet(q.free) : n \in M!ToSet(p.free) /\ FreeClaim(k, n) # x
      BY <2>2 DEF FreeClaim, RestClaim
    <3>6. q.next < q.end => RestClaim(q, k) = z
      OBVIOUS
    <3> HIDE DEF x, z
    <3> QED BY <3>1, <3>2, <3>3, <3>4, <3>5, <3>6, <3>8 DEF Leaves
  <2>5. M!IsInjective(q.free)
    BY <1>1, <2>2
  <2> HIDE DEF x, z, m
  <2> QED BY <2>5, <2>1, <2>2, <2>4, Reassigned
<1> QED BY <1>2, <1>3

-----------------------------------------------------------------------------
(* A pool grows only when nothing is left of its last chunk.               *)
LEMMA NothingLeft ==
  ASSUME NEW p \in PoolRec, NEW k, M!Object(k) \in Nat, ~M!Filled(p, k), NEW c
  PROVE  M!Grown(p, k, c) = [free |-> <<>>, chunk |-> c, next |-> 0, end |-> ChunkMin]
<1>1. p.free = <<>> /\ ~(p.next + M!Object(k) <= p.end)
  BY DEF M!Filled
<1>2. p.next \in Nat /\ p.end \in Nat
  BY DEF PoolRec
<1>3. \A o \in p.next .. p.end : ~(o + M!Object(k) <= p.end)
  BY <1>1, <1>2
<1>4. {o \in p.next .. p.end : (o - p.next) % M!Object(k) = 0 /\ o + M!Object(k) <= p.end} = {}
  BY <1>3
<1>5. M!Rest(p, k) = {}
  BY <1>4 DEF M!Rest
<1>6. M!SetToSeq({}) = <<>>
  <2> DEFINE F == {f \in [1 .. M!Cardinality({}) -> {}] : M!IsInjective(f)}
  <2>1. M!Cardinality({}) = 0
    <3>1. M!Cardinality({}) = Cardinality({})
      BY DEF M!Cardinality, Cardinality
    <3> QED BY <3>1, FS_EmptySet
  <2>2. 1 .. 0 = {}
    OBVIOUS
  <2>3. <<>> \in [1 .. M!Cardinality({}) -> {}] /\ M!IsInjective(<<>>)
    BY <2>1, <2>2 DEF M!IsInjective
  <2>4. M!SetToSeq({}) = CHOOSE f \in [1 .. M!Cardinality({}) -> {}] : M!IsInjective(f)
    BY DEF M!SetToSeq
  <2>5. M!SetToSeq({}) \in [1 .. M!Cardinality({}) -> {}]
    BY <2>3, <2>4
  <2> QED BY <2>1, <2>2, <2>5
<1> QED BY <1>1, <1>5, <1>6 DEF M!Grown

(* The start and the length of a claim.                                    *)
LEMMA ClaimsAre ==
  ASSUME NEW h, WellKept(h)
  PROVE  /\ \A n \in DOMAIN h.block :
              /\ BlockClaim(h, n) \in Claims(h) /\ BlockClaim(h, n)[3] = n
              /\ BlockClaim(h, n)[4] = Extent(h, n) /\ n[1] \in DOMAIN h.chunk
              /\ n \in MAddr /\ Extent(h, n) \in Nat \ {0} /\ n[2] + Extent(h, n) <= h.chunk[n[1]]
         /\ \A k \in M!Pools : \A n \in M!ToSet(h.pool[k].free) :
              FreeClaim(k, n) \in Claims(h) /\ n \in MAddr
         /\ \A k \in M!Pools : h.pool[k].next < h.pool[k].end
           => RestClaim(h.pool[k], k) \in Claims(h)
<1>1. Inside(Claims(h), h.chunk)
  BY DEF WellKept, Tidy
<1>2. ASSUME NEW n \in DOMAIN h.block
      PROVE  /\ BlockClaim(h, n) \in Claims(h) /\ BlockClaim(h, n)[3] = n
             /\ BlockClaim(h, n)[4] = Extent(h, n) /\ n[1] \in DOMAIN h.chunk
             /\ n \in MAddr /\ Extent(h, n) \in Nat \ {0} /\ n[2] + Extent(h, n) <= h.chunk[n[1]]
  <2>1. BlockClaim(h, n) \in Claims(h)
    BY ClaimIs
  <2>2. BlockClaim(h, n)[3] = n /\ BlockClaim(h, n)[4] = Extent(h, n)
    BY DEF BlockClaim
  <2> QED BY <1>1, <2>1, <2>2 DEF Inside, IsClaim
<1>3. ASSUME NEW k \in M!Pools, NEW n \in M!ToSet(h.pool[k].free)
      PROVE  FreeClaim(k, n) \in Claims(h) /\ n \in MAddr
  <2>1. FreeClaim(k, n) \in Claims(h)
    BY ClaimIs
  <2>2. FreeClaim(k, n)[3] = n
    BY DEF FreeClaim
  <2> QED BY <1>1, <2>1, <2>2 DEF Inside, IsClaim
<1>4. \A k \in M!Pools : h.pool[k].next < h.pool[k].end => RestClaim(h.pool[k], k) \in Claims(h)
  BY ClaimIs
<1> QED BY <1>2, <1>3, <1>4

(* chiPoolGrow: a pool gets a chunk, of which everything is left.          *)
LEMMA GrowKeeps ==
  ASSUME M!MallocValid, NEW h, WellKept(h), NEW k \in M!Pools, ~M!Filled(h.pool[k], k),
         NEW c \in MallocChunks, c \notin DOMAIN h.chunk, NEW g, g = M!Grow(h, k, c)
  PROVE  Extends(h, g) /\ M!Filled(g.pool[k], k)
<1> DEFINE r == [free |-> <<>>, chunk |-> c, next |-> 0, end |-> ChunkMin]
           b == M!WithChunk(h, c, ChunkMin)
           y == RestClaim(r, k)
<1>1. /\ HeapShape(h) /\ h.pool[k] \in PoolRec /\ M!Object(k) \in Nat /\ M!Object(k) > 0
      /\ M!Object(k) <= ChunkMin /\ ChunkMin \in Nat /\ ChunkMin > 0 /\ c \in Nat
  BY ShapeIs DEF WellKept, M!MallocValid
<1>2. M!Grown(h.pool[k], k, c) = r
  BY <1>1, NothingLeft
<1>3. g = M!WithPool(b, k, r)
  BY <1>2 DEF M!Grow
<1>4. /\ r \in PoolRec /\ r.free = <<>> /\ M!IsInjective(r.free) /\ M!ToSet(r.free) = {}
      /\ r.next = 0 /\ r.end = ChunkMin /\ r.chunk = c
  BY <1>1 DEF PoolRec, M!IsInjective, M!ToSet
<1>5. IsClaim(y) /\ y[3][1] = c /\ y[3][2] + y[4] <= ChunkMin
  BY <1>1, <1>4 DEF IsClaim, RestClaim, MAddr
<1> HIDE DEF r, b
<1>6. b = M!WithChunk(h, c, ChunkMin)
  BY DEF b
<1>7. ChunkIs(h, c, ChunkMin, b)
  BY <1>1, <1>6, ChunkChanges
<1>8. PoolIs(b, k, r, g)
  BY <1>3, <1>4, <1>7, PoolChanges DEF ChunkIs
<1>9. /\ HeapShape(g) /\ g.pool[k] = r /\ \A j \in M!Pools : j # k => g.pool[j] = h.pool[j]
      /\ g.block = h.block /\ g.chunk = M!With(h.chunk, c, ChunkMin)
      /\ \A d \in DOMAIN h.chunk : g.chunk[d] = h.chunk[d]
  BY <1>7, <1>8 DEF ChunkIs, PoolIs
<1>10. ASSUME NEW n \in DOMAIN h.block
       PROVE  Extent(g, n) = Extent(h, n) /\ BlockClaim(g, n) = BlockClaim(h, n)
  <2>1. n[1] \in DOMAIN h.chunk
    BY ClaimsAre
  <2> QED BY <1>9, <2>1 DEF Extent, BlockClaim
<1>11. Claims(g) \subseteq Claims(h) \cup {y}
  <2> HIDE DEF y
  <2> SUFFICES ASSUME NEW w \in Claims(g)
               PROVE  w \in Claims(h) \cup {y}
    OBVIOUS
  <2>1. CASE \E n \in DOMAIN g.block : w = BlockClaim(g, n)
    BY <1>9, <1>10, <2>1, ClaimIs
  <2>2. CASE \E j \in M!Pools : \E n \in M!ToSet(g.pool[j].free) : w = FreeClaim(j, n)
    BY <1>4, <1>9, <2>2, ClaimIs
  <2>3. CASE \E j \in M!Pools : g.pool[j].next < g.pool[j].end /\ w = RestClaim(g.pool[j], j)
    BY <1>9, <2>3, ClaimIs DEF y
  <2> QED BY <2>1, <2>2, <2>3, ClaimIs
<1> HIDE DEF y
<1>12. Tidy(Claims(g), g.chunk)
  BY <1>5, <1>9, <1>11, Added DEF WellKept
<1>13. \A n \in DOMAIN g.block : BlockFits(g, n)
  BY <1>9, <1>10 DEF WellKept, BlockFits
<1>14. \A j \in M!Pools : M!IsInjective(g.pool[j].free)
  BY <1>4, <1>9 DEF WellKept
<1>15. M!Filled(g.pool[k], k)
  BY <1>1, <1>4, <1>9 DEF M!Filled
<1> QED BY <1>9, <1>12, <1>13, <1>14, <1>15 DEF WellKept, Extends

(* A chunk becomes a block.                                                *)
LEMMA LargeKeeps ==
  ASSUME M!MallocValid, NEW h, WellKept(h), NEW c \in MallocChunks, c \notin DOMAIN h.chunk,
         NEW size \in BlockSizes, NEW bytes \in Nat, size + M!Header <= bytes,
         NEW g, g = M!WithBlock(M!WithChunk(h, c, bytes), <<c, 0>>, size, TRUE)
  PROVE  Extends(h, g)
<1> DEFINE b == M!WithChunk(h, c, bytes)
           at == <<c, 0>>
           y == <<"block", 0, at, bytes>>
<1>1. HeapShape(h) /\ c \in Nat /\ size \in Nat /\ at \in MAddr /\ at[1] = c /\ at[2] = 0
  BY DEF WellKept, M!MallocValid, MAddr
<1>2. g = M!WithBlock(b, at, size, TRUE)
  OBVIOUS
<1>3. IsClaim(y) /\ y[3][1] = c /\ y[3][2] + y[4] <= bytes
  BY <1>1 DEF IsClaim, M!Header
<1> HIDE DEF b, at
<1>4. b = M!WithChunk(h, c, bytes)
  BY DEF b
<1>5. ChunkIs(h, c, bytes, b)
  BY <1>1, <1>4, ChunkChanges
<1>6. BlockIs(b, at, size, TRUE, g)
  BY <1>1, <1>2, <1>5, BlockChanges DEF ChunkIs
<1>7. at \notin DOMAIN h.block
  BY <1>1, ClaimsAre
<1>8. /\ HeapShape(g) /\ g.pool = h.pool /\ DOMAIN g.block = DOMAIN h.block \cup {at}
      /\ g.block[at].size = size /\ g.block[at].large
      /\ \A n \in DOMAIN h.block : g.block[n] = h.block[n]
      /\ g.chunk = M!With(h.chunk, c, bytes) /\ g.chunk[c] = bytes
      /\ \A d \in DOMAIN h.chunk : g.chunk[d] = h.chunk[d]
  <2>1. /\ HeapShape(g) /\ g.pool = h.pool /\ DOMAIN g.block = DOMAIN h.block \cup {at}
        /\ g.block[at].size = size /\ g.block[at].large
    BY <1>5, <1>6 DEF ChunkIs, BlockIs
  <2>2. \A n \in DOMAIN h.block : g.block[n] = h.block[n]
    BY <1>5, <1>6, <1>7 DEF ChunkIs, BlockIs
  <2>3. g.chunk = b.chunk
    BY <1>6 DEF BlockIs
  <2>4. /\ b.chunk = M!With(h.chunk, c, bytes) /\ b.chunk[c] = bytes
        /\ \A d \in DOMAIN h.chunk : b.chunk[d] = h.chunk[d]
    BY <1>5 DEF ChunkIs
  <2> QED BY <2>1, <2>2, <2>3, <2>4
<1>9. ASSUME NEW n \in DOMAIN h.block
      PROVE  Extent(g, n) = Extent(h, n) /\ BlockClaim(g, n) = BlockClaim(h, n)
  <2>1. n[1] \in DOMAIN h.chunk
    BY ClaimsAre
  <2> QED BY <1>8, <2>1 DEF Extent, BlockClaim
<1>10. Extent(g, at) = bytes /\ BlockClaim(g, at) = y
  BY <1>1, <1>8 DEF Extent, BlockClaim
<1> HIDE DEF y
<1>11. Claims(g) \subseteq Claims(h) \cup {y}
  <2> SUFFICES ASSUME NEW w \in Claims(g)
               PROVE  w \in Claims(h) \cup {y}
    OBVIOUS
  <2>1. CASE \E n \in DOMAIN g.block : w = BlockClaim(g, n)
    <3>1. PICK n \in DOMAIN g.block : w = BlockClaim(g, n)
      BY <2>1
    <3>2. CASE n = at
      BY <1>10, <3>1, <3>2
    <3>3. CASE n # at
      <4>1. n \in DOMAIN h.block /\ w = BlockClaim(h, n)
        BY <1>8, <1>9, <3>1, <3>3
      <4> QED BY <4>1, ClaimIs
    <3> QED BY <3>2, <3>3
  <2>2. CASE \E j \in M!Pools : \E n \in M!ToSet(g.pool[j].free) : w = FreeClaim(j, n)
    BY <1>8, <2>2, ClaimIs
  <2>3. CASE \E j \in M!Pools : g.pool[j].next < g.pool[j].end /\ w = RestClaim(g.pool[j], j)
    BY <1>8, <2>3, ClaimIs
  <2>4. \/ \E n \in DOMAIN g.block : w = BlockClaim(g, n)
        \/ \E j \in M!Pools : \E n \in M!ToSet(g.pool[j].free) : w = FreeClaim(j, n)
        \/ \E j \in M!Pools : g.pool[j].next < g.pool[j].end /\ w = RestClaim(g.pool[j], j)
    BY ClaimIs
  <2> QED BY <2>1, <2>2, <2>3, <2>4
<1>12. Tidy(Claims(g), g.chunk)
  <2>1. Tidy(Claims(h), h.chunk)
    BY DEF WellKept
  <2>2. Tidy(Claims(g), M!With(h.chunk, c, bytes))
    <3> DEFINE S == Claims(h)
               T == Claims(g)
               e == h.chunk
    <3>1. T \subseteq S \cup {y} /\ Tidy(S, e) /\ c \notin DOMAIN e
      BY <1>11, <2>1
    <3> HIDE DEF S, T, e
    <3>2. Tidy(T, M!With(e, c, bytes))
      BY <1>3, <3>1, Added
    <3> QED BY <3>2 DEF S, T, e
  <2> QED BY <1>8, <2>2
<1>13. ASSUME NEW n \in DOMAIN g.block
       PROVE  BlockFits(g, n)
  <2>1. CASE n = at
    <3>1. M!Header + size <= bytes
      BY <1>1 DEF M!Header
    <3> QED BY <1>1, <1>8, <1>10, <2>1, <3>1 DEF BlockFits
  <2>2. CASE n # at
    BY <1>8, <1>9, <2>2 DEF WellKept, BlockFits
  <2> QED BY <2>1, <2>2
<1>14. \A j \in M!Pools : M!IsInjective(g.pool[j].free)
  BY <1>8 DEF WellKept
<1> QED BY <1>8, <1>12, <1>13, <1>14 DEF WellKept, Extends

-----------------------------------------------------------------------------
(* A block is freed.                                                       *)
LEMMA BlockGoes ==
  ASSUME NEW h, HeapShape(h), NEW at, NEW f, f = M!WithoutBlock(h, at)
  PROVE  /\ HeapShape(f) /\ f.pool = h.pool /\ f.chunk = h.chunk
         /\ DOMAIN f.block = DOMAIN h.block \ {at}
         /\ \A n \in DOMAIN f.block : f.block[n] = h.block[n]
<1> DEFINE q == M!Without(h.block, at)
<1>1. PICK D \in SUBSET MAddr : h.block \in [D -> BlockRec]
  BY DEF HeapShape, BlockMap
<1>2. /\ q \in [D \ {at} -> BlockRec] /\ DOMAIN q = DOMAIN h.block \ {at}
      /\ \A n \in DOMAIN q : q[n] = h.block[n]
  BY <1>1 DEF M!Without
<1>3. f = [h EXCEPT !.block = q]
  BY DEF HeapShape, M!WithoutBlock
<1> HIDE DEF q
<1>4. q \in BlockMap
  BY <1>1, <1>2 DEF BlockMap
<1>5. f \in [pool : [M!Pools -> PoolRec], chunk : ChunkSpans, block : BlockMap]
      /\ f.pool = h.pool /\ f.chunk = h.chunk /\ f.block = q
  BY <1>3, <1>4 DEF HeapShape
<1> QED BY <1>2, <1>5 DEF HeapShape

(* A chunk is given back.                                                  *)
LEMMA ChunkGoes ==
  ASSUME NEW h, HeapShape(h), NEW c, NEW f, f = M!WithoutChunk(h, c)
  PROVE  /\ HeapShape(f) /\ f.pool = h.pool /\ f.block = h.block
         /\ DOMAIN f.chunk = DOMAIN h.chunk \ {c}
         /\ \A d \in DOMAIN f.chunk : f.chunk[d] = h.chunk[d]
<1> DEFINE q == M!Without(h.chunk, c)
<1>1. PICK D \in SUBSET MallocChunks : h.chunk \in [D -> Nat]
  BY DEF HeapShape, ChunkSpans
<1>2. /\ q \in [D \ {c} -> Nat] /\ DOMAIN q = DOMAIN h.chunk \ {c}
      /\ \A d \in DOMAIN q : q[d] = h.chunk[d]
  BY <1>1 DEF M!Without
<1>3. f = [h EXCEPT !.chunk = q]
  BY DEF HeapShape, M!WithoutChunk
<1> HIDE DEF q
<1>4. q \in ChunkSpans
  BY <1>1, <1>2 DEF ChunkSpans
<1>5. f \in [pool : [M!Pools -> PoolRec], chunk : ChunkSpans, block : BlockMap]
      /\ f.pool = h.pool /\ f.chunk = q /\ f.block = h.block
  BY <1>3, <1>4 DEF HeapShape
<1> QED BY <1>2, <1>5 DEF HeapShape

(* Claims of others than the block.                                        *)
LEMMA OtherClaims ==
  ASSUME NEW h, WellKept(h), NEW at \in DOMAIN h.block, NEW x \in Claims(h), x # BlockClaim(h, at)
  PROVE  AreApart(BlockClaim(h, at), x) /\ IsClaim(x) /\ x[3][1] \in DOMAIN h.chunk
         /\ x[3][2] + x[4] <= h.chunk[x[3][1]]
<1>1. Disjoint(Claims(h)) /\ Inside(Claims(h), h.chunk) /\ BlockClaim(h, at) \in Claims(h)
  BY ClaimsAre DEF WellKept, Tidy
<1>2. AreApart(BlockClaim(h, at), x)
  BY <1>1 DEF Disjoint
<1> QED BY <1>1, <1>2 DEF Inside

(* A block that is a chunk is freed,                                       *)
LEMMA LargeReleased ==
  ASSUME M!MallocValid, NEW h, WellKept(h), NEW at \in DOMAIN h.block, h.block[at].large,
         NEW g, g = M!Release(h, at)
  PROVE  WellKept(g)
<1> DEFINE f == M!WithoutBlock(h, at)
           x == BlockClaim(h, at)
<1>1. HeapShape(h)
  BY DEF WellKept
<1>2. g = M!WithoutChunk(f, at[1])
  BY DEF M!Release
<1>3. /\ HeapShape(f) /\ f.pool = h.pool /\ f.chunk = h.chunk
      /\ DOMAIN f.block = DOMAIN h.block \ {at}
      /\ \A n \in DOMAIN f.block : f.block[n] = h.block[n]
  BY <1>1, BlockGoes
<1> HIDE DEF f
<1>4. /\ HeapShape(g) /\ g.pool = f.pool /\ g.block = f.block
      /\ DOMAIN g.chunk = DOMAIN f.chunk \ {at[1]}
      /\ \A d \in DOMAIN g.chunk : g.chunk[d] = f.chunk[d]
  BY <1>2, <1>3, ChunkGoes
<1>5. /\ HeapShape(g) /\ g.pool = h.pool /\ DOMAIN g.block = DOMAIN h.block \ {at}
      /\ \A n \in DOMAIN g.block : g.block[n] = h.block[n]
      /\ DOMAIN g.chunk = DOMAIN h.chunk \ {at[1]}
      /\ \A d \in DOMAIN g.chunk : g.chunk[d] = h.chunk[d]
  BY <1>3, <1>4
<1>6. /\ x[3] = at /\ at[2] = 0 /\ x[4] = h.chunk[at[1]] /\ at[1] \in DOMAIN h.chunk
      /\ h.chunk[at[1]] \in Nat /\ x \in Claims(h) /\ at \in MAddr
  <2>1. x[3] = at /\ x[4] = Extent(h, at) /\ at[1] \in DOMAIN h.chunk /\ x \in Claims(h)
          /\ at \in MAddr
    BY ClaimsAre
  <2>2. at[2] = 0 /\ Extent(h, at) = h.chunk[at[1]]
    BY DEF WellKept, BlockFits, Extent
  <2>3. h.chunk[at[1]] \in Nat
    BY <1>1, <2>1, ShapeIs
  <2> HIDE DEF x
  <2> QED BY <2>1, <2>2, <2>3
<1>7. ASSUME NEW w \in Claims(h), w # x
      PROVE  /\ w[3][1] # at[1] /\ IsClaim(w) /\ w[3][1] \in DOMAIN g.chunk
             /\ w[3][2] + w[4] <= g.chunk[w[3][1]]
  <2> HIDE DEF x
  <2>1. /\ AreApart(x, w) /\ IsClaim(w) /\ w[3][1] \in DOMAIN h.chunk
        /\ w[3][2] + w[4] <= h.chunk[w[3][1]]
    BY <1>7, OtherClaims DEF x
  <2>2. w[3][2] \in Nat /\ w[4] \in Nat /\ w[4] # 0
    BY <2>1 DEF IsClaim, MAddr
  <2>3. w[3][1] # at[1]
    <3> SUFFICES ASSUME w[3][1] = at[1]
                 PROVE  FALSE
      OBVIOUS
    <3>1. 0 + h.chunk[at[1]] <= w[3][2] \/ w[3][2] + w[4] <= 0
      BY <1>6, <2>1 DEF AreApart
    <3> QED BY <1>6, <2>1, <2>2, <3>1
  <2> QED BY <1>5, <2>1, <2>3
<1>8. ASSUME NEW n \in DOMAIN g.block
      PROVE  Extent(g, n) = Extent(h, n) /\ BlockClaim(g, n) = BlockClaim(h, n) /\ n # at
  <2>1. n # at /\ n \in DOMAIN h.block /\ n[1] \in DOMAIN h.chunk
    BY <1>5, ClaimsAre
  <2>2. BlockClaim(h, n) \in Claims(h) /\ BlockClaim(h, n)[3] = n /\ BlockClaim(h, n) # x
    BY <1>6, <2>1, ClaimsAre
  <2>3. n[1] # at[1]
    BY <1>7, <2>2
  <2> QED BY <1>5, <2>1, <2>3 DEF Extent, BlockClaim
<1>9. \A w \in Claims(g) : w \in Claims(h) /\ w # x
  <2> SUFFICES ASSUME NEW w \in Claims(g)
               PROVE  w \in Claims(h) /\ w # x
    OBVIOUS
  <2>1. CASE \E n \in DOMAIN g.block : w = BlockClaim(g, n)
    <3>1. PICK n \in DOMAIN g.block : w = BlockClaim(g, n)
      BY <2>1
    <3>2. w = BlockClaim(h, n) /\ n # at /\ n \in DOMAIN h.block
      BY <1>5, <1>8, <3>1
    <3>3. w \in Claims(h) /\ w[3] = n
      BY <3>2, ClaimsAre
    <3> QED BY <1>6, <3>2, <3>3
  <2>2. CASE \E j \in M!Pools : \E n \in M!ToSet(g.pool[j].free) : w = FreeClaim(j, n)
    <3>1. w \in Claims(h)
      BY <1>5, <2>2, ClaimIs
    <3>2. w # x
      BY <2>2 DEF FreeClaim, BlockClaim
    <3> QED BY <3>1, <3>2
  <2>3. CASE \E j \in M!Pools : g.pool[j].next < g.pool[j].end /\ w = RestClaim(g.pool[j], j)
    <3>1. w \in Claims(h)
      BY <1>5, <2>3, ClaimIs
    <3>2. w # x
      BY <2>3 DEF RestClaim, BlockClaim
    <3> QED BY <3>1, <3>2
  <2>4. \/ \E n \in DOMAIN g.block : w = BlockClaim(g, n)
        \/ \E j \in M!Pools : \E n \in M!ToSet(g.pool[j].free) : w = FreeClaim(j, n)
        \/ \E j \in M!Pools : g.pool[j].next < g.pool[j].end /\ w = RestClaim(g.pool[j], j)
    BY ClaimIs
  <2> QED BY <2>1, <2>2, <2>3, <2>4
<1>10. Tidy(Claims(g), g.chunk)
  <2>1. Inside(Claims(g), g.chunk)
    BY <1>7, <1>9 DEF Inside
  <2>2. Disjoint(Claims(g))
    BY <1>9 DEF Disjoint, WellKept, Tidy
  <2> QED BY <2>1, <2>2 DEF Tidy
<1>11. \A n \in DOMAIN g.block : BlockFits(g, n)
  BY <1>5, <1>8 DEF WellKept, BlockFits
<1>12. \A j \in M!Pools : M!IsInjective(g.pool[j].free)
  BY <1>5 DEF WellKept
<1> QED BY <1>5, <1>10, <1>11, <1>12 DEF WellKept

(* or one of a pool, to whose free list it goes.                           *)
LEMMA SmallReleased ==
  ASSUME M!MallocValid, NEW h, WellKept(h), NEW at \in DOMAIN h.block, ~h.block[at].large,
         NEW g, g = M!Release(h, at)
  PROVE  WellKept(g)
<1> DEFINE f == M!WithoutBlock(h, at)
           x == BlockClaim(h, at)
           k == M!GetPool(h.block[at].size)
           p == h.pool[k]
           q == [p EXCEPT !.free = <<at>> \o @]
           y == FreeClaim(k, at)
<1>1. HeapShape(h)
  BY DEF WellKept
<1>2. g = M!WithPool(f, k, q)
  BY DEF M!Release
<1>3. /\ HeapShape(f) /\ f.pool = h.pool /\ f.chunk = h.chunk
      /\ DOMAIN f.block = DOMAIN h.block \ {at}
      /\ \A n \in DOMAIN f.block : f.block[n] = h.block[n]
  BY <1>1, BlockGoes
<1> HIDE DEF f
<1>4. /\ x[3] = at /\ x[4] = M!Object(k) /\ x \in Claims(h) /\ at \in MAddr /\ k \in M!Pools
      /\ M!Object(k) \in Nat /\ M!Object(k) # 0
  <2>1. k \in M!Pools /\ Extent(h, at) = M!Object(k)
    BY DEF WellKept, BlockFits, Extent
  <2>2. x[3] = at /\ x[4] = Extent(h, at) /\ x \in Claims(h) /\ at \in MAddr
    BY ClaimsAre
  <2> HIDE DEF x, k
  <2>3. M!Object(k) \in Nat /\ M!Object(k) # 0
    BY <2>1 DEF M!MallocValid
  <2> QED BY <2>1, <2>2, <2>3
<1>5. y[3] = at /\ y[4] = M!Object(k)
  BY DEF FreeClaim
<1>6. at \notin M!ToSet(p.free)
  <2> SUFFICES ASSUME at \in M!ToSet(p.free)
               PROVE  FALSE
    OBVIOUS
  <2>1. y \in Claims(h)
    BY <1>4, ClaimsAre
  <2>2. y # x
    BY DEF FreeClaim, BlockClaim
  <2>3. AreApart(x, y)
    BY <2>1, <2>2, OtherClaims
  <2> HIDE DEF x, y, k
  <2> QED BY <1>4, <1>5, <2>3 DEF AreApart, MAddr
<1>7. /\ p.free \in Seq(MAddr) /\ M!IsInjective(p.free) /\ p \in PoolRec
  <2>1. p \in PoolRec /\ M!IsInjective(p.free)
    BY <1>1, <1>4, ShapeIs DEF WellKept
  <2> QED BY <2>1 DEF PoolRec
<1>8. /\ <<at>> \o p.free \in Seq(MAddr) /\ M!IsInjective(<<at>> \o p.free)
      /\ M!ToSet(<<at>> \o p.free) = M!ToSet(p.free) \cup {at}
  <2> HIDE DEF p
  <2> QED BY <1>4, <1>6, <1>7, PushFree
<1>9. /\ q \in PoolRec /\ q.free = <<at>> \o p.free /\ q.chunk = p.chunk /\ q.next = p.next
      /\ q.end = p.end
  <2> HIDE DEF p
  <2> QED BY <1>7, <1>8 DEF PoolRec
<1> HIDE DEF q, k
<1>10. PoolIs(f, k, q, g)
  BY <1>2, <1>3, <1>4, <1>9, PoolChanges
<1>11. /\ HeapShape(g) /\ g.pool[k] = q /\ \A j \in M!Pools : j # k => g.pool[j] = h.pool[j]
       /\ g.chunk = h.chunk /\ DOMAIN g.block = DOMAIN h.block \ {at}
       /\ \A n \in DOMAIN g.block : g.block[n] = h.block[n]
  BY <1>3, <1>10 DEF PoolIs
<1>12. \A n \in DOMAIN g.block : Extent(g, n) = Extent(h, n) /\ BlockClaim(g, n) = BlockClaim(h, n)
  BY <1>11 DEF Extent, BlockClaim
<1>13. Claims(g) \subseteq (Claims(h) \ {x}) \cup {y, y}
  <2> SUFFICES ASSUME NEW w \in Claims(g)
               PROVE  w = y \/ (w \in Claims(h) /\ w # x)
    OBVIOUS
  <2>1. CASE \E n \in DOMAIN g.block : w = BlockClaim(g, n)
    <3>1. PICK n \in DOMAIN g.block : w = BlockClaim(g, n)
      BY <2>1
    <3>2. w = BlockClaim(h, n) /\ n # at /\ n \in DOMAIN h.block
      BY <1>11, <1>12, <3>1
    <3>3. w \in Claims(h) /\ w[3] = n
      BY <3>2, ClaimsAre
    <3> HIDE DEF x
    <3> QED BY <1>4, <3>2, <3>3
  <2>2. CASE \E j \in M!Pools : \E n \in M!ToSet(g.pool[j].free) : w = FreeClaim(j, n)
    <3>1. PICK j \in M!Pools : \E n \in M!ToSet(g.pool[j].free) : w = FreeClaim(j, n)
      BY <2>2
    <3>2. PICK n \in M!ToSet(g.pool[j].free) : w = FreeClaim(j, n)
      BY <3>1
    <3>3. w # x
      BY <3>2 DEF FreeClaim, BlockClaim
    <3>4. CASE j = k /\ n = at
      BY <3>2, <3>4
    <3>5. CASE ~(j = k /\ n = at)
      <4>1. n \in M!ToSet(h.pool[j].free)
        BY <1>8, <1>9, <1>11, <3>2, <3>5
      <4> HIDE DEF x
      <4> QED BY <3>2, <3>3, <4>1, ClaimIs
    <3> QED BY <3>4, <3>5
  <2>3. CASE \E j \in M!Pools : g.pool[j].next < g.pool[j].end /\ w = RestClaim(g.pool[j], j)
    <3>1. PICK j \in M!Pools : g.pool[j].next < g.pool[j].end /\ w = RestClaim(g.pool[j], j)
      BY <2>3
    <3>2. w # x
      BY <3>1 DEF RestClaim, BlockClaim
    <3>3. h.pool[j].next < h.pool[j].end /\ w = RestClaim(h.pool[j], j)
      BY <1>9, <1>11, <3>1 DEF RestClaim
    <3> HIDE DEF x
    <3> QED BY <3>2, <3>3, ClaimIs
  <2>4. \/ \E n \in DOMAIN g.block : w = BlockClaim(g, n)
        \/ \E j \in M!Pools : \E n \in M!ToSet(g.pool[j].free) : w = FreeClaim(j, n)
        \/ \E j \in M!Pools : g.pool[j].next < g.pool[j].end /\ w = RestClaim(g.pool[j], j)
    BY ClaimIs
  <2> QED BY <2>1, <2>2, <2>3, <2>4
<1>14. Within(y, x)
  <2> HIDE DEF x, y
  <2> QED BY <1>4, <1>5 DEF Within, IsClaim, MAddr
<1>15. Tidy(Claims(g), g.chunk)
  <2>1. Tidy(Claims(h), h.chunk) /\ h.chunk \in ChunkSpans
    BY DEF WellKept, HeapShape
  <2> HIDE DEF x, y
  <2>2. Tidy(Claims(g), h.chunk)
    BY <1>4, <1>13, <1>14, <2>1, Replaced
  <2> QED BY <1>11, <2>2
<1>16. \A n \in DOMAIN g.block : BlockFits(g, n)
  BY <1>11, <1>12 DEF WellKept, BlockFits
<1>17. \A j \in M!Pools : M!IsInjective(g.pool[j].free)
  BY <1>8, <1>9, <1>11 DEF WellKept
<1> QED BY <1>11, <1>15, <1>16, <1>17 DEF WellKept

(* free keeps the heap.                                                    *)
LEMMA ReleaseKeeps ==
  ASSUME M!MallocValid, NEW h, WellKept(h), NEW at \in DOMAIN h.block
  PROVE  WellKept(M!Release(h, at))
BY LargeReleased, SmallReleased

-----------------------------------------------------------------------------
(* realloc in place                                                        *)
LEMMA ResizeKeeps ==
  ASSUME M!MallocValid, NEW h, WellKept(h), NEW at \in DOMAIN h.block, NEW size \in BlockSizes,
         size <= M!Fitting(h, at), NEW g, g = M!WithBlock(h, at, size, h.block[at].large)
  PROVE  WellKept(g)
<1> DEFINE x == BlockClaim(h, at)
           y == BlockClaim(g, at)
<1>1. /\ HeapShape(h) /\ at \in MAddr /\ size \in Nat /\ h.block[at].large \in BOOLEAN
      /\ x \in Claims(h) /\ x[3] = at /\ x[4] = Extent(h, at) /\ Extent(h, at) \in Nat \ {0}
  BY ShapeIs, ClaimsAre DEF WellKept, M!MallocValid
<1>2. BlockIs(h, at, size, h.block[at].large, g)
  BY <1>1, BlockChanges
<1>3. /\ HeapShape(g) /\ g.pool = h.pool /\ g.chunk = h.chunk /\ DOMAIN g.block = DOMAIN h.block
      /\ g.block[at].size = size /\ (g.block[at].large <=> h.block[at].large)
      /\ \A n \in DOMAIN h.block : n # at => g.block[n] = h.block[n]
  BY <1>2 DEF BlockIs
<1>4. \A n \in DOMAIN h.block : n # at => BlockClaim(g, n) = BlockClaim(h, n)
        /\ Extent(g, n) = Extent(h, n)
  BY <1>3 DEF BlockClaim, Extent
<1>5. BlockFits(g, at) /\ Extent(g, at) \in Nat \ {0} /\ Extent(g, at) <= Extent(h, at)
  <2>1. BlockFits(h, at)
    BY DEF WellKept
  <2>2. CASE h.block[at].large
    <3>1. Extent(g, at) = h.chunk[at[1]] /\ Extent(h, at) = h.chunk[at[1]]
      BY <1>3, <2>2 DEF Extent
    <3>2. M!Header + size <= h.chunk[at[1]]
      BY <1>1, <2>2, <3>1 DEF M!Fitting, M!Header
    <3>3. at[2] = 0 /\ g.block[at].large /\ M!Header + g.block[at].size <= Extent(g, at)
      BY <1>3, <2>1, <2>2, <3>1, <3>2 DEF BlockFits
    <3>4. BlockFits(g, at)
      BY <3>3 DEF BlockFits
    <3>5. Extent(g, at) = Extent(h, at)
      BY <3>1
    <3> QED BY <1>1, <3>4, <3>5
  <2>3. CASE ~h.block[at].large
    <3> DEFINE k == M!GetPool(h.block[at].size)
               j == M!GetPool(size)
    <3>1. Extent(g, at) = M!Object(j) /\ Extent(h, at) = M!Object(k) /\ k \in M!Pools
      BY <1>3, <2>1, <2>3 DEF Extent, BlockFits
    <3>2. size <= M!Object(k) - M!Header
      BY <2>3 DEF M!Fitting
    <3> HIDE DEF k, j
    <3>3. size + M!Header <= M!Object(k)
      BY <1>1, <3>1, <3>2 DEF M!Header
    <3>4. j \in M!Pools /\ size + M!Header <= M!Object(j) /\ M!Object(j) <= M!Object(k)
            /\ M!Object(j) \in Nat \ {0}
      BY <3>1, <3>3 DEF M!MallocValid, j
    <3>5. M!Header + size <= M!Object(j)
      BY <1>1, <3>4 DEF M!Header
    <3> QED BY <1>3, <2>3, <3>1, <3>4, <3>5 DEF BlockFits, j
  <2> QED BY <2>2, <2>3
<1>6. y[3] = at /\ y[4] = Extent(g, at)
  BY DEF BlockClaim
<1> HIDE DEF x, y
<1>7. Within(y, x)
  <2>1. at[2] \in Nat
    BY <1>1 DEF MAddr
  <2>2. at[2] + Extent(g, at) <= at[2] + Extent(h, at)
    BY <1>1, <1>5, <2>1
  <2>3. IsClaim(y) /\ at[2] <= at[2]
    BY <1>1, <1>5, <1>6, <2>1 DEF IsClaim
  <2> QED BY <1>1, <1>6, <2>2, <2>3 DEF Within
<1>8. Claims(g) \subseteq (Claims(h) \ {x}) \cup {y, y}
  <2> SUFFICES ASSUME NEW w \in Claims(g)
               PROVE  w = y \/ (w \in Claims(h) /\ w # x)
    OBVIOUS
  <2>1. CASE \E n \in DOMAIN g.block : w = BlockClaim(g, n)
    <3>1. PICK n \in DOMAIN g.block : w = BlockClaim(g, n)
      BY <2>1
    <3>2. CASE n = at
      BY <3>1, <3>2 DEF y
    <3>3. CASE n # at
      <4>1. w = BlockClaim(h, n) /\ n \in DOMAIN h.block
        BY <1>3, <1>4, <3>1, <3>3
      <4>2. w \in Claims(h) /\ w[3] = n
        BY <4>1, ClaimsAre
      <4> QED BY <1>1, <3>3, <4>2
    <3> QED BY <3>2, <3>3
  <2>2. CASE \E j \in M!Pools : \E n \in M!ToSet(g.pool[j].free) : w = FreeClaim(j, n)
    <3>1. w \in Claims(h)
      BY <1>3, <2>2, ClaimIs
    <3>2. w # x
      BY <2>2 DEF FreeClaim, BlockClaim, x
    <3> QED BY <3>1, <3>2
  <2>3. CASE \E j \in M!Pools : g.pool[j].next < g.pool[j].end /\ w = RestClaim(g.pool[j], j)
    <3>1. w \in Claims(h)
      BY <1>3, <2>3, ClaimIs
    <3>2. w # x
      BY <2>3 DEF RestClaim, BlockClaim, x
    <3> QED BY <3>1, <3>2
  <2>4. \/ \E n \in DOMAIN g.block : w = BlockClaim(g, n)
        \/ \E j \in M!Pools : \E n \in M!ToSet(g.pool[j].free) : w = FreeClaim(j, n)
        \/ \E j \in M!Pools : g.pool[j].next < g.pool[j].end /\ w = RestClaim(g.pool[j], j)
    BY ClaimIs
  <2> QED BY <2>1, <2>2, <2>3, <2>4
<1>9. Tidy(Claims(g), g.chunk)
  <2>1. Tidy(Claims(h), h.chunk) /\ h.chunk \in ChunkSpans
    BY DEF WellKept, HeapShape
  <2>2. Tidy(Claims(g), h.chunk)
    BY <1>1, <1>7, <1>8, <2>1, Replaced
  <2> QED BY <1>3, <2>2
<1>10. \A n \in DOMAIN g.block : BlockFits(g, n)
  BY <1>3, <1>4, <1>5 DEF WellKept, BlockFits
<1>11. \A j \in M!Pools : M!IsInjective(g.pool[j].free)
  BY <1>3 DEF WellKept
<1> QED BY <1>3, <1>9, <1>10, <1>11 DEF WellKept

(* Of the chunks not in use one is the first.                              *)
LEMMA FirstUnused ==
  ASSUME M!MallocValid, M!Unused # {}
  PROVE  M!Min(M!Unused) \in MallocChunks /\ M!Min(M!Unused) \notin DOMAIN chunk
<1> DEFINE R == {ss \in Nat \X Nat : ss[1] < ss[2]}
<1>1. IsWellFoundedOn(R, Nat)
  BY NatLessThanWellFounded DEF OpToRel
<1> HIDE DEF R
<1>2. M!Unused \subseteq Nat
  BY DEF M!Unused, M!MallocValid
<1>3. PICK x \in M!Unused : \A y \in M!Unused : ~ (<<y, x>> \in R)
  BY <1>1, <1>2, WFMin
<1>4. \A y \in M!Unused : x <= y
  <2> TAKE y \in M!Unused
  <2>1. ~(<<y, x>> \in R) /\ x \in Nat /\ y \in Nat
    BY <1>2, <1>3
  <2>2. <<y, x>>[1] = y /\ <<y, x>>[2] = x
    OBVIOUS
  <2>3. ~(y < x)
    BY <2>1, <2>2 DEF R
  <2> QED BY <2>1, <2>3
<1>5. M!Min(M!Unused) \in M!Unused
  BY <1>4 DEF M!Min
<1> QED BY <1>5 DEF M!Unused

(* Rounding down to a multiple loses less than the divisor.                *)
LEMMA WholeChunks ==
  ASSUME NEW n \in Nat, NEW d \in Nat \ {0}
  PROVE  (n \div d) * d \in Nat /\ n < (n \div d) * d + d
<1> DEFINE q == n \div d
           r == n % d
<1>1. n = (d * q) + r
  OBVIOUS
<1>2. q \in Nat /\ r \in 0 .. d - 1
  OBVIOUS
<1> HIDE DEF q, r
<1>3. d * q = q * d /\ q * d \in Nat
  BY <1>2
<1>4. n < (q * d) + d
  BY <1>1, <1>2, <1>3
<1> QED BY <1>3, <1>4 DEF q

(* malloc                                                                  *)
LEMMA AllocKeeps ==
  ASSUME M!MallocValid, WellKept(M!Heap), NEW size \in BlockSizes, NEW g \in M!Alloc(M!Heap, size)
  PROVE  Extends(M!Heap, g)
<1>1. M!Heap.pool = pool /\ M!Heap.chunk = chunk /\ M!Heap.block = block
  BY DEF M!Heap
<1>2. PICK h : h = M!Heap
  OBVIOUS
<1>3. WellKept(h) /\ h.chunk = chunk
  BY <1>1, <1>2
<1>4. CASE M!IsSmall(size)
  <2> DEFINE k == M!GetPool(size)
  <2>1. k \in M!Pools /\ size + M!Header <= M!Object(k)
    BY <1>4 DEF M!MallocValid
  <2>2. g \in M!Small(h, size)
    BY <1>2, <1>4 DEF M!Alloc
  <2>3. CASE M!Filled(h.pool[k], k)
    <3>1. g = M!Get(h, k, size)
      BY <2>2, <2>3 DEF M!Small
    <3> HIDE DEF k
    <3>2. Extends(h, g)
      BY <1>3, <2>1, <2>3, <3>1, GetKeeps DEF k
    <3> QED BY <1>2, <3>2
  <2>4. CASE ~M!Filled(h.pool[k], k)
    <3>1. M!Unused # {} /\ g = M!Get(M!Grow(h, k, M!Min(M!Unused)), k, size)
      BY <2>2, <2>4 DEF M!Small
    <3>2. PICK c : c = M!Min(M!Unused)
      OBVIOUS
    <3>3. c \in MallocChunks /\ c \notin DOMAIN h.chunk
      BY <1>3, <3>1, <3>2, FirstUnused
    <3>4. PICK f : f = M!Grow(h, k, c)
      OBVIOUS
    <3> HIDE DEF k
    <3>5. Extends(h, f) /\ M!Filled(f.pool[k], k)
      BY <1>3, <2>1, <2>4, <3>3, <3>4, GrowKeeps
    <3>6. Extends(f, g)
      BY <2>1, <3>1, <3>2, <3>4, <3>5, GetKeeps DEF Extends, k
    <3> QED BY <1>2, <3>5, <3>6 DEF Extends
  <2> QED BY <2>3, <2>4
<1>5. CASE ~M!IsSmall(size)
  <2>1. g \in M!Large(h, size)
    BY <1>2, <1>5 DEF M!Alloc
  <2> DEFINE n == size + M!Header + ChunkMin - 1
             bytes == (n \div ChunkMin) * ChunkMin
  <2>2. M!Unused # {} /\ g = M!WithBlock(M!WithChunk(h, M!Min(M!Unused), bytes),
                                         <<M!Min(M!Unused), 0>>, size, TRUE)
    BY <2>1 DEF M!Large
  <2>3. PICK c : c = M!Min(M!Unused)
    OBVIOUS
  <2>4. c \in MallocChunks /\ c \notin DOMAIN h.chunk
    BY <1>3, <2>2, <2>3, FirstUnused
  <2>5. bytes \in Nat /\ size + M!Header <= bytes
    <3>1. ChunkMin \in Nat \ {0} /\ size \in Nat /\ n \in Nat /\ n = size + M!Header + ChunkMin - 1
      BY DEF M!MallocValid, M!Header
    <3> HIDE DEF n
    <3>2. bytes \in Nat /\ n < bytes + ChunkMin
      BY <3>1, WholeChunks
    <3> HIDE DEF bytes
    <3> QED BY <3>1, <3>2 DEF M!Header
  <2> HIDE DEF bytes
  <2>6. g = M!WithBlock(M!WithChunk(h, c, bytes), <<c, 0>>, size, TRUE)
    BY <2>2, <2>3
  <2>7. Extends(h, g)
    BY <1>3, <2>4, <2>5, <2>6, LargeKeeps
  <2> QED BY <1>2, <2>7
<1> QED BY <1>4, <1>5

(* The heap becomes another one.                                           *)
LEMMA HeapBecomes ==
  ASSUME NEW g, WellKept(g), M!Become(g)
  PROVE  WellKept(M!Heap')
<1>1. g = [pool |-> g.pool, chunk |-> g.chunk, block |-> g.block]
  BY DEF WellKept, HeapShape
<1>2. M!Heap' = [pool |-> g.pool, chunk |-> g.chunk, block |-> g.block]
  BY DEF M!Heap, M!Become
<1>3. M!Heap' = g
  BY ONLY <1>1, <1>2
<1> QED BY <1>3

-----------------------------------------------------------------------------
MallocInv == WellKept(M!Heap)

(* There is nothing at the start,                                          *)
LEMMA MallocStarts ==
  ASSUME M!MallocValid, M!Init
  PROVE  MallocInv
<1>1. M!Heap.pool = pool /\ M!Heap.chunk = chunk /\ M!Heap.block = block
  BY DEF M!Heap
<1>2. /\ \A k \in M!Pools : pool[k].free = <<>> /\ pool[k].next = 0 /\ pool[k].end = 0
      /\ pool \in [M!Pools -> PoolRec]
  BY DEF M!Init, PoolRec
<1>3. DOMAIN chunk = {} /\ DOMAIN block = {}
  BY DEF M!Init
<1>4. chunk \in ChunkSpans /\ block \in BlockMap
  <2>1. chunk \in [{} -> Nat] /\ block \in [{} -> BlockRec]
    BY DEF M!Init
  <2> QED BY <2>1 DEF ChunkSpans, BlockMap
<1>5. HeapShape(M!Heap)
  BY <1>2, <1>4 DEF HeapShape, M!Heap
<1>6. ASSUME NEW w \in Claims(M!Heap)
      PROVE  FALSE
  <2>1. \A k \in M!Pools : M!ToSet(pool[k].free) = {}
    BY <1>2 DEF M!ToSet
  <2>2. \/ \E n \in DOMAIN M!Heap.block : w = BlockClaim(M!Heap, n)
        \/ \E j \in M!Pools : \E n \in M!ToSet(M!Heap.pool[j].free) : w = FreeClaim(j, n)
        \/ \E j \in M!Pools : M!Heap.pool[j].next < M!Heap.pool[j].end
          /\ w = RestClaim(M!Heap.pool[j], j)
    BY ClaimIs
  <2> QED BY <1>1, <1>2, <1>3, <2>1, <2>2
<1>7. Tidy(Claims(M!Heap), M!Heap.chunk)
  BY <1>6 DEF Tidy, Disjoint, Inside
<1>8. \A n \in DOMAIN M!Heap.block : BlockFits(M!Heap, n)
  BY <1>1, <1>3
<1>9. \A j \in M!Pools : M!IsInjective(M!Heap.pool[j].free)
  BY <1>1, <1>2 DEF M!IsInjective
<1> QED BY <1>5, <1>7, <1>8, <1>9 DEF MallocInv, WellKept

(* and every step keeps the heap.                                          *)
LEMMA MallocStep ==
  ASSUME M!MallocValid, MallocInv, [M!Next]_M!vars
  PROVE  WellKept(M!Heap')
<1>1. M!Heap.pool = pool /\ M!Heap.chunk = chunk /\ M!Heap.block = block /\ WellKept(M!Heap)
  BY DEF M!Heap, MallocInv
<1>2. CASE UNCHANGED M!vars
  <2>1. M!Heap' = M!Heap
    BY <1>2 DEF M!vars, M!Heap
  <2> QED BY <1>1, <2>1
<1>3. CASE \E size \in BlockSizes : M!Malloc(size)
  <2>1. PICK size \in BlockSizes : \E h \in M!Alloc(M!Heap, size) : M!Become(h)
    BY <1>3 DEF M!Malloc
  <2>2. PICK g \in M!Alloc(M!Heap, size) : M!Become(g)
    BY <2>1
  <2>3. WellKept(g)
    BY <1>1, AllocKeeps DEF Extends
  <2> QED BY <2>2, <2>3, HeapBecomes
<1>4. CASE \E m \in DOMAIN block : M!FreeBlock(m)
  <2>1. PICK at \in DOMAIN block : M!Become(M!Release(M!Heap, at))
    BY <1>4 DEF M!FreeBlock
  <2>2. WellKept(M!Release(M!Heap, at))
    BY <1>1, ReleaseKeeps
  <2> QED BY <2>1, <2>2, HeapBecomes
<1>5. CASE \E m \in DOMAIN block, size \in BlockSizes : M!Realloc(m, size)
  <2>1. PICK at \in DOMAIN block, size \in BlockSizes : M!Realloc(at, size)
    BY <1>5
  <2>2. CASE M!Become(M!Release(M!Heap, at))
    <3>1. WellKept(M!Release(M!Heap, at))
      BY <1>1, ReleaseKeeps
    <3> QED BY <2>2, <3>1, HeapBecomes
  <2>3. CASE size <= M!Fitting(M!Heap, at)
               /\ M!Become(M!WithBlock(M!Heap, at, size, block[at].large))
    <3>1. PICK g : g = M!WithBlock(M!Heap, at, size, M!Heap.block[at].large)
      OBVIOUS
    <3>2. WellKept(g)
      BY <1>1, <2>3, <3>1, ResizeKeeps
    <3>3. M!Become(g)
      BY <1>1, <2>3, <3>1
    <3> QED BY <3>2, <3>3, HeapBecomes
  <2>4. CASE \E h \in M!Alloc(M!Heap, size) : M!Become(M!Release(h, at))
    <3>1. PICK h \in M!Alloc(M!Heap, size) : M!Become(M!Release(h, at))
      BY <2>4
    <3>2. WellKept(h) /\ at \in DOMAIN h.block
      BY <1>1, AllocKeeps DEF Extends
    <3>3. WellKept(M!Release(h, at))
      BY <3>2, ReleaseKeeps
    <3> QED BY <3>1, <3>3, HeapBecomes
  <2> QED BY <2>1, <2>2, <2>3, <2>4 DEF M!Realloc
<1> QED BY <1>2, <1>3, <1>4, <1>5 DEF M!Next

-----------------------------------------------------------------------------
(* What is owned lies within a claim: a block within that of the block, an *)
(* object of a free list within its own, and one that a pool has not       *)
(* handed out within that of the rest of its chunk.                        *)
ObjectOf(a, k, at) == a = <<{k}, at, M!Object(k)>>
Holds(h, a, x) ==
  \/ \E at \in DOMAIN h.block :
       a = <<{}, at, M!Header + h.block[at].size>> /\ x = BlockClaim(h, at)
  \/ \E k \in M!Pools : \E at \in M!ToSet(h.pool[k].free) : ObjectOf(a, k, at)
    /\ x = FreeClaim(k, at)
  \/ \E k \in M!Pools : \E at \in M!Rest(h.pool[k], k) : ObjectOf(a, k, at)
    /\ x = RestClaim(h.pool[k], k)

Lies(a, x) ==
  /\ a[2] \in MAddr /\ a[3] \in Nat /\ a[2][1] = x[3][1]
  /\ x[3][2] <= a[2][2] /\ a[2][2] + a[3] <= x[3][2] + x[4]

(* Each owned piece has a claim.                                           *)
LEMMA EachHolds ==
  ASSUME NEW a \in M!Owned
  PROVE  \E x : Holds(M!Heap, a, x)
<1>1. M!Heap.pool = pool /\ M!Heap.chunk = chunk /\ M!Heap.block = block
  BY DEF M!Heap
<1>2. CASE a \in {<<{}, m, M!Header + block[m].size>> : m \in DOMAIN block}
  <2>1. PICK at \in DOMAIN block : a = <<{}, at, M!Header + block[at].size>>
    BY <1>2
  <2>2. Holds(M!Heap, a, BlockClaim(M!Heap, at))
    BY <1>1, <2>1 DEF Holds
  <2> QED BY <2>2
<1>3. CASE \E k \in M!Pools : a \in 
           {<<{k}, m, M!Object(k)>> : m \in M!ToSet(pool[k].free) \cup M!Rest(pool[k], k)}
  <2>1. PICK k \in M!Pools : a \in 
             {<<{k}, m, M!Object(k)>> : m \in M!ToSet(pool[k].free) \cup M!Rest(pool[k], k)}
    BY <1>3
  <2>2. PICK at \in M!ToSet(pool[k].free) \cup M!Rest(pool[k], k) : ObjectOf(a, k, at)
    BY <2>1 DEF ObjectOf
  <2>3. CASE at \in M!ToSet(pool[k].free)
    <3>1. Holds(M!Heap, a, FreeClaim(k, at))
      BY <1>1, <2>2, <2>3 DEF Holds
    <3> QED BY <3>1
  <2>4. CASE at \in M!Rest(pool[k], k)
    <3>1. Holds(M!Heap, a, RestClaim(M!Heap.pool[k], k))
      BY <1>1, <2>2, <2>4 DEF Holds
    <3> QED BY <3>1
  <2> QED BY <2>2, <2>3, <2>4
<1> QED BY <1>2, <1>3 DEF M!Owned

(* An object that a pool has not handed out.                               *)
LEMMA RestIs ==
  ASSUME M!MallocValid, NEW k \in M!Pools, NEW p \in PoolRec, NEW at \in M!Rest(p, k)
  PROVE  /\ at \in MAddr /\ at = <<p.chunk, at[2]>> /\ p.next <= at[2]
           /\ at[2] + M!Object(k) <= p.end
         /\ (at[2] - p.next) % M!Object(k) = 0 /\ p.next < p.end
<1>1. PICK o \in {x \in p.next .. p.end : (x - p.next) % M!Object(k) = 0
             /\ x + M!Object(k) <= p.end} :
        at = <<p.chunk, o>>
  BY DEF M!Rest
<1>2. p.chunk \in Nat /\ p.next \in Nat /\ p.end \in Nat /\ M!Object(k) \in Nat \ {0}
  BY DEF PoolRec, M!MallocValid
<1>3. o \in Nat /\ p.next <= o /\ o + M!Object(k) <= p.end /\ (o - p.next) % M!Object(k) = 0
  BY <1>1, <1>2
<1>4. at[2] = o
  BY <1>1
<1>5. p.next < p.end
  BY <1>2, <1>3
<1> QED BY <1>1, <1>2, <1>3, <1>4, <1>5 DEF MAddr

(* The claim of an owned piece covers it.                                  *)
LEMMA ClaimCovers ==
  ASSUME M!MallocValid, NEW h, WellKept(h), NEW a, NEW x, Holds(h, a, x)
  PROVE  x \in Claims(h) /\ IsClaim(x) /\ Lies(a, x)
<1>1. /\ Inside(Claims(h), h.chunk) /\ \A m \in DOMAIN h.block : BlockFits(h, m)
      /\ \A m \in DOMAIN h.block : h.block[m].size \in BlockSizes
      /\ \A k \in M!Pools : h.pool[k] \in PoolRec
  BY ShapeIs DEF WellKept, Tidy
<1>2. CASE \E at \in DOMAIN h.block : a = <<{}, at, M!Header + h.block[at].size>>
             /\ x = BlockClaim(h, at)
  <2>1. PICK at \in DOMAIN h.block : a = <<{}, at, M!Header + h.block[at].size>>
               /\ x = BlockClaim(h, at)
    BY <1>2
  <2>2. x \in Claims(h) /\ x[3] = at /\ x[4] = Extent(h, at) /\ at \in MAddr
          /\ Extent(h, at) \in Nat
    BY <2>1, ClaimsAre
  <2>3. M!Header + h.block[at].size <= Extent(h, at) /\ h.block[at].size \in Nat
    BY <1>1 DEF BlockFits, M!MallocValid
  <2>4. a[2] = at /\ a[3] = M!Header + h.block[at].size
    BY <2>1
  <2>5. at[2] \in Nat
    BY <2>2 DEF MAddr
  <2>6. Lies(a, x)
    BY <2>2, <2>3, <2>4, <2>5 DEF Lies, M!Header
  <2> QED BY <1>1, <2>2, <2>6 DEF Inside
<1>3. CASE \E k \in M!Pools : \E at \in M!ToSet(h.pool[k].free) : ObjectOf(a, k, at)
             /\ x = FreeClaim(k, at)
  <2>1. PICK k \in M!Pools : \E at \in M!ToSet(h.pool[k].free) : ObjectOf(a, k, at)
               /\ x = FreeClaim(k, at)
    BY <1>3
  <2>2. PICK at \in M!ToSet(h.pool[k].free) : ObjectOf(a, k, at) /\ x = FreeClaim(k, at)
    BY <2>1
  <2>3. x \in Claims(h) /\ at \in MAddr
    BY <2>2, ClaimsAre
  <2>4. a[2] = at /\ a[3] = M!Object(k) /\ x[3] = at /\ x[4] = M!Object(k)
    BY <2>2 DEF ObjectOf, FreeClaim
  <2>5. M!Object(k) \in Nat /\ at[2] \in Nat
    BY <2>3 DEF M!MallocValid, MAddr
  <2>6. Lies(a, x)
    BY <2>3, <2>4, <2>5 DEF Lies
  <2> QED BY <1>1, <2>3, <2>6 DEF Inside
<1>4. CASE \E k \in M!Pools : \E at \in M!Rest(h.pool[k], k) : ObjectOf(a, k, at)
             /\ x = RestClaim(h.pool[k], k)
  <2>1. PICK k \in M!Pools : \E at \in M!Rest(h.pool[k], k) : ObjectOf(a, k, at)
               /\ x = RestClaim(h.pool[k], k)
    BY <1>4
  <2>2. PICK at \in M!Rest(h.pool[k], k) : ObjectOf(a, k, at) /\ x = RestClaim(h.pool[k], k)
    BY <2>1
  <2>3. PICK p \in PoolRec : p = h.pool[k]
    BY <1>1
  <2>4. /\ at \in MAddr /\ at = <<p.chunk, at[2]>> /\ p.next <= at[2]
          /\ at[2] + M!Object(k) <= p.end
        /\ p.next < p.end
    BY <2>2, <2>3, RestIs
  <2>5. x \in Claims(h)
    BY <2>2, <2>3, <2>4, ClaimsAre
  <2>6. a[2] = at /\ a[3] = M!Object(k) /\ x[3] = <<p.chunk, p.next>> /\ x[4] = p.end - p.next
    BY <2>2, <2>3 DEF ObjectOf, RestClaim
  <2>7. M!Object(k) \in Nat /\ at[2] \in Nat /\ p.next \in Nat /\ p.end \in Nat /\ at[1] = p.chunk
    BY <2>4 DEF M!MallocValid, MAddr, PoolRec
  <2>8. x[3][1] = p.chunk /\ x[3][2] = p.next
    BY <2>6
  <2>9. Lies(a, x)
    BY <2>4, <2>6, <2>7, <2>8 DEF Lies
  <2> QED BY <1>1, <2>5, <2>9 DEF Inside
<1> QED BY <1>2, <1>3, <1>4 DEF Holds

(* Two different multiples are at least the divisor apart.                 *)
LEMMA MultiplesApart ==
  ASSUME NEW n \in Nat, NEW m \in Nat, NEW d \in Nat \ {0}, n % d = 0, m % d = 0, n # m
  PROVE  n + d <= m \/ m + d <= n
<1> DEFINE q == n \div d
           r == m \div d
<1>1. n = d * q + (n % d) /\ q \in Nat
  OBVIOUS
<1>2. m = d * r + (m % d) /\ r \in Nat
  OBVIOUS
<1> HIDE DEF q, r
<1>3. n = d * q /\ m = d * r
  BY <1>1, <1>2
<1>4. CASE q < r
  <2>1. PICK e \in Nat : r = q + 1 + e
    <3>1. r - q - 1 \in Nat /\ r = q + 1 + (r - q - 1)
      BY <1>1, <1>2, <1>4
    <3> QED BY <3>1
  <2>2. d * r = d * q + d + d * e /\ d * e \in Nat /\ d * q \in Nat
    BY <1>1, <2>1
  <2> QED BY <1>3, <2>2
<1>5. CASE r < q
  <2>1. PICK e \in Nat : q = r + 1 + e
    <3>1. q - r - 1 \in Nat /\ q = r + 1 + (q - r - 1)
      BY <1>1, <1>2, <1>5
    <3> QED BY <3>1
  <2>2. d * q = d * r + d + d * e /\ d * e \in Nat /\ d * r \in Nat
    BY <1>2, <2>1
  <2> QED BY <1>3, <2>2
<1>6. q # r
  BY <1>3
<1> QED BY <1>1, <1>2, <1>4, <1>5, <1>6

(* Pieces that do not meet.                                                *)
Separate(a, b) == a[2][1] # b[2][1] \/ a[2][2] + a[3] <= b[2][2] \/ b[2][2] + b[3] <= a[2][2]

(* Two owned pieces with one claim are objects a pool has not handed out.  *)
LEMMA SameClaim ==
  ASSUME M!MallocValid, NEW h, WellKept(h), NEW a, NEW b, NEW x,
         Holds(h, a, x), Holds(h, b, x), a # b
  PROVE  Separate(a, b)
<1> DEFINE OfBlock(p) == \E at \in DOMAIN h.block :
                           p = <<{}, at, M!Header + h.block[at].size>> /\ x = BlockClaim(h, at)
           OfFree(p) == \E k \in M!Pools : \E at \in M!ToSet(h.pool[k].free) :
                          ObjectOf(p, k, at) /\ x = FreeClaim(k, at)
           OfRest(p) == \E k \in M!Pools : \E at \in M!Rest(h.pool[k], k) :
                          ObjectOf(p, k, at) /\ x = RestClaim(h.pool[k], k)
<1>1. OfBlock(a) \/ OfFree(a) \/ OfRest(a)
  BY DEF Holds
<1>2. OfBlock(b) \/ OfFree(b) \/ OfRest(b)
  BY DEF Holds
<1>3. ASSUME NEW p
      PROVE  /\ OfBlock(p) => x[1] = "block"
             /\ OfFree(p) => x[1] = "free"
             /\ OfRest(p) => x[1] = "rest"
  BY DEF BlockClaim, FreeClaim, RestClaim
<1>4. ~(OfBlock(a) /\ OfBlock(b))
  BY DEF BlockClaim
<1>5. ~(OfFree(a) /\ OfFree(b))
  BY DEF FreeClaim, ObjectOf
<1>6. OfRest(a) /\ OfRest(b)
  <2> HIDE DEF OfBlock, OfFree, OfRest
  <2>1. "block" # "free" /\ "block" # "rest" /\ "free" # "rest"
    OBVIOUS
  <2> QED BY <1>1, <1>2, <1>3, <1>4, <1>5, <2>1
<1>7. PICK k \in M!Pools : \E at \in M!Rest(h.pool[k], k) : ObjectOf(a, k, at)
             /\ x = RestClaim(h.pool[k], k)
  BY <1>6
<1>8. PICK u \in M!Rest(h.pool[k], k) : ObjectOf(a, k, u) /\ x = RestClaim(h.pool[k], k)
  BY <1>7
<1>9. PICK j \in M!Pools : \E at \in M!Rest(h.pool[j], j) : ObjectOf(b, j, at)
             /\ x = RestClaim(h.pool[j], j)
  BY <1>6
<1>10. PICK v \in M!Rest(h.pool[j], j) : ObjectOf(b, j, v) /\ x = RestClaim(h.pool[j], j)
  BY <1>9
<1>11. j = k
  BY <1>8, <1>10 DEF RestClaim
<1>12. PICK p \in PoolRec : p = h.pool[k]
  BY ShapeIs DEF WellKept
<1>13. /\ u \in MAddr /\ u = <<p.chunk, u[2]>> /\ p.next <= u[2]
       /\ (u[2] - p.next) % M!Object(k) = 0
  BY <1>8, <1>12, RestIs
<1>14. /\ v \in MAddr /\ v = <<p.chunk, v[2]>> /\ p.next <= v[2]
       /\ (v[2] - p.next) % M!Object(k) = 0
  BY <1>10, <1>11, <1>12, RestIs
<1>15. a[2] = u /\ a[3] = M!Object(k) /\ b[2] = v /\ b[3] = M!Object(k) /\ u # v
  BY <1>8, <1>10, <1>11 DEF ObjectOf
<1>16. /\ M!Object(k) \in Nat \ {0} /\ u[2] \in Nat /\ v[2] \in Nat /\ p.next \in Nat
       /\ u[1] = p.chunk /\ v[1] = p.chunk
  BY <1>13, <1>14 DEF M!MallocValid, MAddr, PoolRec
<1>17. u[2] # v[2]
  BY <1>13, <1>14, <1>15
<1>18. u[2] - p.next \in Nat /\ v[2] - p.next \in Nat /\ u[2] - p.next # v[2] - p.next
  BY <1>13, <1>14, <1>16, <1>17
<1>19. \/ (u[2] - p.next) + M!Object(k) <= v[2] - p.next
       \/ (v[2] - p.next) + M!Object(k) <= u[2] - p.next
  BY <1>13, <1>14, <1>16, <1>18, MultiplesApart
<1>20. u[2] + M!Object(k) <= v[2] \/ v[2] + M!Object(k) <= u[2]
  BY <1>16, <1>19
<1> QED BY <1>15, <1>20 DEF Separate

(* The invariant implies the property.                                     *)
LEMMA MallocMeans ==
  ASSUME M!MallocValid, MallocInv
  PROVE  M!MallocSound
<1>1. M!Heap.pool = pool /\ M!Heap.chunk = chunk /\ M!Heap.block = block /\ WellKept(M!Heap)
  BY DEF M!Heap, MallocInv
<1>2. PICK h : h = M!Heap
  OBVIOUS
<1>3. WellKept(h) /\ h.chunk = chunk /\ h.pool = pool
  BY <1>1, <1>2
<1>4. \A a \in M!Owned : \E x : x \in Claims(h) /\ Holds(h, a, x) /\ IsClaim(x) /\ Lies(a, x)
  <2> TAKE a \in M!Owned
  <2>1. PICK x : Holds(h, a, x)
    BY <1>2, EachHolds
  <2> QED BY <1>3, <2>1, ClaimCovers
<1>5. ASSUME NEW a \in M!Owned, NEW b \in M!Owned, a # b
      PROVE  M!Units(a[2], a[3]) \cap M!Units(b[2], b[3]) = {}
  <2>1. PICK x : x \in Claims(h) /\ Holds(h, a, x) /\ IsClaim(x) /\ Lies(a, x)
    BY <1>4
  <2>2. PICK y : y \in Claims(h) /\ Holds(h, b, y) /\ IsClaim(y) /\ Lies(b, y)
    BY <1>4
  <2>3. Separate(a, b)
    <3>1. CASE x = y
      BY <1>3, <1>5, <2>1, <2>2, <3>1, SameClaim
    <3>2. CASE x # y
      <4>1. AreApart(x, y)
        BY <1>3, <2>1, <2>2, <3>2 DEF WellKept, Tidy, Disjoint
      <4>2. /\ a[2][1] = x[3][1] /\ b[2][1] = y[3][1]
            /\ x[3][2] <= a[2][2] /\ a[2][2] + a[3] <= x[3][2] + x[4]
            /\ y[3][2] <= b[2][2] /\ b[2][2] + b[3] <= y[3][2] + y[4]
        BY <2>1, <2>2 DEF Lies
      <4>3. /\ x[3][2] \in Nat /\ x[4] \in Nat /\ y[3][2] \in Nat /\ y[4] \in Nat
            /\ a[2][2] \in Nat /\ a[3] \in Nat /\ b[2][2] \in Nat /\ b[3] \in Nat
        BY <2>1, <2>2 DEF Lies, IsClaim, MAddr
      <4> QED BY <4>1, <4>2, <4>3 DEF AreApart, Separate
    <3> QED BY <3>1, <3>2
  <2>4. /\ a[2][1] \in Nat /\ a[2][2] \in Nat /\ a[3] \in Nat
        /\ b[2][1] \in Nat /\ b[2][2] \in Nat /\ b[3] \in Nat
    BY <2>1, <2>2 DEF Lies, MAddr
  <2> SUFFICES ASSUME NEW u \in M!Units(a[2], a[3]), u \in M!Units(b[2], b[3])
               PROVE  FALSE
    OBVIOUS
  <2>5. u[1] = a[2][1] /\ u[2] \in a[2][2] .. a[2][2] + a[3] - 1
    BY DEF M!Units
  <2>6. u[1] = b[2][1] /\ u[2] \in b[2][2] .. b[2][2] + b[3] - 1
    BY DEF M!Units
  <2> QED BY <2>3, <2>4, <2>5, <2>6 DEF Separate
<1>6. \A a \in M!Owned : a[2][1] \in DOMAIN chunk /\ a[2][2] + a[3] <= chunk[a[2][1]]
  <2> TAKE a \in M!Owned
  <2>1. PICK x : x \in Claims(h) /\ Holds(h, a, x) /\ IsClaim(x) /\ Lies(a, x)
    BY <1>4
  <2>2. x[3][1] \in DOMAIN chunk /\ x[3][2] + x[4] <= chunk[x[3][1]]
    BY <1>3, <2>1 DEF WellKept, Tidy, Inside
  <2>3. /\ a[2][1] = x[3][1] /\ a[2][2] + a[3] <= x[3][2] + x[4]
        /\ x[3][2] \in Nat /\ x[4] \in Nat /\ a[2][2] \in Nat /\ a[3] \in Nat
    BY <2>1 DEF Lies, IsClaim, MAddr
  <2>4. chunk[x[3][1]] \in Nat
    BY <1>3, <2>2, ShapeIs DEF WellKept
  <2> QED BY <2>2, <2>3, <2>4
<1>7. \A k \in M!Pools : M!IsInjective(pool[k].free)
  BY <1>3 DEF WellKept
<1> QED BY <1>5, <1>6, <1>7 DEF M!MallocSound

(* Whatever is allocated, resized and released: blocks, free objects and   *)
(* what pools have left never overlap.                                     *)
THEOREM BlocksAreSound ==
  ASSUME M!MallocValid
  PROVE  M!Spec => []M!MallocSound
<1>1. M!Init => MallocInv
  BY MallocStarts
<1>2. MallocInv /\ [M!Next]_M!vars => MallocInv'
  BY MallocStep DEF MallocInv
<1>3. MallocInv => M!MallocSound
  BY MallocMeans
<1> QED BY <1>1, <1>2, <1>3, PTL DEF M!Spec

=============================================================================
