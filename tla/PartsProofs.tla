---------------------------- MODULE PartsProofs ----------------------------
(***************************************************************************)
(* What is proved of a component by itself holds of it in MCParts, where a *)
(* behaviour is one of a single component: modules, events and memory (see *)
(* HeapPartsProofs for the heap).                                          *)
(***************************************************************************)
EXTENDS MCParts, FiniteSets, TLAPS

Loading == INSTANCE ModulesProofs
Logging == INSTANCE EventsProofs
Memory == INSTANCE MemoryProofs

-----------------------------------------------------------------------------
(* The two instances of Modules are the same.                              *)
LEMMA SameLoad ==
  /\ Load!Next <=> Loading!Next
  /\ Load!ImportsReady <=> Loading!ImportsReady
  /\ Load!InitOnce <=> Loading!InitOnce
<1>1. \A t, name :
       /\ Load!Main(t, name) <=> Loading!Main(t, name)
       /\ Load!EntryPoints(t, name) <=> Loading!EntryPoints(t, name)
       /\ Load!NativeMain(t, name) <=> Loading!NativeMain(t, name)
       /\ Load!Unload(t, name) <=> Loading!Unload(t, name)
  BY DEF Load!Fail, Loading!Fail, Load!InLibrary, Loading!InLibrary, Load!Registered,
         Loading!Registered, Load!Provides, Loading!Provides, Load!Loadable, Loading!Loadable,
         Load!Asked, Loading!Asked, Load!Opened, Loading!Opened, Load!Entries,
         Loading!Entries, Load!First, Loading!First, Load!Found, Loading!Found, Load!Value,
         Loading!Value, Load!Becomes, Loading!Becomes, Load!Does, Loading!Does, Load!RemoveAt,
         Loading!RemoveAt, Load!LoadModule, Loading!LoadModule, Load!Main, Loading!Main,
         Load!EntryPoints, Loading!EntryPoints, Load!NativeMain, Loading!NativeMain,
         Load!Unload, Loading!Unload
<1>2. \A t :
       /\ Load!ModuleInit(t) <=> Loading!ModuleInit(t)
       /\ Load!NativeInit(t) <=> Loading!NativeInit(t)
       /\ Load!Import(t) <=> Loading!Import(t)
       /\ Load!NativeImport(t) <=> Loading!NativeImport(t)
  BY DEF Load!Imports, Loading!Imports, Load!Fail, Loading!Fail, Load!InLibrary,
         Loading!InLibrary, Load!Registered, Loading!Registered, Load!Provides,
         Loading!Provides, Load!Loadable, Loading!Loadable, Load!Asked, Loading!Asked,
         Load!Opened, Loading!Opened, Load!Entries, Loading!Entries, Load!First,
         Loading!First, Load!Found, Loading!Found, Load!Value, Loading!Value, Load!Becomes,
         Loading!Becomes, Load!Stack, Loading!Stack, Load!Does, Loading!Does, Load!Top,
         Loading!Top, Load!TopIs, Loading!TopIs, Load!Last, Loading!Last, Load!Front,
         Loading!Front, Load!LoadModule, Loading!LoadModule, Load!ModuleFrame,
         Loading!ModuleFrame, Load!Code, Loading!Code, Load!ImportFrame, Loading!ImportFrame,
         Load!Named, Loading!Named, Load!Prepared, Loading!Prepared, Load!Stored,
         Loading!Stored, Load!NextImport, Loading!NextImport, Load!ModuleInit,
         Loading!ModuleInit, Load!NativeInit, Loading!NativeInit, Load!Import, Loading!Import,
         Load!NativeImport, Loading!NativeImport
<1>3. \A t :
       /\ Load!Run(t) <=> Loading!Run(t)
       /\ Load!ModuleEnd(t) <=> Loading!ModuleEnd(t)
       /\ Load!NativeEnd(t) <=> Loading!NativeEnd(t)
       /\ Load!Finish(t) <=> Loading!Finish(t)
  BY DEF Load!Fail, Loading!Fail, Load!Becomes, Loading!Becomes, Load!Stack, Loading!Stack,
         Load!Does, Loading!Does, Load!Top, Loading!Top, Load!TopIs, Loading!TopIs, Load!Last,
         Loading!Last, Load!Front, Loading!Front, Load!Entered, Loading!Entered, Load!Run,
         Loading!Run, Load!ModuleEnd, Loading!ModuleEnd, Load!NativeEnd, Loading!NativeEnd,
         Load!Finish, Loading!Finish
<1>4. Load!Next <=> Loading!Next
  BY <1>1, <1>2, <1>3 DEF Load!Next, Loading!Next, Load!Name, Loading!Name
<1>5. Load!ImportsReady <=> Loading!ImportsReady
  BY DEF Load!ImportsReady, Loading!ImportsReady, Load!Imports, Loading!Imports
<1>6. Load!InitOnce <=> Loading!InitOnce
  BY DEF Load!InitOnce, Loading!InitOnce, Load!Cardinality, Loading!Cardinality
<1> QED BY <1>4, <1>5, <1>6

(* A behaviour with the component "modules" is one of Modules.             *)
LEMMA LoadStep ==
  ASSUME [Next]_vars
  PROVE  part' = part /\ (part = "modules" => Load!Next \/ UNCHANGED modulesVars)
<1>1. CASE UNCHANGED vars
  BY <1>1 DEF vars
<1>2. CASE Next
  BY <1>2 DEF Next
<1> QED BY <1>1, <1>2

(* Modules are initialised after their imports and once by a thread that   *)
(* is alone (cby/module.c, native/module.c), in the composition that TLC   *)
(* checks too.                                                             *)
THEOREM ImportsAreReady ==
  ASSUME IsFiniteSet(MThreads)
  PROVE  Spec => []ImportsReady
<1> DEFINE Inv == part = "modules" => Loading!LoadInv /\ Loading!OnceInv
<1>1. Init => Inv
  <2>1. Init /\ part = "modules" => Load!Init
    BY DEF Init
  <2>2. Load!Init => Loading!Fresh
    BY DEF Load!Init, Loading!Fresh, Load!Fail, Loading!Fail
  <2> QED BY <2>1, <2>2, Loading!LoadInit, Loading!OnceFirst
<1>2. Inv /\ [Next]_vars => Inv'
  <2> SUFFICES ASSUME Inv, [Next]_vars, part' = "modules"
               PROVE  Loading!LoadInv' /\ Loading!OnceInv'
    OBVIOUS
  <2>1. part = "modules" /\ (Load!Next \/ UNCHANGED modulesVars)
    BY LoadStep
  <2>2. Loading!LoadInv /\ Loading!OnceInv /\ [Loading!Next]_Loading!vars
    BY <2>1, SameLoad DEF modulesVars, Loading!vars
  <2>3. Loading!IsFiniteSet(MThreads)
    BY DEF IsFiniteSet, Loading!IsFiniteSet
  <2> QED BY <2>2, <2>3, Loading!LoadNext, Loading!OnceNext
<1>3. Inv => ImportsReady
  BY SameLoad, Loading!LoadImports, Loading!OnceInits DEF ImportsReady
<1> HIDE DEF Inv
<1> QED BY <1>1, <1>2, <1>3, PTL DEF Spec

-----------------------------------------------------------------------------
(* The two instances of Events are the same.                               *)
LEMMA SameLog ==
  /\ Log!Init <=> Logging!Init
  /\ Log!Next <=> Logging!Next
  /\ Log!EventsWhole <=> Logging!EventsWhole
  /\ Log!WritersValid <=> Logging!WritersValid
<1>1. Log!Init <=> Logging!Init
  BY DEF Log!Init, Logging!Init, Log!Buffer, Logging!Buffer, Log!NoBuffer, Logging!NoBuffer,
         Log!Everybody, Logging!Everybody
<1>2. Log!Next <=> Logging!Next
  BY DEF Log!Buffer, Logging!Buffer, Log!NoBuffer, Logging!NoBuffer,
         Log!Everybody, Logging!Everybody, Log!Move, Logging!Move, Log!Look, Logging!Look,
         Log!Fresh, Logging!Fresh, Log!Create, Logging!Create, Log!Same, Logging!Same,
         Log!Load, Logging!Load, Log!ReadLink, Logging!ReadLink, Log!Pop, Logging!Pop,
         Log!AcquireOwn, Logging!AcquireOwn, Log!WriteEvent, Logging!WriteEvent,
         Log!Sink, Logging!Sink, Log!SetLink, Logging!SetLink, Log!Push, Logging!Push,
         Log!WorkerStart, Logging!WorkerStart, Log!WorkerStop, Logging!WorkerStop,
         Log!Closed, Logging!Closed, Log!Chain, Logging!Chain,
         Log!EventDestroy, Logging!EventDestroy, Log!Next, Logging!Next
<1>3. Log!EventsWhole <=> Logging!EventsWhole
  BY DEF Log!EventsWhole, Logging!EventsWhole, Log!Everybody, Logging!Everybody, Log!Holding,
         Logging!Holding, Log!Chain, Logging!Chain, Log!Closed, Logging!Closed, Log!Buffer,
         Logging!Buffer, Log!NoBuffer, Logging!NoBuffer
<1>4. Log!WritersValid <=> Logging!WritersValid
  BY DEF Log!WritersValid, Logging!WritersValid
<1> QED BY <1>1, <1>2, <1>3, <1>4

(* A behaviour with the component "events" is one of Events.               *)
LEMMA LogStep ==
  ASSUME [Next]_vars
  PROVE  part' = part /\ (part = "events" => Log!Next \/ UNCHANGED eventsVars)
<1>1. CASE UNCHANGED vars
  BY <1>1 DEF vars
<1>2. CASE Next
  BY <1>2 DEF Next
<1> QED BY <1>1, <1>2

(* The event buffers are whole with two writers besides the worker         *)
(* (event.c), in the composition that TLC checks too.                      *)
THEOREM EventsAreWhole ==
  ASSUME \A s, t, u \in Writers : s = t \/ t = u \/ s = u
  PROVE  Spec => []EventsWhole
<1> DEFINE Inv == part = "events" => Logging!LogInv
<1>1. Logging!WritersValid /\ Logging!TwoWriters
  BY SameLog, LogWriters DEF Logging!TwoWriters
<1>2. Init => Inv
  <2>1. Init /\ part = "events" => Log!Init
    BY DEF Init
  <2> QED BY <1>1, <2>1, SameLog, Logging!LogFirst
<1>3. Inv /\ [Next]_vars => Inv'
  <2> SUFFICES ASSUME Inv, [Next]_vars, part' = "events"
               PROVE  Logging!LogInv'
    OBVIOUS
  <2>1. part = "events" /\ (Log!Next \/ UNCHANGED eventsVars)
    BY LogStep
  <2>2. Logging!LogInv /\ [Logging!Next]_Logging!vars
    BY <2>1, SameLog DEF eventsVars, Logging!vars
  <2> QED BY <1>1, <2>2, Logging!LogNext
<1>4. Inv => EventsWhole
  BY <1>1, SameLog, Logging!LogWhole DEF EventsWhole
<1> HIDE DEF Inv
<1> QED BY <1>2, <1>3, <1>4, PTL DEF Spec

-----------------------------------------------------------------------------
(* The two instances of ChunkArena are the same.                           *)
LEMMA SameChunk ==
  /\ Chunk!Init <=> Memory!Init
  /\ Chunk!Next <=> Memory!Next
  /\ Chunk!ArenaSound <=> Memory!ArenaSound
  /\ Chunk!HeldUsable <=> Memory!HeldUsable
  /\ Chunk!NoLeak <=> Memory!NoLeak
  /\ Chunk!ArenaValid <=> Memory!ArenaValid
<1>1. \A k : Chunk!ClassSmaller(k) = Memory!ClassSmaller(k)
  BY DEF Chunk!ClassSmaller, Memory!ClassSmaller, Chunk!Max, Memory!Max
<1>2. Chunk!MaxClass = Memory!MaxClass
  BY <1>1 DEF Chunk!MaxClass, Memory!MaxClass
<1>3. \A s : Chunk!Max(s) = Memory!Max(s)
  BY DEF Chunk!Max, Memory!Max
<1>4. \A a, s, u : /\ Chunk!Mark(a, s, u) = Memory!Mark(a, s, u)
                   /\ Chunk!WithList(a, s, u) = Memory!WithList(a, s, u)
  BY DEF Chunk!Mark, Memory!Mark, Chunk!WithList, Memory!WithList
<1>5. \A q, s : Chunk!Delete(q, s) = Memory!Delete(q, s)
  BY DEF Chunk!Delete, Memory!Delete, Chunk!RemoveAt, Memory!RemoveAt
<1>6. \A a, s : Chunk!Unlist(a, s) = Memory!Unlist(a, s)
  BY <1>1, <1>4, <1>5 DEF Chunk!Unlist, Memory!Unlist
<1>7. \A a, s : Chunk!Enlist(a, s) = Memory!Enlist(a, s)
  BY <1>1, <1>4 DEF Chunk!Enlist, Memory!Enlist
<1>8. \A a, s, b : Chunk!Coalesce(a, s, b) = Memory!Coalesce(a, s, b)
  BY DEF Chunk!Coalesce, Memory!Coalesce
<1>9. \A a, s : Chunk!Before(a, s) = Memory!Before(a, s)
  BY DEF Chunk!Before, Memory!Before, Chunk!Free, Memory!Free
<1>10. \A a, s : Chunk!JoinAfter(a, s) = Memory!JoinAfter(a, s)
  BY <1>6, <1>8 DEF Chunk!JoinAfter, Memory!JoinAfter, Chunk!Free, Memory!Free
<1>11. \A a, s : Chunk!InsertFree(a, s) = Memory!InsertFree(a, s)
  BY <1>3, <1>4, <1>6, <1>7, <1>8, <1>9, <1>10 DEF Chunk!InsertFree, Memory!InsertFree
<1>12. \A a, k : Chunk!FindClass(a, k) = Memory!FindClass(a, k)
  BY DEF Chunk!FindClass, Memory!FindClass, Chunk!ClassLarger, Memory!ClassLarger,
         Chunk!ClassSmaller, Memory!ClassSmaller, Chunk!MaxClass, Memory!MaxClass, Chunk!Max,
         Memory!Max, Chunk!Min, Memory!Min
<1>13. \A a, s, n : Chunk!Cut(a, s, n) = Memory!Cut(a, s, n)
  BY DEF Chunk!Cut, Memory!Cut, Chunk!With, Memory!With
<1>14. \A s, n : Chunk!AlignUp(s, n) = Memory!AlignUp(s, n)
  BY DEF Chunk!AlignUp, Memory!AlignUp
<1>15. \A a, s, n, l : Chunk!Carve(a, s, n, l) = Memory!Carve(a, s, n, l)
  BY <1>11, <1>13, <1>14 DEF Chunk!Carve, Memory!Carve, Chunk!Aligned, Memory!Aligned
<1>16. Chunk!None = Memory!None /\ Chunk!NoOp = Memory!NoOp /\ Chunk!Arena = Memory!Arena
  BY DEF Chunk!None, Memory!None, Chunk!NoOp, Memory!NoOp, Chunk!Arena, Memory!Arena
<1>17. \A t : Chunk!New(t) <=> Memory!New(t)
  BY DEF Chunk!New, Memory!New, Chunk!NoOp, Memory!NoOp, Chunk!None, Memory!None, Chunk!Move,
         Memory!Move
<1>18. \A t : Chunk!Reuse(t) <=> Memory!Reuse(t)
  BY SMTT(30) DEF Chunk!Reuse, Memory!Reuse, Chunk!Give, Memory!Give, Chunk!With, Memory!With,
         Chunk!Move, Memory!Move, Chunk!NoOp, Memory!NoOp, Chunk!None, Memory!None,
         Chunk!Fitting, Memory!Fitting, Chunk!Aligned, Memory!Aligned, Chunk!Min, Memory!Min,
         Chunk!RemoveAt, Memory!RemoveAt
<1>19. \A t : Chunk!Find(t) <=> Memory!Find(t)
  BY <1>2, <1>4, <1>12, <1>15, <1>16 DEF Chunk!Find, Memory!Find, Chunk!Become,
         Memory!Become, Chunk!Move, Memory!Move, Chunk!Hand, Memory!Hand
<1>20. \A t : Chunk!Commit(t) <=> Memory!Commit(t)
  BY <1>11 DEF Chunk!Commit, Memory!Commit, Chunk!Become, Memory!Become, Chunk!Move,
         Memory!Move, Chunk!Hand, Memory!Hand, Chunk!Give, Memory!Give, Chunk!With,
         Memory!With, Chunk!Units, Memory!Units, Chunk!NoOp, Memory!NoOp, Chunk!None,
         Memory!None, Chunk!Arena, Memory!Arena
<1>21. \A t : Chunk!Emergency(t) <=> Memory!Emergency(t)
  BY DEF Chunk!Emergency, Memory!Emergency, Chunk!Move, Memory!Move, Chunk!Hand, Memory!Hand,
         Chunk!NoOp, Memory!NoOp, Chunk!None, Memory!None
<1>22. \A t : Chunk!Decommit(t) <=> Memory!Decommit(t)
  BY DEF Chunk!Decommit, Memory!Decommit, Chunk!Units, Memory!Units, Chunk!Move, Memory!Move
<1>23. \A t : Chunk!Insert(t) <=> Memory!Insert(t)
  BY <1>11 DEF Chunk!Insert, Memory!Insert, Chunk!Become, Memory!Become, Chunk!Move,
         Memory!Move, Chunk!Hand, Memory!Hand, Chunk!None, Memory!None, Chunk!Arena,
         Memory!Arena
<1>24. \A t : Chunk!ChunkFree(t) <=> Memory!ChunkFree(t)
  BY DEF Chunk!ChunkFree, Memory!ChunkFree, Chunk!Move, Memory!Move
<1>25. Chunk!Expire <=> Memory!Expire
  BY DEF Chunk!Expire, Memory!Expire
<1>26. Chunk!PopWait <=> Memory!PopWait
  BY DEF Chunk!PopWait, Memory!PopWait, Chunk!Hand, Memory!Hand, Chunk!Move, Memory!Move
<1>27. Chunk!Next <=> Memory!Next
  BY <1>17, <1>18, <1>19, <1>20, <1>21, <1>22, <1>23, <1>24, <1>25, <1>26 DEF Chunk!Next,
         Memory!Next
<1>28. Chunk!Init <=> Memory!Init
  BY DEF Chunk!Init, Memory!Init, Chunk!MaxClass, Memory!MaxClass, Chunk!ClassSmaller,
         Memory!ClassSmaller, Chunk!Max, Memory!Max, Chunk!NoOp, Memory!NoOp, Chunk!None,
         Memory!None
<1>29. Chunk!ArenaSound <=> Memory!ArenaSound
  BY DEF Chunk!ArenaSound, Memory!ArenaSound, Chunk!Tiled, Memory!Tiled, Chunk!Joined,
         Memory!Joined, Chunk!Sorted, Memory!Sorted, Chunk!Free, Memory!Free, Chunk!Units,
         Memory!Units, Chunk!ClassSmaller, Memory!ClassSmaller, Chunk!Max, Memory!Max,
         Chunk!ToSet, Memory!ToSet, Chunk!IsInjective, Memory!IsInjective
<1>30. Chunk!HeldUsable <=> Memory!HeldUsable
  BY DEF Chunk!HeldUsable, Memory!HeldUsable, Chunk!Units, Memory!Units, Chunk!Aligned,
         Memory!Aligned, Chunk!ToSet, Memory!ToSet
<1>31. Chunk!ArenaValid <=> Memory!ArenaValid
  BY DEF Chunk!ArenaValid, Memory!ArenaValid, Chunk!ClassSmaller, Memory!ClassSmaller,
         Chunk!ClassLarger, Memory!ClassLarger, Chunk!MaxClass, Memory!MaxClass, Chunk!Max,
         Memory!Max
<1>32. Chunk!NoLeak <=> Memory!NoLeak
  BY DEF Chunk!NoLeak, Memory!NoLeak, Chunk!Free, Memory!Free, Chunk!Units, Memory!Units
<1> QED BY <1>27, <1>28, <1>29, <1>30, <1>31, <1>32

(* The two instances of Malloc are the same.                               *)
LEMMA SameAlloc ==
  /\ Alloc!Init <=> Memory!M!Init
  /\ Alloc!Next <=> Memory!M!Next
  /\ Alloc!MallocSound <=> Memory!M!MallocSound
  /\ Alloc!MallocValid <=> Memory!M!MallocValid
<1>1. /\ Alloc!Pools = Memory!M!Pools
      /\ \A size : /\ Alloc!GetPool(size) = Memory!M!GetPool(size)
                   /\ Alloc!IsSmall(size) <=> Memory!M!IsSmall(size)
  BY DEF Alloc!Pools, Memory!M!Pools, Alloc!Class, Memory!M!Class, Alloc!Min, Memory!M!Min,
         Alloc!GetPool, Memory!M!GetPool, Alloc!IsSmall, Memory!M!IsSmall, Alloc!Header,
         Memory!M!Header
<1>2. \A k : Alloc!Object(k) = Memory!M!Object(k)
  BY DEF Alloc!Object, Memory!M!Object
<1>3. \A p, k : /\ Alloc!Rest(p, k) = Memory!M!Rest(p, k)
                /\ Alloc!Filled(p, k) <=> Memory!M!Filled(p, k)
  BY DEF Alloc!Rest, Memory!M!Rest, Alloc!Filled, Memory!M!Filled, Alloc!Object,
         Memory!M!Object
<1>4. Alloc!Min(Alloc!Unused) = Memory!M!Min(Memory!M!Unused) /\ Alloc!Unused = Memory!M!Unused
      /\ Alloc!Heap = Memory!M!Heap
  BY DEF Alloc!Unused, Memory!M!Unused, Alloc!Min, Memory!M!Min, Alloc!Heap, Memory!M!Heap
<1>5. /\ \A h, n, size, l : Alloc!WithBlock(h, n, size, l) = Memory!M!WithBlock(h, n, size, l)
      /\ \A h, n : Alloc!WithoutBlock(h, n) = Memory!M!WithoutBlock(h, n)
      /\ \A h, k, p : Alloc!WithPool(h, k, p) = Memory!M!WithPool(h, k, p)
      /\ \A h, c, n : Alloc!WithChunk(h, c, n) = Memory!M!WithChunk(h, c, n)
      /\ \A h, c : Alloc!WithoutChunk(h, c) = Memory!M!WithoutChunk(h, c)
  BY DEF Alloc!With, Memory!M!With, Alloc!Without, Memory!M!Without, Alloc!WithBlock,
         Memory!M!WithBlock, Alloc!WithoutBlock, Memory!M!WithoutBlock, Alloc!WithPool,
         Memory!M!WithPool, Alloc!WithChunk, Memory!M!WithChunk, Alloc!WithoutChunk,
         Memory!M!WithoutChunk
<1>6. \A p, k, c : Alloc!Grown(p, k, c) = Memory!M!Grown(p, k, c)
  BY DEF Alloc!Grown, Memory!M!Grown, Alloc!SetToSeq, Memory!M!SetToSeq, Alloc!IsInjective,
         Memory!M!IsInjective, Alloc!Cardinality, Memory!M!Cardinality, Alloc!Rest,
         Memory!M!Rest, Alloc!Object, Memory!M!Object
<1>7. \A h, k, c : Alloc!Grow(h, k, c) = Memory!M!Grow(h, k, c)
  BY <1>5, <1>6 DEF Alloc!Grow, Memory!M!Grow
<1>8. \A h, k, size : Alloc!Get(h, k, size) = Memory!M!Get(h, k, size)
  BY DEF Alloc!Get, Memory!M!Get, Alloc!WithBlock, Memory!M!WithBlock, Alloc!WithPool,
         Memory!M!WithPool, Alloc!With, Memory!M!With, Alloc!Object, Memory!M!Object
<1>9. \A h, size : Alloc!Alloc(h, size) = Memory!M!Alloc(h, size)
  <2>1. \A h, size : Alloc!Large(h, size) = Memory!M!Large(h, size)
    BY DEF Alloc!Large, Memory!M!Large, Alloc!Min, Memory!M!Min, Alloc!Unused,
           Memory!M!Unused, Alloc!Header, Memory!M!Header, Alloc!With, Memory!M!With,
           Alloc!WithBlock, Memory!M!WithBlock, Alloc!WithChunk, Memory!M!WithChunk
  <2>2. ASSUME NEW h, NEW size
        PROVE  Alloc!Small(h, size) = Memory!M!Small(h, size)
    <3> DEFINE k == Memory!M!GetPool(size)
               c == Memory!M!Min(Memory!M!Unused)
    <3>1. Alloc!GetPool(size) = k
      BY <1>1
    <3>4. Alloc!Min(Alloc!Unused) = c /\ Alloc!Unused = Memory!M!Unused
      BY <1>4
    <3>5. Alloc!Filled(h.pool[k], k) <=> Memory!M!Filled(h.pool[k], k)
      BY DEF Alloc!Filled, Memory!M!Filled, Alloc!Object, Memory!M!Object
    <3>2. Alloc!Get(h, k, size) = Memory!M!Get(h, k, size)
      BY <1>8
    <3>3. Alloc!Get(Alloc!Grow(h, k, c), k, size) = Memory!M!Get(Memory!M!Grow(h, k, c), k, size)
      <4> HIDE DEF k, c
      <4> QED BY <1>7, <1>8
    <3> QED BY <3>1, <3>2, <3>3, <3>4, <3>5 DEF Alloc!Small, Memory!M!Small
  <2> QED BY <1>1, <2>1, <2>2 DEF Alloc!Alloc, Memory!M!Alloc
<1>10. \A h, n : Alloc!Release(h, n) = Memory!M!Release(h, n)
  BY DEF Alloc!Release, Memory!M!Release, Alloc!GetPool, Memory!M!GetPool, Alloc!Class,
         Memory!M!Class, Alloc!Header, Memory!M!Header, Alloc!Min, Memory!M!Min,
         Alloc!With, Memory!M!With, Alloc!Without, Memory!M!Without, Alloc!WithoutBlock,
         Memory!M!WithoutBlock, Alloc!WithPool, Memory!M!WithPool, Alloc!WithoutChunk,
         Memory!M!WithoutChunk
<1>11. \A h, n : Alloc!Fitting(h, n) = Memory!M!Fitting(h, n)
  BY <1>1, <1>2 DEF Alloc!Fitting, Memory!M!Fitting, Alloc!Header, Memory!M!Header
<1>12. Alloc!Next <=> Memory!M!Next
  BY <1>4, <1>5, <1>9, <1>10, <1>11 DEF Alloc!Next, Memory!M!Next, Alloc!Malloc,
         Memory!M!Malloc, Alloc!FreeBlock, Memory!M!FreeBlock, Alloc!Realloc,
         Memory!M!Realloc, Alloc!Become, Memory!M!Become, Alloc!Cardinality,
         Memory!M!Cardinality
<1>13. Alloc!Init <=> Memory!M!Init
  BY <1>1 DEF Alloc!Init, Memory!M!Init
<1>14. Alloc!Owned = Memory!M!Owned
  BY DEF Alloc!Owned, Memory!M!Owned, Alloc!Header, Memory!M!Header, Alloc!ToSet,
         Memory!M!ToSet, Alloc!Pools, Memory!M!Pools, Alloc!Class, Memory!M!Class,
         Alloc!Min, Memory!M!Min, Alloc!Object, Memory!M!Object, Alloc!Rest, Memory!M!Rest
<1>15. Alloc!MallocSound <=> Memory!M!MallocSound
  BY <1>1, <1>14 DEF Alloc!MallocSound, Memory!M!MallocSound, Alloc!Units, Memory!M!Units,
         Alloc!IsInjective, Memory!M!IsInjective
<1>16. Alloc!MallocValid <=> Memory!M!MallocValid
  BY <1>1, <1>2 DEF Alloc!MallocValid, Memory!M!MallocValid, Alloc!Header, Memory!M!Header
<1> QED BY <1>12, <1>13, <1>15, <1>16

(* A behaviour with one of the two components is one of ChunkArena or of   *)
(* Malloc.                                                                 *)
LEMMA MemoryStep ==
  ASSUME [Next]_vars
  PROVE  /\ part' = part
         /\ part = "chunk" => Chunk!Next \/ UNCHANGED chunkVars
         /\ part = "malloc" => Alloc!Next \/ UNCHANGED mallocVars
<1>1. CASE UNCHANGED vars
  BY <1>1 DEF vars
<1>2. CASE Next
  BY <1>2 DEF Next
<1> QED BY <1>1, <1>2

(* Chunks tile the arena and are usable by who holds them (chunk.c), and   *)
(* the blocks that malloc makes of chunks do not overlap (malloc/pool.h),  *)
(* in the composition that TLC checks too.                                 *)
THEOREM MemoryIsSound == Spec => []MemorySound
<1> DEFINE Inv == /\ part = "chunk" => Memory!ArenaInv
                  /\ part = "malloc" => Memory!MallocInv
<1>1. Memory!ArenaValid /\ Memory!M!MallocValid
  BY SameChunk, SameAlloc, ChunkSizes, MallocSizes
<1>2. Init => Inv
  <2>1. Init => (part = "chunk" => Chunk!Init) /\ (part = "malloc" => Alloc!Init)
    BY DEF Init
  <2> QED BY <1>1, <2>1, SameChunk, SameAlloc, Memory!ArenaStarts, Memory!MallocStarts
<1>3. Inv /\ [Next]_vars => Inv'
  <2>1. ASSUME Inv, [Next]_vars, part' = "chunk"
        PROVE  Memory!ArenaInv'
    <3>1. part = "chunk" /\ (Chunk!Next \/ UNCHANGED chunkVars)
      BY <2>1, MemoryStep
    <3>2. Memory!ArenaInv /\ [Memory!Next]_Memory!vars
      BY <2>1, <3>1, SameChunk DEF chunkVars, Memory!vars
    <3> QED BY <1>1, <3>2, Memory!ArenaStep
  <2>2. ASSUME Inv, [Next]_vars, part' = "malloc"
        PROVE  Memory!MallocInv'
    <3>1. part = "malloc" /\ (Alloc!Next \/ UNCHANGED mallocVars)
      BY <2>2, MemoryStep
    <3>2. Memory!MallocInv /\ [Memory!M!Next]_Memory!M!vars
      BY <2>2, <3>1, SameAlloc DEF mallocVars, Memory!M!vars
    <3> QED BY <1>1, <3>2, Memory!MallocStep DEF Memory!MallocInv
  <2> QED BY <2>1, <2>2
<1>4. Inv => MemorySound
  BY <1>1, SameChunk, SameAlloc, Memory!ArenaMeans, Memory!MallocMeans DEF MemorySound
<1> HIDE DEF Inv
<1> QED BY <1>2, <1>3, <1>4, PTL DEF Spec

=============================================================================
