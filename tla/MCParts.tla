------------------------------ MODULE MCParts ------------------------------
(***************************************************************************)
(* Fourteen components without common state, side by side: a behaviour     *)
(* picks one of them and is a behaviour of it.  The variables of the others*)
(* are 0.  The names of constants and variables are those of the modules,  *)
(* which are therefore instantiated without substitution.                  *)
(***************************************************************************)
EXTENDS Naturals

CONSTANTS
  ArenaSize, Allocators, UnmapTask,  \* ChunkArena
  Count, Values,  \* Bytecode
  Slot, MaxNode, Target, Aging, MaxOps, AgedOnly,  \* LocalHeap
  Timeouts, Interval, MaxTime,  \* TimerHeap
  Keys, Hashes, InitSize,  \* HashTable
  Vecs, Elems, BlockLen, ChunkBlocks, MaxChunks,  \* Blocks
  StackInit, StackStep, StackHot, StackLimit, FrameSizes, MaxFrames, MaxSize,  \* Stack
  MThreads, MaxLoads,  \* Modules
  Arities, Calls, MaxArgs,  \* Apply
  ChunkMin, BlockSizes, MallocChunks, MaxBlocks,  \* Malloc
  Writers, EventWorker, MaxBuffers,  \* Events
  BufSize, Messages, Longer, MaxLog, Pipe,  \* EventConvert
  Handles, Sweepers, Segment, PagesPerSegment, SmallPage, MediumPage,
  SmallSizes, MediumSizes, LargeObjects,  \* MajorHeap
  Runners, Stacks, Refs, Overlap  \* StackScan

VARIABLES
  part,  \* the component that runs
  chunks, sizeList, committed, delayed, expired, held, apc, aop,
  code, mode, ip, end, poked, frames, pending,
  cells, slots, dirty, cards, card, promoted, scavenge, ops, want, hold,
  clock, heap, timers, triggered, tpc, dpc, us, sleep, alarm, notify,
  entry, used, hash, entries,
  blockChunks, nextBlock, blocksCount, freeList, vec, usedList, bumped, content,
  segments, stackSize, interruptible, pushing, calls,
  system, path, moduleHash, mthread, archives, loads,
  areg, spine, doing, given, taken,
  pool, chunk, block,
  bufList, link, text, storage, wpc, wbuf, wnext, own, logging,
  log, left, inRead, inPos, outPos, decoded, written, status,
  kind, segment, place, total, object, wanted, needed, large, totalWords,
  global, local, running, holder, onStack, dirtyOf, stackColor, found,
  gray, field, fieldScanned, state, slice, todoStacks

(* Chunks that are asked for: size and alignment, in units.                *)
Requests == {<<1, 0>>, <<2, 0>>, <<2, 2>>}

Chunk == INSTANCE ChunkArena
Code == INSTANCE Bytecode
Local == INSTANCE LocalHeap
Timer == INSTANCE TimerHeap
Table == INSTANCE HashTable
Block == INSTANCE Blocks
Segments == INSTANCE Stack
Load == INSTANCE Modules
Applied == INSTANCE Apply
Alloc == INSTANCE Malloc
Log == INSTANCE Events
Conv == INSTANCE EventConvert
Major == INSTANCE MajorHeap
Scan == INSTANCE StackScan

ASSUME StackOptions == Segments!OptionsValid

ASSUME ScanRunners == Scan!RunnersValid

ASSUME LogWriters == Log!WritersValid

ASSUME MajorSizes == Major!HeapValid

ASSUME ChunkSizes == Chunk!ArenaValid

ASSUME MallocSizes == Alloc!MallocValid

ASSUME BlocksSizes == Block!BlocksValid

chunkVars == <<chunks, sizeList, committed, delayed, expired, held, apc,
  aop>>
codeVars == <<code, mode, ip, end, poked, frames, pending>>
localVars == <<cells, slots, dirty, cards, card, promoted, scavenge, ops,
  want, hold>>
timerVars == <<clock, heap, timers, triggered, tpc, dpc, us, sleep, alarm,
  notify>>
tableVars == <<entry, used, hash, entries>>
blockVars == <<blockChunks, nextBlock, blocksCount, freeList, vec, usedList,
  bumped, content>>
stackVars == <<segments, stackSize, interruptible, pushing, calls>>
modulesVars == <<system, path, moduleHash, mthread, archives, loads>>
applyVars == <<areg, spine, doing, given, taken>>
mallocVars == <<pool, chunk, block>>
eventsVars == <<bufList, link, text, storage, wpc, wbuf, wnext, own,
  logging>>
convertVars == <<log, left, inRead, inPos, outPos, decoded, written, status>>
majorVars == <<kind, segment, place, total, object, wanted, needed, large,
  totalWords>>
scanVars == <<global, local, running, holder, onStack, dirtyOf, stackColor, found,
  gray, field, fieldScanned, state, slice, todoStacks>>

NoChunk == chunks = 0 /\ sizeList = 0 /\ committed = 0 /\ delayed = 0 /\ expired = 0
  /\ held = 0 /\ apc = 0 /\ aop = 0
NoCode == code = 0 /\ mode = 0 /\ ip = 0 /\ end = 0 /\ poked = 0 /\ frames = 0
  /\ pending = 0
NoLocal == cells = 0 /\ slots = 0 /\ dirty = 0 /\ cards = 0 /\ card = 0 /\ promoted = 0
  /\ scavenge = 0 /\ ops = 0 /\ want = 0 /\ hold = 0
NoTimer == clock = 0 /\ heap = 0 /\ timers = 0 /\ triggered = 0 /\ tpc = 0 /\ dpc = 0
  /\ us = 0 /\ sleep = 0 /\ alarm = 0 /\ notify = 0
NoTable == entry = 0 /\ used = 0 /\ hash = 0 /\ entries = 0
NoBlock == blockChunks = 0 /\ nextBlock = 0 /\ blocksCount = 0 /\ freeList = 0
  /\ vec = 0 /\ usedList = 0 /\ bumped = 0 /\ content = 0
NoSegments == segments = 0 /\ stackSize = 0 /\ interruptible = 0 /\ pushing = 0
  /\ calls = 0
NoLoad == system = 0 /\ path = 0 /\ moduleHash = 0 /\ mthread = 0 /\ archives = 0
  /\ loads = 0
NoApplied == areg = 0 /\ spine = 0 /\ doing = 0 /\ given = 0 /\ taken = 0
NoAlloc == pool = 0 /\ chunk = 0 /\ block = 0
NoLog == bufList = 0 /\ link = 0 /\ text = 0 /\ storage = 0 /\ wpc = 0 /\ wbuf = 0
  /\ wnext = 0 /\ own = 0 /\ logging = 0
NoConv == log = 0 /\ left = 0 /\ inRead = 0 /\ inPos = 0 /\ outPos = 0 /\ decoded = 0
  /\ written = 0 /\ status = 0
NoMajor == kind = 0 /\ segment = 0 /\ place = 0 /\ total = 0 /\ object = 0 /\ wanted = 0
  /\ needed = 0 /\ large = 0 /\ totalWords = 0
NoScan == global = 0 /\ local = 0 /\ running = 0 /\ holder = 0 /\ onStack = 0
  /\ dirtyOf = 0 /\ stackColor = 0 /\ found = 0 /\ gray = 0 /\ field = 0
  /\ fieldScanned = 0 /\ state = 0 /\ slice = 0 /\ todoStacks = 0

Init ==
  \/ part = "chunk" /\ Chunk!Init /\ NoCode /\ NoLocal /\ NoTimer /\ NoTable
       /\ NoBlock /\ NoSegments /\ NoLoad /\ NoApplied /\ NoAlloc /\ NoLog
       /\ NoConv /\ NoMajor /\ NoScan
  \/ part = "code" /\ Code!Init /\ NoChunk /\ NoLocal /\ NoTimer /\ NoTable
       /\ NoBlock /\ NoSegments /\ NoLoad /\ NoApplied /\ NoAlloc /\ NoLog
       /\ NoConv /\ NoMajor /\ NoScan
  \/ part = "local" /\ Local!Init /\ NoChunk /\ NoCode /\ NoTimer /\ NoTable
       /\ NoBlock /\ NoSegments /\ NoLoad /\ NoApplied /\ NoAlloc /\ NoLog
       /\ NoConv /\ NoMajor /\ NoScan
  \/ part = "timer" /\ Timer!Init /\ NoChunk /\ NoCode /\ NoLocal /\ NoTable
       /\ NoBlock /\ NoSegments /\ NoLoad /\ NoApplied /\ NoAlloc /\ NoLog
       /\ NoConv /\ NoMajor /\ NoScan
  \/ part = "table" /\ Table!Init /\ NoChunk /\ NoCode /\ NoLocal /\ NoTimer
       /\ NoBlock /\ NoSegments /\ NoLoad /\ NoApplied /\ NoAlloc /\ NoLog
       /\ NoConv /\ NoMajor /\ NoScan
  \/ part = "block" /\ Block!Init /\ NoChunk /\ NoCode /\ NoLocal /\ NoTimer
       /\ NoTable /\ NoSegments /\ NoLoad /\ NoApplied /\ NoAlloc /\ NoLog
       /\ NoConv /\ NoMajor /\ NoScan
  \/ part = "stack" /\ Segments!Init /\ NoChunk /\ NoCode /\ NoLocal /\ NoTimer
       /\ NoTable /\ NoBlock /\ NoLoad /\ NoApplied /\ NoAlloc /\ NoLog
       /\ NoConv /\ NoMajor /\ NoScan
  \/ part = "modules" /\ Load!Init /\ NoChunk /\ NoCode /\ NoLocal /\ NoTimer
       /\ NoTable /\ NoBlock /\ NoSegments /\ NoApplied /\ NoAlloc /\ NoLog
       /\ NoConv /\ NoMajor /\ NoScan
  \/ part = "apply" /\ Applied!Init /\ NoChunk /\ NoCode /\ NoLocal /\ NoTimer
       /\ NoTable /\ NoBlock /\ NoSegments /\ NoLoad /\ NoAlloc /\ NoLog
       /\ NoConv /\ NoMajor /\ NoScan
  \/ part = "malloc" /\ Alloc!Init /\ NoChunk /\ NoCode /\ NoLocal /\ NoTimer
       /\ NoTable /\ NoBlock /\ NoSegments /\ NoLoad /\ NoApplied /\ NoLog
       /\ NoConv /\ NoMajor /\ NoScan
  \/ part = "events" /\ Log!Init /\ NoChunk /\ NoCode /\ NoLocal /\ NoTimer
       /\ NoTable /\ NoBlock /\ NoSegments /\ NoLoad /\ NoApplied /\ NoAlloc
       /\ NoConv /\ NoMajor /\ NoScan
  \/ part = "convert" /\ Conv!Init /\ NoChunk /\ NoCode /\ NoLocal /\ NoTimer
       /\ NoTable /\ NoBlock /\ NoSegments /\ NoLoad /\ NoApplied /\ NoAlloc
       /\ NoLog /\ NoMajor /\ NoScan
  \/ part = "major" /\ Major!Init /\ NoChunk /\ NoCode /\ NoLocal /\ NoTimer
       /\ NoTable /\ NoBlock /\ NoSegments /\ NoLoad /\ NoApplied /\ NoAlloc
       /\ NoLog /\ NoConv /\ NoScan
  \/ part = "scan" /\ Scan!Init /\ NoChunk /\ NoCode /\ NoLocal /\ NoTimer
       /\ NoTable /\ NoBlock /\ NoSegments /\ NoLoad /\ NoApplied /\ NoAlloc
       /\ NoLog /\ NoConv /\ NoMajor

Next ==
  \/ part = "chunk" /\ Chunk!Next /\ UNCHANGED <<part, codeVars, localVars,
       timerVars, tableVars, blockVars, stackVars, modulesVars, applyVars,
       mallocVars, eventsVars, convertVars, majorVars, scanVars>>
  \/ part = "code" /\ Code!Next /\ UNCHANGED <<part, chunkVars, localVars,
       timerVars, tableVars, blockVars, stackVars, modulesVars, applyVars,
       mallocVars, eventsVars, convertVars, majorVars, scanVars>>
  \/ part = "local" /\ Local!Next /\ UNCHANGED <<part, chunkVars, codeVars,
       timerVars, tableVars, blockVars, stackVars, modulesVars, applyVars,
       mallocVars, eventsVars, convertVars, majorVars, scanVars>>
  \/ part = "timer" /\ Timer!Next /\ UNCHANGED <<part, chunkVars, codeVars,
       localVars, tableVars, blockVars, stackVars, modulesVars, applyVars,
       mallocVars, eventsVars, convertVars, majorVars, scanVars>>
  \/ part = "table" /\ Table!Next /\ UNCHANGED <<part, chunkVars, codeVars,
       localVars, timerVars, blockVars, stackVars, modulesVars, applyVars,
       mallocVars, eventsVars, convertVars, majorVars, scanVars>>
  \/ part = "block" /\ Block!Next /\ UNCHANGED <<part, chunkVars, codeVars,
       localVars, timerVars, tableVars, stackVars, modulesVars, applyVars,
       mallocVars, eventsVars, convertVars, majorVars, scanVars>>
  \/ part = "stack" /\ Segments!Next /\ UNCHANGED <<part, chunkVars, codeVars,
       localVars, timerVars, tableVars, blockVars, modulesVars, applyVars,
       mallocVars, eventsVars, convertVars, majorVars, scanVars>>
  \/ part = "modules" /\ Load!Next /\ UNCHANGED <<part, chunkVars, codeVars,
       localVars, timerVars, tableVars, blockVars, stackVars, applyVars,
       mallocVars, eventsVars, convertVars, majorVars, scanVars>>
  \/ part = "apply" /\ Applied!Next /\ UNCHANGED <<part, chunkVars, codeVars,
       localVars, timerVars, tableVars, blockVars, stackVars, modulesVars,
       mallocVars, eventsVars, convertVars, majorVars, scanVars>>
  \/ part = "malloc" /\ Alloc!Next /\ UNCHANGED <<part, chunkVars, codeVars,
       localVars, timerVars, tableVars, blockVars, stackVars, modulesVars,
       applyVars, eventsVars, convertVars, majorVars, scanVars>>
  \/ part = "events" /\ Log!Next /\ UNCHANGED <<part, chunkVars, codeVars,
       localVars, timerVars, tableVars, blockVars, stackVars, modulesVars,
       applyVars, mallocVars, convertVars, majorVars, scanVars>>
  \/ part = "convert" /\ Conv!Next /\ UNCHANGED <<part, chunkVars, codeVars,
       localVars, timerVars, tableVars, blockVars, stackVars, modulesVars,
       applyVars, mallocVars, eventsVars, majorVars, scanVars>>
  \/ part = "major" /\ Major!Next /\ UNCHANGED <<part, chunkVars, codeVars,
       localVars, timerVars, tableVars, blockVars, stackVars, modulesVars,
       applyVars, mallocVars, eventsVars, convertVars, scanVars>>
  \/ part = "scan" /\ Scan!Next /\ UNCHANGED <<part, chunkVars, codeVars,
       localVars, timerVars, tableVars, blockVars, stackVars, modulesVars,
       applyVars, mallocVars, eventsVars, convertVars, majorVars>>

vars == <<part, chunkVars, codeVars, localVars, timerVars, tableVars,
          blockVars, stackVars, modulesVars, applyVars, mallocVars,
          eventsVars, convertVars, majorVars, scanVars>>

Spec == Init /\ [][Next]_vars

-----------------------------------------------------------------------------
(* Chunks tile the arena, are joined when free and listed by size, and what*)
(* the program holds is its own, as it asked for, and backed by memory     *)
(* (chunk.c, with the unmap task and other threads at work).  Blocks that  *)
(* malloc makes of chunks overlap neither each other nor free ones         *)
(* (malloc/pool.h).                                                        *)
MemorySound ==
  /\ part = "chunk" => Chunk!ArenaSound /\ Chunk!HeldUsable /\ Chunk!NoLeak
  /\ part = "malloc" => Alloc!MallocSound

(* Objects of the major heap are in cells that hold them, every other cell *)
(* is in the one list from which such objects are made, while sweepers     *)
(* work, and what is there is counted (heap.c, sweep.c).                   *)
HeapSound == part = "major" => Major!HeapSound

(* No buffer of events has two users, and each is freed in the end, as     *)
(* long as no more than two threads write without a worker (event.c).      *)
EventsWhole == part = "events" => Log!EventsWhole

(* What is read is taken apart where it was put together.  Disassembler    *)
(* and rewriter read operands as long as the compiler made them and never  *)
(* take one for an opcode, nor does the interpreter, but behind a `ret`    *)
(* with values, which it reads from the wrong place (cby/bytecode).  Every *)
(* frame of the interpreter leads to an enter instruction (interpreter.h,  *)
(* interpCont).  A log read from a file is converted as a whole, whatever  *)
(* part of a message ends the buffer (event.c, chiEventConvert).           *)
OnBoundaries ==
  /\ part = "code" => Code!OnInstructions /\ Code!FramesEnter
  /\ part = "convert" => Conv!Converted

(* A search finds exactly what is there: the two binary searches of the    *)
(* interpreter, for the alternative of a case and for a module in a sorted *)
(* registry, and a lookup in a hash table, which has the keys inserted and *)
(* not deleted, also after it has grown or entries have been shifted back  *)
(* (hashtable.h).                                                          *)
SearchesFind ==
  /\ part = "code" => Code!CaseFinds
  /\ part = "modules" => Load!RegistryFound
  /\ part = "table" => Table!HashFinds

(* Promotion, scavenging and the write barrier keep the graph the program  *)
(* has built (promote.c, scavenger.c, barrier.h).                          *)
Faithful == part = "local" => Local!Faithful

(* Between the operations, references from old to young objects are in a   *)
(* dirty list, none lead out of the shared heap, and the forward bits are  *)
(* those of the promoted objects (localheap.h:42-60, promote.c).           *)
HeapInvariants == part = "local" => Local!HeapInvariants

(* No timer is lost by the heap: one that has been installed and has not   *)
(* fired is where its index says, while threads start and stop timeouts.   *)
(* With three timers, the dispatcher never sleeps past the first deadline  *)
(* without a notification on its way.  In any heap of up to six, insertion *)
(* and dispatch keep the order, and the removal of a timeout keeps it      *)
(* unless the timer moved into the gap is due before the one above, where  *)
(* it breaks the order (interrupt.h, timeout.c, dispatch/epoll.h).         *)
TimersServed == part = "timer" => Timer!TimersQueued /\ Timer!WakesInTime /\ Timer!HeapKept

(* Blocks are in one place each and a vector contains what was pushed to   *)
(* it, after any joins and transfers (blockman.c, blockvec.h).             *)
VecHolds == part = "block" => Block!BlocksSound /\ Block!VecHolds

(* The frames of a thread are those it has pushed and not popped, however  *)
(* its stack grew, shrank and was unwound, and its size is not             *)
(* underestimated (stack.c, runtime.c).                                    *)
FramesKept == part = "stack" => Segments!FramesKept /\ Segments!StackSizeCovers

(* What the frames of a stack refer to is marked in the end, whether the   *)
(* marker scans the stack or a processor that runs it while the marker     *)
(* comes, as long as the phase does not change during a scavenge (stack.c, *)
(* mark.c, scavenger.c).                                                   *)
StacksScanned == part = "scan" => Scan!StacksScanned

(* A module in the hash has the values of its own imports, all of them     *)
(* finished before it, and one thread initialises a module once            *)
(* (cby/module.c, native/module.c).                                        *)
ImportsReady == part = "modules" => Load!ImportsReady /\ Load!InitOnce

(* Every argument reaches the function it was meant for, in order          *)
(* (chiApp, partial and overApp continuations of runtime.c).               *)
ArgumentsInOrder == part = "apply" => Applied!ArgumentsInOrder

=============================================================================
