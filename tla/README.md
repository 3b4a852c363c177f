# A verification of the crts runtime

crts is the native runtime system of the Chili language: a multiprocessor
runtime with a generational, mostly concurrent garbage collector, user-level
threads on heap-allocated stacks, and a bytecode interpreter on top of it.
This directory holds TLA+ models of its parts, TLC runs on small instances, and
theorems checked by TLAPS. Paths below are relative to `src/`.

## 1. The system

### Parts, their state and how they interact

| Part | Sources | State | Operations | Correct if |
|---|---|---|---|---|
| Collector phases and control | `native/gc.c` | `gc.phase`, `gc.trigger`, `gc.sweep`, `gc.root`, the worker list and its statuses | `chiGCTrigger`, `chiGCControl` (main processor only), `chiGCSlice` (each processor), `gcWorkerRun` | processors follow the phases in lockstep; nothing reachable is freed; cycles end |
| Local collector | `native/localgc.h`, `grayvec.h`, `color.h` | per processor or worker: mark state (epoch, barrier), gray vector with a null trigger | `chiMark`, push, pop, join | colours mean the same to everybody during a cycle |
| Write barrier | `native/barrier.h` | none | `chiFieldWrite`, `chiFieldInit`, compare-and-swap | snapshot at the beginning; old-to-young references are in the dirty list |
| Marking, sweeping | `native/mark.c`, `sweep.c` | gray vectors, segment lists | `chiMarkSlice`, `chiSweepSlice` | a gray object turns black in the end; only garbage is freed |
| Processors | `native/processor.c` | processor list, interrupt trigger, secondary worker with status, suspension | start, stop, service, request, protect, suspend, notify, exit | no request is lost; the primary and the secondary worker never both serve; exit terminates |
| Major heap | `native/heap.c` | segments, pages, bins, free cells, limits | small and large allocation | cells are disjoint; limits trigger a collection |
| Minor heap | `scavenger.c`, `promote.c`, `localheap.c`, `blockman.c`, `block.h` | nursery, aged blocks, dirty list | allocation, scavenge, promotion | the invariants listed in `localheap.h` |
| Block vectors | `generic/blockvec.h`, `objvec.h` | lists of blocks | push, pop, join, take | nothing is lost or duplicated |
| Chunk allocator | `native/chunk.c` | arena, size-class free lists, used list, delayed frees | allocate, free, purge | chunks are disjoint, coalesced, all memory is accounted for |
| Stacks and threads | `native/stack.c`, `thread.c` | stack owner, lock, colour; thread-local data | new, grow, shrink, activate, deactivate, unwind | a stack is scanned by exactly one of marker and processor |
| Continuations | `native/runtime.c` | current continuation, exceptions | entry, interrupts, heap overflow | an interrupt is delivered and the continuation restored |
| Timers | `native/system/interrupt.h`, `timeout.c` | heap of timers, timeout records | install, remove, dispatch | the heap order holds; a removed timer does not fire |
| Event buffers | `native/event.c` | lock-free list of buffers | acquire, release, flush | a buffer has one user |
| Generic containers | `generic/hashtable.h`, `vec.h`, `list.h`, `sort.h` | as named | | a table finds what was inserted |
| Modules, setup, options | `module.c`, `setup.c`, `rtoption.c` | module table, hooks, timer tick, option values | | |
| Strings, numbers, buffers | `string.c`, `num.c`, `bigint.c`, ... | none | pure functions | |
| Interpreter and tools | `cby/` | code buffers | loader, interpreter, disassembler | |

The main processor drives the collector. Any processor may raise `gc.trigger`
and interrupt the main processor. At its next safe point the main processor runs
`chiGCControl`, which walks the processor list (`gcPoll`), interrupts everyone
who has not followed the current phase, and changes `gc.phase` when all have.
Processors answer in `chiGCSlice`, without telling the main processor: the timer
tick makes it look again. Gray objects travel from processors to the global
vector (under `gc.mutex`, waking the workers) and from there to the workers.
Processors are started by other processors: the new one inherits the collector
state of its starter, which waits for it. A second thread of each processor, the
secondary worker, serves requests while the first is in foreign code.

### What is hard

* Phase, colours, gray vectors and triggers are read without a common lock; the
  protocol relies on handshakes and on the order of the writes.
* The list of processors changes while phases change.
* The decision that marking is done is taken from several looks at things that move.
* Wake-ups: who notifies whom, and whether a notification can miss a thread.
* Sizes: the colour byte wraps after 64 epochs; chunk and segment arithmetic;
  removal from an array heap.
* Behind limits: nursery, block and segment limits are soft.

`PROJECT.json` lists these under `hazards`, each at its line.

## 2. Modules

The collector and the protocol of processors:

| Module | What | Code |
|---|---|---|
| `GCPhase` | the cycle of the four phases | `gc.c` |
| `GCColor` | the colour byte and what an epoch makes of it | `include/chili/base.h`, `gc.c:9-19` |
| `Handshake` | abstract specification: what the phase protocol promises | |
| `GC` | the collector, the mutators, starting and stopping processors | `gc.c`, `localgc.h`, `grayvec.h`, `barrier.h`, `mark.c`, `sweep.c`, `processor.c`, `setup.c:95-107` |
| `StackScan` | marker, processors and scavenger share the scan of a stack | `stack.c:264-306`, `mark.c`, `scavenger.c`, `gc.c` |
| `Custody` | abstract specification: who holds a processor | |
| `Processor` | the two workers of a processor, requests, suspension, protection, exit | `processor.c`, `runtime.c` |

Memory:

| Module | What | Code |
|---|---|---|
| `ChunkArena` | chunks, their free lists, delayed unmapping | `chunk.c` |
| `Malloc` | malloc in pools of chunks | `malloc/pool.h` |
| `Blocks` | block manager, bump allocator, block vectors | `blockman.c`, `blockalloc.h`, `generic/blockvec.h` |
| `MajorHeap` | segments, pages, bins and cells; sweepers | `heap.c`, `sweep.c` |
| `LocalHeap` | nursery, scavenger, promotion, dirty objects and cards | `scavenger.c`, `promote.c`, `barrier.h`, `localheap.c` |

Program:

| Module | What | Code |
|---|---|---|
| `Stack` | segmented stack, growth, shrinking, unwinding, interruption | `stack.c`, `runtime.c` |
| `Apply` | application to too few and too many arguments | `runtime.c` |
| `Modules` | loading and initialising modules | `cby/module.c`, `cby/loader.c`, `module.c` |
| `Operands` | the operands of all instructions as four programs see them | `cby/bytecode/*.h`, `*.defs` |
| `Bytecode` | how rewriter, disassembler and interpreter walk code | `cby/bytecode/*.h` |
| `HashTable` | open addressing with deletion by shifting | `generic/hashtable.h` |
| `TimerHeap` | timers and their dispatcher | `system/interrupt.h`, `timeout.c`, `dispatch/epoll.h` |
| `Events` | buffers of events in a lock-free list | `event.c` |
| `EventConvert` | conversion of a log of events | `event.c` |

For TLC and TLAPS:

| Module | What |
|---|---|
| `MCGC` | symmetries and constraints for the runs of `GC` |
| `MCParts` | the modules from `ChunkArena` to `EventConvert`, and `StackScan`, side by side |
| `GCSafety` | premises and inductive invariants of the collector's safety |
| `GCProofs` | types of `GC`; the handshake: inductive invariant, lockstep, refinement; the write barrier follows it; mark states have the epoch of the cycle; no live object and no root is freed, the weak tricolor invariant, gray objects are served |
| `ModulesProofs` | modules are initialised after their imports, and once |
| `EventsProofs` | event buffers have one user each, with two writers |
| `MemoryProofs` | chunks tile the arena and are usable by who has them (`ChunkArena`); blocks of malloc do not overlap (`Malloc`) |
| `HeapProofs` | each cell of the major heap is an object or in the right list (`MajorHeap`); vectors have their blocks and what was pushed to them (`Blocks`); what is on a stack is scanned by marker or processor (`StackScan`) |
| `PartsProofs` | what is proved of `Modules`, `Events`, `ChunkArena` and `Malloc` holds in `MCParts` |
| `HeapPartsProofs` | what is proved of `StackScan`, `MajorHeap` and `Blocks` holds in `MCParts` |
| `ProcessorProofs` | one worker at a time: inductive invariant, refinement of `Custody`; no request, wake-up or notification is lost |

How they fit together: `GC` treats the memory of an object as given, and shades
what a processor holds in one step when it takes its snapshot; `StackScan` opens
up that step for stacks, `LocalHeap` for the minor heap, `MajorHeap` the sweep.
`Processor` opens up the service routine that `GC` takes for granted. The other
modules share no state with those, so `MCParts` runs each by itself: a behaviour
picks one. Each has its own variables, named as in its own module.

### State and steps of `GC`

Each thread has a place `pc[u]` in the code; one step is the code between two
accesses to state that another thread may change. What the code does under one
lock is one step, except for the two walks of the processor list: they visit one
processor per step (`MarkDoneProc`, `Poll`) while `ListLocked` keeps everybody
else from the list and its mutex, but not from their phases and gray vectors.

| Variables | Code |
|---|---|
| `phase`, `trigger`, `sweepNeeded`, `unswept` | `gc.phase`, `gc.trigger`, `gc.sweep.needed`, the segment lists to be swept |
| `listed`, `elders`, `arg` | `rt->proc.list`, its order, `ProcessorArg` |
| `lphase`, `barrier`, `epoch`, `allocColor` | `proc->gc.phase`, the mark state, `handle.allocColor` |
| `interrupt`, `scavenge` | `proc->trigger` |
| `seen`, `todo`, `ready` | local variables of `chiGCSlice`, `markDone`, `gcPoll` |
| `wstatus`, `gray`, `scan` | worker status, gray vectors, the object being scanned |
| `color`, `field`, `roots`, `groots`, `store` | the heap, what stacks and registers hold, `gc.root`, a field write in progress |
| `mode` | `option.gc.mode`: concurrent or incremental |

The path of a processor through the service routine:

    run -> control -> markProcs -> markWorkers -> markGlobal -> poll -> advance     (main only)
                                       -> workerStart / sweepAcquire                (main only)
        -> slice -> local -> setBarrier | setEpoch | snapshot
                 -> scavenge -> inc -> sweep -> mark                                (incremental)
                 -> join -> run

and of a worker: `none -> sync -> sweep -> mark -> sync`. A starter goes
`run -> starting -> run`, a new processor `off -> init -> inherit -> run ->
destroy -> unlist -> off`.

A mutator loads, drops, allocates and stores. A store with a barrier is three
steps: read the old value (`StoreBegin`), shade (`MarkBarrier`), write
(`StoreWrite`), as in `barrier.h:72-93`. A scan of an object is two: pop and
blacken (`MarkPop`), read and shade the child (`MarkField`).

### Abstractions of `GC`

* An object has one mutable field. A root of a processor stands for anything its
  stack, registers or minor heap hold: in the code the snapshot marks the stack
  and scavenges the minor heap, here it shades `roots[p]`.
* A gray vector is a set: popping a duplicate finds a black object and skips it.
* Shading, the test and the change of a colour, is one step. In the code it is a
  load and a store (`localgc.h:22-23`). `StackScan` has them apart for the marker
  and a stack, where it matters most: a stack is blackened by others.
* Objects flagged raw, which become black without being pushed, are left out:
  they have no children and are never in the interesting state.
* A segment holds one object (more in `MajorHeap`). The swept colour test is that
  of the code.
* Epochs are counted modulo `EpochMod`; 64 in the code, at least 3 for white,
  black and what is garbage to differ. The proofs hold for any value from 3.
* The entry points object the runtime registers as a root at startup
  (`StartRoot`) is never stored by a program. It is white in the main
  processor's snapshot and thereby always wakes the workers in concurrent mode.
  Without it a cycle in which all gray objects were joined before the workers
  existed would wait for a mutator to shade something (same cause as the
  finding of `GC_stop_gray`).
* The timer may interrupt any listed processor at any time.

### State and steps of the other modules

**`Processor`.** Both workers of each processor and the interrupt dispatcher have
a place `pc[t]`; a step is the code between two accesses to state that others
change. `status`, `worker`, `interrupt`, `hl` (the heap limit register that
requests zero), `trig`, `timeout` are fields of `ChiProcessor`, `lock` the mutex
of its secondary worker, `listed` and `listLock` the processor list, `alive` the
processors whose mutexes exist. `owed` and `told` remember the handshakes asked
for and the notifications given. The primary worker goes
`run -> loop .. serviced -> .. -> run` through a safe point,
`run -> foreign -> deactivate -> protectEnd -> run` through protected code and
`run -> park -> parked -> ..` through a suspension, while the secondary goes
`top -> secWait -> enter -> loop .. -> leave -> handBack -> top`. Spurious wake-ups
of the secondary worker are steps; those of `waitProcessors` are left out, as it
looks again every time.

What is written to the limit register, and when, decides whether a request is seen.
A request zeroes it after it has set the trigger (`RequestLimit`). `Yield` writes the
full limit first and comes to a look at the trigger in the end (`Check`), or earlier
to one of two exceptions: `HeapOverflow` after the limit of a new nursery block and
the second look of `RESTORE_HEAP_REGS` (`Bump`, `RestoreLimit`, `Rearm`), and
`StackOverflow` without any look. The service routine and the end of protected code
restore the registers in the same two steps. `chiGrowHeap` (`GrowHeap`) looks first
(`LookLimit`) and writes afterwards (`WriteLimit`).

`Custody` abstracts from all this: a processor is in nobody's hands, or in those of
one worker.

**`StackScan`.** A behaviour begins when all processors are in `SYNC2` and leads to
the end of marking. Stacks have a colour, a holder of their lock, and a place in
the dirty list of a processor. The marker sees a white stack (`ScanThread`), shades
it (`ShadeStack`), and scans it if it gets the lock (`ScanStack`); a processor scans
a stack when it activates it in `ASYNC` (`Activate`), and in its snapshot
(`ScanDirtyStack`). Barrier and scans under the lock are one step each.

**`ChunkArena`.** `chunks` maps the start of a chunk to its size; an allocation is
several steps (`New`, `Reuse` from the delayed list, `Find` in the arena, `Commit`
without the lock, `Emergency` when it fails), freeing too, and the unmap task takes
part. **`Malloc`** is sequential: blocks know their pool by the size in their header.

**`Blocks`**: `blockChunks`, `nextBlock`, `blocksCount`, `freeList` are the
fields of the manager; vectors are sequences of blocks with their elements.
`content` remembers what each vector must contain.

**`MajorHeap`**: a segment is a record of its pages, free pages, free cells by bin
and the page the sweep has come to; `place` is the list it is in or the handle or
sweeper that has it. A handle allocates from its own segment (`New`), gives up a
full one (`Full`), takes a partially free or a new one. `wanted` is the size it is
looking for in between: a free cell is taken only from the segment it had at first,
since the loop of `pageFindFree` looks at free pages alone, so that a segment may
become full with free cells, or get another page for a bin that has some. Sweepers
take a segment
(`SweepTake`), do a page at a time (`SweepPage`) and give it back.

**`LocalHeap`**: `cells` maps addresses to objects with header, generation, dirty and
forward bits; `promoted` is the list of promoted objects, `scavenge` its trigger. The
whole of a scavenge is one step, written as the passes of the code: roots, dirty
objects, cards, then copied and promoted objects by turns. `want` and
`hold` are the graph the program has built.

**`Stack`**: `segments` is the chain of stack objects with their frames; `calls`
remembers the frames the program has pushed. **`Apply`** has the argument registers and
the frames of over- and partial applications.

**`Modules`** has the stacks of threads that load modules: frames of the module, of
its code with the slots of imports, and of the walk of imports. The path consists
of directories, archives and libraries, which may lack or damage a file.
**`Operands`** is a table of the widths of operands, once for each of the four
programs that know them. **`Bytecode`** walks programs made of one instruction in
its context, by opcode, as the disassembler, the rewriter and the interpreter do.
The interpreter is `astray` where `ret` has read its operands behind the `enter` of
its caller (finding 6); what it executes then is left open.

**`HashTable`** is the array of entries with growth and deletion. **`TimerHeap`** has
the array heap with the back indices, the clock, the dispatcher between reading the
clock, dispatching, arming and sleeping. **`Events`** takes the lock-free list one
access at a time. **`EventConvert`** counts bytes in its two buffers.

## 3. Runs

| Run | Instance | Question |
|---|---|---|
| `GC_single` | 1 processor, 1 worker, 2 objects, both modes, any number of cycles; 415,000 states | safety of marking, sweeping and the barrier: `NoLostObject`, `RootsAlive`, `WeakTricolor`, `GrayNullAtEnd`, `TypeOK` |
| `GC_pair` | 2 processors, 1 worker, 2 objects, one cycle; 896,000 states | two mutators in different phases: `NoLostObject`, `EpochAgreement` |
| `GC_lockstep` | 3 processors that start and stop, no heap, one cycle; 702,000 states | the handshake: `LockstepInv`, `BarrierInv`, `InLockstep`, `NoBarrierGap`, `ImplementsHandshake` |
| `GC_live` | 1 processor, 1 worker, 2 objects, any number of cycles; 23,000 states | `GrayServed`, and under fairness `TriggerServed`, `HandshakesEnd`, `MarkEnds`, `SweepEnds` |
| `Processor_serve` | 1 processor, its two workers, the dispatcher with all kinds of requests, at most 2 of them; 79,000 states | no request is lost but by the two steps of findings 14 and 15, no wake-up and no notification at all, the workers never serve together: `OneWorker`, `StatusAsserted`, `NoLostInterrupt`, `NoLostWakeup`, `NotAsleep`; under fairness `HandshakeAnswered` |
| `Processor_exit` | 2 processors that start, stop and exit; 195,000 states | `TypeOK`, `RequestAlive`, the refinement `ImplementsCustody`; under fairness `ShutdownEnds` |
| `Parts` | the components of `MCParts`, bounds below; 722,000 states | `MemorySound`, `HeapSound`, `Faithful`, `HeapInvariants`, `VecHolds`, `FramesKept`, `StacksScanned`, `ArgumentsInOrder`, `ImportsReady`, `OnBoundaries`, `SearchesFind`, `TimersServed`, `EventsWhole` |
| `GC_premature_end` | 2 processors, 1 worker, 2 objects | finding 1 |
| `GC_stuck_worker` | 1 processor, 2 workers, 2 objects, fairness | finding 2 |
| `GC_stop_gray` | 2 processors, 1 worker, 2 objects | finding 3 |
| `GC_late_root` | 2 processors, 1 worker, 1 object | finding 4 |
| `LocalHeap_cheney` | 5 objects, 2 slots, scavenges from aged roots only | finding 5 |

### Bounds of `GC`

`Proc`, `Worker`, `Obj`, `EpochMod` are small sets and numbers; `MaxRoot` bounds
the global roots. Epochs wrap, so `GC_single` and `GC_live` cover unboundedly many
cycles and the wrap of the colour byte. The constraints of `MCGC`:

* `Shape`: references lead to leaves only: one object is hidden behind another one
  and in the end reached by the last reference to it. Longer paths would add chains
  of gray objects, which are popped in any order here.
* `OneCycle`, `FirstCycle`: stop after the first cycle, or after the first handshake of
  the second. What differs between cycles (the epoch, leftover gray objects) is
  covered by `GC_single`.
* `Prompt`: the timer interrupts only processors that lag behind. Other
  interrupts lead a processor through `chiGCSlice` with no effect on phases.
* `Between`: the main processor is not interrupted a second time while it serves an
  interrupt: it would serve once more.
* `Populated` (`GC_pair`, `GC_premature_end`): no allocation and no start or stop
  during a cycle. Allocation during cycles is covered by `GC_single`, starting
  and stopping by `GC_lockstep`; a pair with both is out of TLC's reach.
* `NoScavenge` (`GC_lockstep`): slices of incremental marking do nothing there,
  as there are no objects.
* `CleanEnd` (`GC_pair`, `GC_late_root`, `GC_stop_gray`): the mark phase does not
  end in the way of finding 1. Without it `GC_pair` would show only the
  consequences of that finding: everything it states is conditional on a
  repaired end of the mark phase. `GC_single` does not need it.

### Bounds of `Parts`

Every number is in `MCParts.cfg`. What they let happen:

* `ChunkArena` (283,000 states): an arena of 5 units, requests of 1 and 2 units, and of 2
  units that begin at an even one: splits at both ends, coalescing on both sides,
  reuse, and failure when the arena is full or memory cannot be committed, with one
  allocating thread and the unmap task.
* `Malloc` (8,600): three blocks of sizes around the class boundaries, up to a chunk.
* `Blocks` (10,500): two vectors, blocks of two elements, two chunks of two blocks.
* `MajorHeap` (126,000): two segments of two pages with two or three cells each, one
  handle, one sweeper; a page of one cell size becomes free and gets another, and a
  swept segment with free cells is passed over in the search for a page.
* `LocalHeap` (46,000): four objects, six operations, two slots: an object is
  promoted, scavenged and promoted again with its forwarding thunk still about.
* `Stack` (29,000): sizes small enough for several growths, an overflow and frames of
  both sizes; four frames.
* `StackScan` (54,000): two processors, one stack, two objects. Also checked once by
  hand with two stacks and one object (370,000 states).
* `Modules` (31,000): four modules in a diamond, five initialisations, one thread. Two
  threads with one initialisation before both have begun were checked once by hand
  (4.3 million states).
* `Apply` (2,000): arities and calls on both sides of the special cases for up to
  four arguments and five in partial closures.
* `Bytecode` (57,000): every opcode, with 0, 1, 2 and 5 groups; `ret` with 0 and 5 values.
* `HashTable` (13,000): four keys with hash values that collide and wrap, table of
  four entries growing to eight.
* `TimerHeap` (32,000): three timers, clock up to 3. Three timers cannot break the
  order of the heap; `HeapKept` therefore inserts into and removes from all heaps of
  up to six timers with three deadlines.
* `Events` (26,000): two writers without a worker and one with, three buffers.
* `EventConvert` (3,000): three messages, some larger than a buffer.

`AgedOnly = FALSE`, `Pipe = FALSE`, `Overlap = FALSE` and two writers keep out the
situations of findings 5, 10, 11 and 13, which those constants otherwise show; what
`Parts` states is conditional on them. Findings 6 and 9 do occur in it, and the
properties say so: `OnInstructions` is about the interpreter until a `ret` with a
count and values has led it astray, `HeapKept` says of each removal whether it
leaves the heap in order, and `WakesInTime` holds while the heap is in order, as
that of three timers always is.

Deadlock is not checked in `Parts` and `LocalHeap_cheney`: programs end, and the
bounded numbers of operations are used up.

### Fairness

Compiled code polls the interrupt trigger at every function entry, so a
processor that is interrupted again and again reaches its service routine, even
though it also mutates in between (strong fairness of `Serve`). The timer ticks
(strong, since a tick waits for the list mutex). A store, an inheritance and a
destruction, once begun, go on; those that take the list mutex need strong
fairness. Threads of the operating system are scheduled (weak fairness of each
worker). Nothing is assumed of programs: they need not allocate, store or stop.
A processor that waits for another one to start serves no request meanwhile;
`GC_live` has one processor and says nothing about programs that start
processors without end.

In `Processor` compiled code comes to a safe point again and again if the limit
register is zero, and not each time with the nursery exhausted, which has a new
block then, or the stack at its limit, which is then unwound (strong fairness of a
`Yield` that needs no heap, and of `GrowStack`); what has begun goes on.
Foreign functions need not return and suspensions need not end.
`HandshakeAnswered` holds without them; it says that a handshake is answered
or forgotten in one of the two steps of `NoLostInterrupt`, after which nothing but
another request need bring compiled code to its safe point. `ShutdownEnds` assumes
that foreign functions and suspensions do end, since a request to exit that arrives
between the last safe point and `chiProcessorSuspend` does not wake the processor,
and that no processor goes on for ever with an interrupt it has forgotten.

### Mutants

Every property of a passing run has a mutant, an operator named
`<definition>_<what is wrong>` before the definition it breaks, e.g. a barrier
that forgets the deleted value, or a poll that counts only the last processor. A property
of `MCParts` that speaks of several components has a mutant in each of most of them.

## 4. Findings

1. **The mark phase can end too early** (`GC_premature_end`, `gc.c:319`).
   `markDone` looks at the processors' gray vectors, the workers and the global
   vector one after the other; `gcPoll` then checks the phases. A processor
   that takes its snapshot between the two looks is gray and in phase `ASYNC`:
   the phase changes to `IDLE` and the assertion of `gc.c:404` fails.
2. **A worker can wait with gray objects** (`GC_stuck_worker`, `gc.c:90`). Woken
   during a handshake of a later cycle it takes a block of gray objects, does
   not mark since the phase is not `ASYNC`, and waits. If another worker takes
   the rest, nobody wakes the first and marking never ends.
3. **A stopping processor wakes nobody** (`GC_stop_gray`, `gc.c:442`).
   `chiLocalGCDestroy` joins its gray objects to the global vector without
   `gcWorkerNotify`.
4. **A root may be freed** (`GC_late_root`, `gc.c:214`). Roots are marked in the
   main processor's snapshot. A processor still in `SYNC2` allocates white; when
   it then registers such an object as a root and drops it, nobody marks it.

5. **A scavenge can leave objects unscanned** (`LocalHeap_cheney`,
   `scavenger.c:152`). Whether a round was the last is decided before the promoted
   objects of that round are scanned, which may copy young objects into the blocks
   that were just found empty. Those keep references into freed memory.

Those below have no run of their own. Each was met when the constant named was
changed in `MCParts.cfg`, or a property added that is stated in its module and
commented there as one that does not hold.

6. **`ret` with a count reads its operands from the caller** (`interpreter.h:612`):
   they are fetched after the frame has been left. `Bytecode!NeverAstray`.
7. **A forwarding thunk forwards once** (`runtime.c:100`): it is overwritten with a
   reference to itself. `LocalHeap!ForwardLeads`.
8. **The stack size drifts** (`stack.c:79`): segments copied as a whole are never
   subtracted, so that a small stack overflows. `Stack!StackSizeExact`.
9. **Removing a timer can break the heap** (`interrupt.h:65`): the timer that takes its
   place is only sifted down. `TimerHeap!TimersInOrder`, with six timers; `HeapKept`
   says which removals do it.
10. **The list of event buffers has the ABA problem** (`event.c:171`). Three writers
    without workers: `EventsWhole`.
11. **Converting a log from a pipe may stop early** (`event.c:303`): a short read is
    taken for its end. `Pipe = TRUE`, `Converted`.
12. **A running stack can turn gray again** (`mark.c:44`): the marker sets gray what
    another processor has made black since it looked, and does not come back to a
    stack it cannot lock. An assertion of the scavenger fails, or the stack is freed by
    the next sweep. `StackScan!DirtyStacksBlack`, `StacksBlack`.
13. **A stack can be scanned by nobody** (`mark.c:80`): the lock may be held by a plain
    scavenge that began before the phase changed, and the snapshot does not come to
    the stack as it is not dirty any more. `Overlap = TRUE`, `StacksScanned`.
14. **A stack overflow forgets an interrupt** (`runtime.c:505`). `chiYield` overwrites the
    zeroed limit first of all (`runtime.c:470`) and looks at the trigger at its end
    (`runtime.c:513`); the exception for a stack that cannot grow skips that look.
    `Processor!NeverForgotten`.
15. **Growing the heap may overwrite a request** (`new.c:68`). `chiGrowHeap` writes the limit
    after it has looked at the trigger, where `RESTORE_HEAP_REGS` looks after it has
    written. `Processor!NeverForgotten`, also without `StackOverflow`.

Met on the way, neither proved nor refuted by a property:

* `gc.trigger` is cleared at the end of a cycle (`gc.c:326`), so that a trigger raised
  while the cycle ran is lost; `TriggerServed` is stated accordingly.
* In incremental mode workers do not exist and their epochs do not matter. A
  worker creation that fails for the first worker leaves concurrent mode without
  workers (`WorkerAssumption`).
* A user interrupt that its thread did not accept stays set; `chiProcessorProtectEnd`
  then sets the interrupt flag after every foreign call, but not the limit register:
  it is looked at with the next request, or when the nursery is exhausted.
* `uaFreeEmergency` (`chunk.c:377`) always returns false: memory released in an
  emergency is not used for the allocation that needed it.
* `chunkClassSmaller` fails its assertion for a request whose size and alignment
  together exceed `CHI_CHUNK_MAX_SIZE`.
* `loader.c:388`: the search in an empty registry starts from index -1, unsigned.
  `loader.c:180` counts an archive that could not be opened.
* What `chiEventConvert` has in its output buffer is lost when it stops with an error.

## 5. Proofs

The theorems about the collector hold for any sets of processors, workers and
objects, under the named assumptions of `GC` and `GCColor`: the main processor is a
processor, processors, workers and the owner of the global vector differ, there are
at least three epochs. Those about `Processor` hold for any set of processors, any
kinds of requests of the dispatcher and any number of them, under its assumptions:
the main processor is a processor, the dispatcher is not a worker
(`DispatcherAssumption`), and nobody is no thread (`NullAssumption`).

* `GCProofs!TypeCorrect`: `Spec => []TypeOK`, one lemma per group of actions.
* `GCProofs!LockstepInvariant`: `Spec => []LockstepInv`. `InLockstep`
  alone is not inductive. It needs four things:
  - `Listing`: the list holds exactly the initialised processors;
  - `Handover`: what a starter has captured is still its own phase when the new
    processor inherits it, as it waits; every starter waits for one processor,
    and precedes it in the list;
  - `Following`: a processor is in the global phase or one behind, and if its
    view of the global phase is out of date it has already followed it;
  - `Walk`: while `gcPoll` walks the list with `ready` still true, everybody it has
    visited is in the global phase, and none that is about to inherit was visited
    before its starter. So when the walk ends everybody is in the global phase,
    also those that inherit afterwards, and stays there until the phase changes.

  Most steps are *quiet*: they change nothing that `LockstepInv` mentions, and one
  lemma (`QuietKeeps`) deals with all of them. One lemma each deals with the rest:
  starting, initialising, inheriting, unlisting, the start of a walk, a visit,
  the change of phase, and the steps of a processor that follows.
* `GCProofs!Lockstep`: `Spec => []InLockstep`, the assertions of
  `gc.c:355` and of the `ASYNC` case of `chiGCSlice`.
* `GCProofs!HandshakeImplemented`: `Spec => H!Spec`. The lemma for each
  step also says which abstract step it is: `Advance`, `Acknowledge`, `Enter`,
  `Leave`, or a stutter.
* `GCProofs!BarrierGapFree`: `Spec => []NoBarrierGap`. `chiGCSlice` publishes
  the local phase before it sets the barrier (or the other way round at the
  snapshot) and `gcPoll` looks at the phase alone. `BarrierInv` says that the
  barrier is nevertheless the one of the local phase, except between the two
  writes; `Following` bounds the local phases. Where nobody is between two writes,
  a processor in `ASYNC` puts all others in `SYNC2` or `ASYNC`.

* `GCProofs!EpochInvariant`, `EpochsAgree`: `Spec /\ []CleanEnd => []EpochInv`, and
  from it `[]EpochAgreement`. Between the end of a mark phase and the next handshake
  epochs do differ: every processor and thread takes the next epoch in its own time.
  `EpochInv` therefore says which epoch each is *due* to take: all of them the epoch
  of the cycle (`CycleEpoch`), and a new processor the one of its starter. The next
  cycle does not begin before all threads have acknowledged (`EpochAck`).
* `GCProofs!HeapInvariant`:
  `Spec /\ []CleanEnd /\ [][SteadyRoots]_vars => []HeapInv`, with the consequences
  `NothingLost` (`NoLostObject`), `RootsStay` (`RootsAlive`), `NoGrayAtEnd`
  (`GrayNullAtEnd`) and `Tricolor` (`WeakTricolor` from the main processor's snapshot on:
  a white root that waits for it is protected by nothing else). This is the
  snapshot-at-the-beginning argument for any number of processors, threads and
  objects. None of the four is inductive; `HeapInv` has six parts:
  - `ColorsInv`: which colours what is alive has in which phase; alive (`Live`) is what
    can be reached from roots, global roots and the registers of a field write;
  - `GrayInv`: each gray object is in exactly one gray vector;
  - `AllocInv`: who has taken its snapshot allocates black, all others white;
  - `StoreInv`: behind the barrier the old value of a write is marked, and the new one
    as long as the writer's snapshot is still to come;
  - `OverwriteInv`: where two processors write one field in `SYNC2`, so that the second
    overwrites a value it has not seen, that value is marked. `chiMarkBarrier` marks
    new values before the snapshot for this reason;
  - `KeptInv`: `Kept` is what the cycle comes to whatever the mutators do, the least set
    with all objects that are not white, the global roots not yet marked, and what
    gray objects, objects being scanned and white kept ones refer to, except through
    a field somebody is about to overwrite without having seen its value. Who has
    taken its snapshot holds kept objects only; scanned objects refer to kept ones.

  `KeptGrows` says when a step loses nothing that is kept, `KeptCarry` when `KeptInv` goes
  on to hold, and each action is shown to be of that kind. At the end of the mark
  phase nothing is gray, so `Kept` is the set of marked objects; all that is alive
  is in it (`HeapAdvanceEnd`), is therefore black, and black is the white of the next cycle.

  The premises exclude findings 1 and 4 and nothing else: `CleanEnd` says that what
  `markDone` has seen of gray vectors and threads still holds when the phase changes,
  `SteadyRoots` that a global root is registered or given up either before the mark
  phase or when everybody has taken its snapshot. They are conditions on an
  execution, not on constants, and the runs show executions of both kinds.
* `GCProofs!SafeAlone`: for a program that runs on its main processor only, with any
  number of collector threads, in both modes, both premises are theorems (`AlonePremises`)
  and all of this holds of every execution: `Spec => [](NoLostObject /\ RootsAlive /\
  GrayNullAtEnd /\ WeakTricolor /\ EpochAgreement)`. `AloneInv` says what remains true
  from one part of `markDone` to the next, as nobody but the main processor shades
  objects outside of marking.
* `GCProofs!GrayIsServed`: for such a program, if the runtime has registered its
  entry points (`StartRoot`), `Spec => []GrayServed`: after the snapshot the collector
  threads do not all sleep while the global vector has gray objects. A thread looks
  at the vector under the lock before it waits, and whoever adds to it notifies; but a
  slice that has nothing to join notifies nobody. What may be in the vector
  before the threads exist, or was left there by a thread that was woken too early,
  is served only because the main processor's snapshot finds something to mark.
  `AwakeInv` says that the threads are awake or that snapshot is still to be joined
  (`FirstSlice`), `QuietInv` that before there are threads nothing has touched the
  colour of the entry points, so that the first snapshot does find them white. With
  several processors, finding 3 refutes the property.

* `ProcessorProofs!CustodyInvariant`: `Spec => [](TypeOK /\ CustodyInv)`, with
  `ProcessorTypeCorrect`, `OneWorkerServes` and `StatusHolds` as consequences. What
  `OneWorker` says of the places of two threads is not inductive, since neither
  sees where the other is; they see the status. `CustodyInv` is
  - `Told`: the status is `ACTIVE` or `RUN` exactly while the primary worker is away,
    `RUN` while the secondary one is busy, `STOP` only after the join has begun;
  - `Calls`: who is in the middle of a request has one, for a processor, and goes
    back to where it came from, so that no thread returns into the other's code;
  - `Starters`: a processor being started knows its starter, who waits for it alone.
    Otherwise its initialisation could release a thread that is somewhere else.
* `ProcessorProofs!CustodyImplemented`: `Spec => ImplementsCustody`. The lemma for
  each action also says which step of `Custody` it is: `Take` (`SecondaryTop`,
  `Deactivate`, `InitProcessor`), `LayDown` (`ProtectBegin`, `SecondaryLeave`, `Free`),
  `Ask` (`RequestLimit`), `Answer` (`ServiceSlice`, `Unlist`), or a stutter.
* `ProcessorProofs!RequestInvariant`: `Spec => []RequestInv(Proc)`, on top of
  `CustodyInv`. It has a part for each of four theorems:
  - `ListInv` for `RequestsAlive`: the processors whose mutexes exist are those whose
    primary worker exists; those in the list have not come to the end; whoever asks
    has found its targets in the list and holds the lock of the list, or asks itself.
  - `HeldInv` for `InterruptsHold`: while a handshake is owed the trigger is set or a
    worker just serves it, and wherever the primary worker comes to compiled code
    without another look at the trigger (`Armed`) the limit is zero. The primary
    worker clears the trigger only where it serves next; where it finds the trigger
    clear, no handshake is owed (`Seen`), which needs `CustodyInv`: the other worker
    cannot be serving at that moment. The limit may be in place in spite of a
    handshake after the steps of findings 14 and 15. So the invariant has a parameter,
    the set of processors of which nothing is said of the limit. With all of them in it,
    it holds always, by induction. With all but `p` it is kept by each step that is
    neither of these two of `p`: as only they make `Forgotten(p)` true,
    `NoLostInterrupt` holds of every step.
  - `SleepInv` for `NeverAsleep`: who was told to wake has no time left to sleep.
  - `WakeInv` for `WakeupsArrive`: the primary worker waits only while the status is
    `RUN`, and then the secondary one does not wait. So two threads never wait for the
    one condition variable together, and a `chiCondSignal` meant for one cannot
    be taken by the other.

  Steps of one thread that neither sleeps nor asks are dealt with by `CalmStep` and
  `SteadyStep`, steps of the two workers of one processor by `OneStep`; the other
  lemmas are about requests (`BeginKeeps`, `InterruptKeeps`, `WakeKeeps`, `NextKeeps`),
  starting and ending.

* `HeapProofs!NoStackMissed`: if nobody is no processor (`RunnersValid`) and the
  phase does not change during a scavenge (`~Overlap`, which excludes finding 13),
  `Spec => []StacksScanned`, for any number of processors, stacks and objects.
  `StacksScanned` speaks of the end of marking only; `ScanInv` says who will see to it:
  - `Locks`: a stack is locked by whoever runs or scavenges it, and dirty for it alone;
  - `Phases`: nothing is marked before the phase changes, and a scavenge that begins
    afterwards is a snapshot;
  - four promises that a stack is `Clean` (what is white on it is referred to by an object
    the marker will still look at): a processor in `ASYNC` keeps it for the stacks it
    runs or has made dirty; a snapshot for those it has come to; the marker for those
    it is done with, unless the stack is with a processor whose snapshot is still
    to come; and the marker for the object it has scanned.

  That objects on a stack stay marked is by itself no property of one actor: the
  marker turns away from a locked stack since its holder has promised to scan it.

* `ModulesProofs!ModulesReady`: for any finite set of threads and whatever they load,
  initialise and remove at the same time, `Spec => [](ImportsReady /\ InitOnce)`. The
  properties speak of the module hash; the argument is about stacks. `LoadInv` has the
  grammar of a stack (`FrameInv`): a module frame is the first or lies on the import
  frame that asked for it, its code lies on it, and an import frame on the code
  whose slots above the index have values already. `DoesInv` says that what a thread
  returns or is about to initialise is what the frame on top waits for, and that
  code runs only with all slots filled. Every entry of the hash carries a value that is
  older than any the program makes later, so a value found there will do. `Once`
  adds, for a thread that is alone, that no module on the stack has an entry and
  that each was imported by the one below; since imports are acyclic (in the
  model: go up), the module that is about to be initialised is not among them.
  The modules and their imports are those of the model, a diamond; threads, loads
  and failures are arbitrary.
* `EventsProofs!LogIsWhole`: with at most two writers besides the worker (`TwoWriters`,
  which excludes finding 10 and is all that does), `Spec => []EventsWhole` for any
  number of buffers. `IsList` says without an order what a list is: the least set
  that has the head and the link of each member, no two members with the same
  link, none with the head for its link. Taking off the head (`PopList`), putting one
  in front (`PushList`) and changing links of others (`SameList`) keep it, and freeing it
  frees all of it (`WalkList`). `LookInv` is the reason why two writers are safe: what a
  writer looks at is in the list, or the other writer has it, and then the head of
  the list is still what the link says, as nobody else could have moved it
  (`OtherLooks`). With a third writer that step fails.
* `HeapProofs!HeapIsSound`: for any number of segments, pages, handles and sweepers,
  `Spec => []HeapSound`. A free list has no duplicates and no cell of another one
  (`ListsGood`), and its cells together with the objects are all cells of the pages
  that are settled: those a sweeper has done, or all if nobody sweeps the segment.
  `Good` says this of a segment and a set of cells with objects; each operation on a
  segment keeps it, seen as an operation on such a pair (`TakeCell`, `MakePage`,
  `ResetGood`, `FreePageGood`, `CellsFreed`). `SweepInv` is what connects it with who has
  the segment: only a sweeper, or the list of partially swept ones, has a segment with
  pages to be swept, so a handle always finds all pages settled; and a segment not yet
  called alive has objects only on pages still to be swept, so one that is released has
  none. The sizes satisfy `HeapValid`: an object fits a page, no processor
  has the name of a list, and two facts about the powers of two on which bins rely: a
  cell holds all objects of its bin, and its size gives back the bin. These two are
  true of `chiLog2Floor` and `chiLog2Ceil` for all sizes, but the provers do not know
  exponentiation; TLC evaluates them for the sizes of the run.
* `MemoryProofs!ArenaIsSound`: for an arena of any size, any requests and any number of
  threads, `Spec => [](ArenaSound /\ HeldUsable /\ NoLeak)`. Between the steps of an
  allocation a chunk is neither free nor held, so the three properties are not
  inductive. `ArenaInv` has
  - `Sound`: the chunks tile the arena, free neighbours are joined, and each free chunk
    is in the list of its class, once. Its second argument is a set of chunks for which
    this does not hold yet: it describes the arena in the middle of `vaInsertFree`,
    when a chunk has been marked free, has swallowed one neighbour or both, and is
    in no list (`Freed`, `Swallowed`, `Enlisted`), and `vaSplit`, which gives the rests back
    (`CutDivides`, `CarveIs`);
  - `HandsInv`: a chunk in the hands of a thread is used, is in nobody else's hands, is
    not held and does not wait to be unmapped, and one that is to be committed is as
    large and aligned as its request;
  - `HeldInv`, `DelayedInv`: what is held or waits is used, backed by memory, and not both;
  - `OwnedInv`: committed memory belongs to a used chunk that is not about to be
    committed or already decommitted. It is the converse of the two before: without it
    a chunk could become free and leave memory behind (`NoLeak`).

  The other actors come in where a thread works without the lock: what one commits,
  decommits or inserts leaves the chunks in other hands as they are (`Keeps`).
* `MemoryProofs!BlocksAreSound`: for chunks and blocks of any sizes and any number of
  blocks, `Spec => []MallocSound`. Each block, each object of a free list and what a pool
  has not handed out has a claim to a part of a chunk; `MallocInv` says that claims of
  different owners are apart (`Tidy`), and that a block fits into the object of *its* pool
  (`BlockFits`), which is the one found from the size in its header. `realloc` in place
  may make that a smaller pool than the block came from; the object then claims
  less, and the rest of it is lost until the chunk goes, but nothing overlaps.
* `HeapProofs!VectorsAreWhole`: for any vectors, elements, and lengths of blocks and
  chunks, `Spec => [](BlocksSound /\ VecHolds)`. `BlockInv` is about a manager and the set
  of blocks that are out (`Managed`): the free list and that set are disjoint and
  together as many as `blocksCount`, all lie in chunks the manager has, before
  the next block in that one's chunk; `Thrifty` adds that without blocks out there are no
  chunks. What is out is exactly what vectors and bump allocator have, each block
  once (`Vectors`), and `Counts` that an element is in a vector as often as it should be.
  Each operation takes blocks out of the manager (`Allocated`) or gives them back
  (`BlockFreed`, `BlocksFreed`, with `ChunksFreed` when they were the last), and changes one or
  two lists (`PutKept`, `PutTwoKept`). How often an element is in two lists joined, or in a
  list whose head has changed or gone, is what this needs of sequences (`NumJoined`,
  `NumOne`, `TimesAppend`, `TimesFront`, `HeadChanged`).

  The sizes of these three satisfy `ArenaValid`, `MallocValid` and `BlocksValid`. The first
  two contain facts about powers of two: each chunk has a size class, a chunk of a
  class not smaller than the request's has room for it, a block fits into the objects
  of its pool. They are true for all sizes, but the provers do not know
  exponentiation; TLC evaluates them for the sizes of `Parts`.
* `HeapPartsProofs!StacksAreScanned`, `MajorHeapIsSound`, `VecsAreWhole` and
  `PartsProofs!ImportsAreReady`, `EventsAreWhole`, `MemoryIsSound`: the same for the `Spec` of
  `MCParts`: `Spec => []StacksScanned`, `[]HeapSound`, `[]VecHolds`, `[]ImportsReady`,
  `[]EventsWhole`, `[]MemorySound`. A behaviour of `MCParts` is one of a single component
  (`ScanStep`, `HeapStep`, `BlockStep`, `LoadStep`, `LogStep`, `MemoryStep`); the component's
  module is instantiated here and by `MCParts`, and the two instances are shown equal
  (`SameScan`, `SameHeap`, `SameBlocks`, `SameLoad`, `SameLog`, `SameChunk`, `SameAlloc`).

Only model-checked: liveness, which needs fairness and is out of the prover's
reach, and seven invariants of `MCParts`.
- `Faithful`, `OnBoundaries`, `SearchesFind` and `HeapInvariants` compare what loops compute
  with what they should, over all inputs of a bounded size.
- `FramesKept` and `ArgumentsInOrder` are about the contents of stacks that are cut,
  filtered and joined by folds and `SelectSeq`.
  No operator of the project is `RECURSIVE`, but induction over a loop has to be done by
  hand, with a least counterexample (`ModulesProofs!LeastNat`), and folds take an
  operator, which the provers cannot instantiate.
- `TimersServed`: each timer is in the heap once, at the place it knows, the dispatcher
  sleeps no longer than to the first deadline, and what insertion and removal do to
  heaps of up to six timers, which again is what loops compute.

## 6. What is left

* Proofs about the other modules of `MCParts`, where folds would have to be replaced by
  functions first.
* `GC` with shading in two steps for all objects, and the null trigger of a gray
  vector apart from the shade. Both multiply the states of every run.
* `StackScan` with stacks that grow while they are scanned.
* The usage limits of the major heap and how they trigger collections.
* A pair of processors that start, allocate and collect at once.

## 7. Not modelled

* The end of the program in the collector (`gcWorkerStop`, `chiGCDestroy`): it runs
  when only the main processor is left.
* What single bytecode instructions compute, and the pure continuations of
  `runtime.c`: arithmetic and calls of library functions without state of their own.
* Event formats, statistics, tracing, the profiler: observation only.
* Strings, numbers, bigint, buffers: pure data.
* Option parsing, sinks, error output, system layers: input and output; mutexes and
  condition variables are taken to be what POSIX says.
* Setup and hooks: each runs once, on one thread.
* Compiler plugins, scripts and generated tables: not part of the running program.
