-------------------------------- MODULE GC --------------------------------
(***************************************************************************)
(* The on-the-fly mark and sweep collector of the native runtime           *)
(* (native/gc.c, mark.c, sweep.c, localgc.h, barrier.h), for a set of      *)
(* processors that run Chili code and a set of collector threads.          *)
(*                                                                         *)
(* The main processor drives the global phase in chiGCControl.  Every      *)
(* processor follows it in chiGCSlice, at a safe point, when somebody set  *)
(* its interrupt trigger.  Between safe points it is a mutator: it loads,  *)
(* allocates, and stores through the write barrier its phase asks for.     *)
(* Collector threads (concurrent mode) or the slices of the processors     *)
(* (incremental mode) mark gray objects and sweep.            *)
(*                                                                         *)
(* A program counter pc says where each thread is; a step is the code      *)
(* between two accesses to state other threads can change.                 *)
(*                                                                         *)
(* The heap is the major heap.  An object has one mutable field; a root    *)
(* of a processor is a reference its stack, registers or minor heap hold.  *)
(* A gray vector is a set: an object pushed twice is skipped the second    *)
(* time, as it is black by then.                                           *)
(***************************************************************************)
EXTENDS GCPhase, GCColor, FiniteSets

CONSTANTS
  Proc,       \* processors
  Main,       \* the main processor
  Modes,      \* the collection modes (option gc) the program is started in
  Worker,     \* collector threads of concurrent mode
  MinWorker,  \* how many of them the system can start at the least
  Obj,        \* objects of the major heap
  StartRoot,  \* the global roots registered at startup
  MaxRoot,    \* bound on the number of global roots
  Global,     \* owner of the global gray vector
  Null,       \* no object
  Free        \* the colour of a cell on a free list

ASSUME ProcAssumption == Main \in Proc
ASSUME UnitAssumption ==
  /\ Proc \cap Worker = {}
  /\ Global \notin Proc \cup Worker
ASSUME HeapAssumption == Null \notin Obj /\ Free \notin Color /\ StartRoot \subseteq Obj
(* Without any worker that could be started the mark phase would never     *)
(* end: the time slice of incremental marking is zero in concurrent mode.  *)
ASSUME WorkerAssumption ==
  /\ IsFiniteSet(Worker)
  /\ MinWorker \in Nat
  /\ "CONC" \in Modes => MinWorker \in 1 .. Cardinality(Worker)
ASSUME ModesAssumption == Modes \subseteq {"CONC", "INC"}

Unit == Proc \cup Worker

VARIABLES
  phase,        \* gc.phase
  trigger,      \* gc.trigger: a collection was asked for
  sweepNeeded,  \* gc.sweep.needed
  unswept,      \* objects in gc.sweep.segmentUnswept, segmentPartial, largeList
  mode,         \* rt->option.gc.mode
  listed,       \* the processors of rt->proc.list
  elders,       \* those before a processor in the list
  arg,          \* ProcessorArg of a processor being started
  lphase,       \* proc->gc.phase
  barrier,      \* markState.barrier of a processor
  epoch,        \* the epoch of the mark state of a processor or worker
  allocColor,   \* proc->handle.allocColor
  interrupt,    \* proc->trigger.interrupt
  scavenge,     \* proc->trigger.scavenge
  pc,           \* where a thread is
  seen,         \* the global phase chiGCSlice has read
  todo,         \* processors the loop of markDone or gcPoll has yet to visit
  ready,        \* the local "done" of gcPoll
  wstatus,      \* ChiGCWorker.status
  gray,         \* the gray vectors
  scan,         \* the object whose field a marker is about to read
  color,        \* ChiObject.color
  field,        \* the field of an object
  roots,        \* the roots of a processor
  groots,       \* gc.root
  store         \* the field write a processor is in

slicevars == <<lphase, barrier, allocColor, seen>>
loopvars  == <<todo, ready>>
cyclevars == <<phase, trigger, sweepNeeded, unswept>>
rtvars    == <<mode, listed, elders, arg>>
reqvars   == <<interrupt, scavenge>>
heapvars  == <<color, field, roots, groots>>
workvars  == <<wstatus, scan>>

vars == <<slicevars, loopvars, cyclevars, rtvars, reqvars, heapvars, workvars,
          epoch, pc, gray, store>>

NoArg   == [from |-> Null, phase |-> "IDLE", barrier |-> "NONE", epoch |-> 0, alloc |-> White(0)]
NoStore == [obj |-> Null, old |-> Null, val |-> Null]

ProcPC == {"off", "init", "inherit", "starting", "run", "barrier", "write",
           "control", "markProcs", "markWorkers", "markGlobal",
           "poll", "advance", "workerStart", "sweepAcquire",
           "slice", "local", "setBarrier", "setEpoch", "snapshot", "scavenge",
           "inc", "sweep", "mark", "join", "destroy", "unlist"}
WorkerPC == {"none", "sync", "sweep", "mark"}

Goto(u, l) == pc' = [pc EXCEPT ![u] = l]

(* Broken: only the vectors of the collector threads are looked at.        *)
GrayNull_workers(u) == u \in Proc \/ (gray[u] = {} /\ pc[u] # "mark")

(* A gray vector is announced as non-null from before its marker empties   *)
(* it until chiGrayVecUpdateNull at the end of chiMarkSlice.               *)
GrayNull(u) == gray[u] = {} /\ pc[u] # "mark"

(* CHI_LOCK_MUTEX(&rt->proc.mutex): the main processor holds it while it   *)
(* walks the processor list.                                               *)
ListLocked == pc[Main] \in {"markProcs", "poll"}

(* Broken: the processor list in no particular order.                      *)
Visit_unordered(q) == q \in todo

(* CHI_FOREACH_PROCESSOR comes to a processor after those before it.       *)
Visit(q) == q \in todo /\ elders[q] \cap todo = {}

Started == {w \in Worker : wstatus[w] # "none"}

(* Broken: waiting threads are not woken for marking, or not for sweeping. *)
Notified_epoch(status) ==
  [w \in Worker |-> IF wstatus[w] = "WAIT" /\ status = "EPOCH" THEN status ELSE wstatus[w]]
Notified_run(status) ==
  [w \in Worker |-> IF wstatus[w] = "WAIT" /\ status = "RUN" THEN status ELSE wstatus[w]]

(* gcWorkerNotify *)
Notified(status) ==
  [w \in Worker |-> IF wstatus[w] = "WAIT" THEN status ELSE wstatus[w]]

(* chiMark for a set of references.                                        *)
White2Gray(S, e) == {o \in S : color[o] = White(e)}

(* Broken: the shaded object is not pushed to the gray vector.             *)
Shade_lost(u, S) ==
  /\ color' = [o \in Obj |-> IF o \in White2Gray(S, epoch[u]) THEN Gray(epoch[u]) ELSE color[o]]
  /\ gray' = gray

Shade(u, S) ==
  LET W == White2Gray(S, epoch[u])
  IN  /\ color' = [o \in Obj |-> IF o \in W THEN Gray(epoch[u]) ELSE color[o]]
      /\ gray' = [gray EXCEPT ![u] = @ \cup W]

Init ==
  /\ phase = "IDLE"
  /\ trigger = FALSE
  /\ sweepNeeded = FALSE
  /\ unswept = {}
  /\ mode \in Modes
  /\ listed = {Main}
  /\ elders = [p \in Proc |-> {}]
  /\ arg = [p \in Proc |-> NoArg]
  /\ lphase = [p \in Proc |-> "IDLE"]
  /\ barrier = [p \in Proc |-> "NONE"]
  /\ epoch = [u \in Unit |-> 0]
  /\ allocColor = [p \in Proc |-> White(0)]
  /\ interrupt = [p \in Proc |-> FALSE]
  /\ scavenge = [p \in Proc |-> FALSE]
  /\ pc = [u \in Unit |-> IF u \in Worker THEN "none"
                          ELSE IF u = Main THEN "run" ELSE "off"]
  /\ seen = [p \in Proc |-> "IDLE"]
  /\ todo = {}
  /\ ready = FALSE
  /\ wstatus = [w \in Worker |-> "none"]
  /\ gray = [u \in Unit \cup {Global} |-> {}]
  /\ scan = [u \in Unit |-> Null]
  /\ color = [o \in Obj |-> IF o \in StartRoot THEN White(0) ELSE Free]
  /\ field = [o \in Obj |-> Null]
  /\ roots = [p \in Proc |-> {}]
  /\ groots = StartRoot
  /\ store = [p \in Proc |-> NoStore]

-----------------------------------------------------------------------------
(* Requests.  Each sets the interrupt trigger of its target.               *)

(* chiGCTrigger, called when an allocation limit is reached.               *)
GCTrigger(p) ==
  /\ pc[p] = "run"
  /\ ~trigger
  /\ ~ListLocked
  /\ trigger' = TRUE
  /\ interrupt' = [interrupt EXCEPT ![Main] = TRUE]
  /\ UNCHANGED <<slicevars, loopvars, phase, sweepNeeded, unswept, rtvars, scavenge,
                 heapvars, workvars, epoch, pc, gray, store>>

(* Broken: no ticks while a collection is going on.                        *)
TimerTick_idle(p) ==
  /\ p \in listed
  /\ ~interrupt[p]
  /\ ~ListLocked
  /\ phase = "IDLE"
  /\ interrupt' = [interrupt EXCEPT ![p] = TRUE]
  /\ UNCHANGED <<slicevars, loopvars, cyclevars, rtvars, scavenge,
                 heapvars, workvars, epoch, pc, gray, store>>

(* The timer tick of setup.c interrupts every listed processor.            *)
TimerTick(p) ==
  /\ p \in listed
  /\ ~interrupt[p]
  /\ ~ListLocked
  /\ interrupt' = [interrupt EXCEPT ![p] = TRUE]
  /\ UNCHANGED <<slicevars, loopvars, cyclevars, rtvars, scavenge,
                 heapvars, workvars, epoch, pc, gray, store>>

(* CHI_REQUEST_SCAVENGE: the nursery of the processor is exhausted.  It    *)
(* makes a difference to the major collector only in incremental mode.     *)
ScavengeRequest(p) ==
  /\ mode = "INC"
  /\ pc[p] = "run"
  /\ ~scavenge[p]
  /\ scavenge' = [scavenge EXCEPT ![p] = TRUE]
  /\ interrupt' = [interrupt EXCEPT ![p] = TRUE]
  /\ UNCHANGED <<slicevars, loopvars, cyclevars, rtvars,
                 heapvars, workvars, epoch, pc, gray, store>>

-----------------------------------------------------------------------------
(* The mutator.                                                            *)

Load(p, o) ==
  /\ pc[p] = "run"
  /\ o \in roots[p]
  /\ field[o] # Null
  /\ field[o] \notin roots[p]
  /\ roots' = [roots EXCEPT ![p] = @ \cup {field[o]}]
  /\ UNCHANGED <<slicevars, loopvars, cyclevars, rtvars, reqvars, color, field, groots,
                 workvars, epoch, pc, gray, store>>

(* The value of a module is at hand for everybody.  The entry points       *)
(* (StartRoot) are not: the runtime reads their fields, which never change *)
(* and are not modelled, and no program holds or stores the object itself. *)
LoadRoot(p, o) ==
  /\ pc[p] = "run"
  /\ o \in groots \ (StartRoot \cup roots[p])
  /\ roots' = [roots EXCEPT ![p] = @ \cup {o}]
  /\ UNCHANGED <<slicevars, loopvars, cyclevars, rtvars, reqvars, color, field, groots,
                 workvars, epoch, pc, gray, store>>

Drop(p, o) ==
  /\ pc[p] = "run"
  /\ o \in roots[p]
  /\ roots' = [roots EXCEPT ![p] = @ \ {o}]
  /\ UNCHANGED <<slicevars, loopvars, cyclevars, rtvars, reqvars, color, field, groots,
                 workvars, epoch, pc, gray, store>>

(* A free cell becomes an object of the handle's allocation colour.        *)
Alloc(p, o, v) ==
  /\ pc[p] = "run"
  /\ color[o] = Free
  /\ color' = [color EXCEPT ![o] = allocColor[p]]
  /\ field' = [field EXCEPT ![o] = v]
  /\ roots' = [roots EXCEPT ![p] = @ \cup {o}]
  /\ UNCHANGED <<slicevars, loopvars, cyclevars, rtvars, reqvars, groots,
                 workvars, epoch, pc, gray, store>>

(* _chiFieldWriteMajor without a barrier: the old value is not even read. *)
StorePlain(p, o, v) ==
  /\ pc[p] = "run"
  /\ barrier[p] = "NONE"
  /\ o \in roots[p]
  /\ field' = [field EXCEPT ![o] = v]
  /\ UNCHANGED <<slicevars, loopvars, cyclevars, rtvars, reqvars, color, roots, groots,
                 workvars, epoch, pc, gray, store>>

(* _chiFieldWriteMajor with one: read the old value, mark, write.          *)
StoreBegin(p, o, v) ==
  /\ pc[p] = "run"
  /\ barrier[p] # "NONE"
  /\ o \in roots[p]
  /\ store' = [store EXCEPT ![p] = [obj |-> o, old |-> field[o], val |-> v]]
  /\ Goto(p, "barrier")
  /\ UNCHANGED <<slicevars, loopvars, cyclevars, rtvars, reqvars, heapvars,
                 workvars, epoch, gray>>

(* Broken: no deletion barrier, or no insertion barrier.                   *)
BarrierSet_insert(p) == {store[p].val}
BarrierSet_delete(p) == {store[p].old}

(* chiMarkBarrier: the old value always, the new one until the snapshot.   *)
BarrierSet(p) ==
  {store[p].old} \cup (IF barrier[p] = "SYNC" THEN {store[p].val} ELSE {})

MarkBarrier(p) ==
  /\ pc[p] = "barrier"
  /\ Shade(p, BarrierSet(p) \ {Null})
  /\ Goto(p, "write")
  /\ UNCHANGED <<slicevars, loopvars, cyclevars, rtvars, reqvars, field, roots, groots,
                 workvars, epoch, store>>

StoreWrite(p) ==
  /\ pc[p] = "write"
  /\ field' = [field EXCEPT ![store[p].obj] = store[p].val]
  /\ store' = [store EXCEPT ![p] = NoStore]
  /\ Goto(p, "run")
  /\ UNCHANGED <<slicevars, loopvars, cyclevars, rtvars, reqvars, color, roots, groots,
                 workvars, epoch, gray>>

(* chiGCRoot and chiGCUnroot, for the value of a module: no barrier.       *)
GCRoot(p, o) ==
  /\ pc[p] = "run"
  /\ o \in roots[p] \ groots
  /\ Cardinality(groots) < MaxRoot
  /\ groots' = groots \cup {o}
  /\ UNCHANGED <<slicevars, loopvars, cyclevars, rtvars, reqvars, color, field, roots,
                 workvars, epoch, pc, gray, store>>

GCUnroot(p, o) ==
  /\ pc[p] = "run"
  /\ o \in groots \ StartRoot
  /\ groots' = groots \ {o}
  /\ UNCHANGED <<slicevars, loopvars, cyclevars, rtvars, reqvars, color, field, roots,
                 workvars, epoch, pc, gray, store>>

Mutate(p) ==
  \/ \E o \in Obj : Load(p, o) \/ LoadRoot(p, o) \/ Drop(p, o)
                   \/ GCRoot(p, o) \/ GCUnroot(p, o)
  \/ \E o \in Obj, v \in roots[p] \cup {Null} : Alloc(p, o, v) \/ StorePlain(p, o, v) \/ StoreBegin(p, o, v)
  \/ MarkBarrier(p)
  \/ StoreWrite(p)

-----------------------------------------------------------------------------
(* Starting and stopping processors (processor.c).                         *)

(* chiProcessorTryStart: the starter captures its collector state, hands   *)
(* over a thread object and waits until the new processor has inherited.   *)
TryStart(q, p, T) ==
  /\ pc[q] = "run"
  /\ pc[p] = "off"
  /\ arg' = [arg EXCEPT ![p] = [from |-> q, phase |-> lphase[q], barrier |-> barrier[q],
                                epoch |-> epoch[q], alloc |-> allocColor[q]]]
  /\ roots' = [roots EXCEPT ![p] = T]
  /\ pc' = [pc EXCEPT ![q] = "starting", ![p] = "init"]
  /\ UNCHANGED <<slicevars, loopvars, cyclevars, mode, listed, elders, reqvars, color, field, groots,
                 workvars, epoch, gray, store>>

(* initProcessor: a zeroed processor with the first mark state is appended *)
(* to the processor list.                                                  *)
InitProcessor(p) ==
  /\ pc[p] = "init"
  /\ ~ListLocked
  /\ listed' = listed \cup {p}
  /\ elders' = [elders EXCEPT ![p] = listed]
  /\ lphase' = [lphase EXCEPT ![p] = "IDLE"]
  /\ barrier' = [barrier EXCEPT ![p] = "NONE"]
  /\ epoch' = [epoch EXCEPT ![p] = 0]
  /\ allocColor' = [allocColor EXCEPT ![p] = White(0)]
  /\ interrupt' = [interrupt EXCEPT ![p] = FALSE]
  /\ scavenge' = [scavenge EXCEPT ![p] = FALSE]
  /\ Goto(p, "inherit")
  /\ UNCHANGED <<seen, loopvars, cyclevars, mode, arg, heapvars, workvars, gray, store>>

(* Broken: the barrier is not inherited.                                   *)
Inherit_phase(p) ==
  /\ pc[p] = "inherit"
  /\ lphase' = [lphase EXCEPT ![p] = arg[p].phase]
  /\ epoch' = [epoch EXCEPT ![p] = arg[p].epoch]
  /\ allocColor' = [allocColor EXCEPT ![p] = arg[p].alloc]
  /\ pc' = [pc EXCEPT ![p] = "run", ![arg[p].from] = "run"]
  /\ arg' = [arg EXCEPT ![p] = NoArg]
  /\ UNCHANGED <<barrier, seen, loopvars, cyclevars, mode, listed, elders, reqvars, heapvars,
                 workvars, gray, store>>

(* inheritGCState, after which the starter is released.                    *)
Inherit(p) ==
  /\ pc[p] = "inherit"
  /\ lphase' = [lphase EXCEPT ![p] = arg[p].phase]
  /\ barrier' = [barrier EXCEPT ![p] = arg[p].barrier]
  /\ epoch' = [epoch EXCEPT ![p] = arg[p].epoch]
  /\ allocColor' = [allocColor EXCEPT ![p] = arg[p].alloc]
  /\ pc' = [pc EXCEPT ![p] = "run", ![arg[p].from] = "run"]
  /\ arg' = [arg EXCEPT ![p] = NoArg]
  /\ UNCHANGED <<seen, loopvars, cyclevars, mode, listed, elders, reqvars, heapvars, workvars, gray, store>>

(* chiProcessorStop *)
Stop(p) ==
  /\ p # Main
  /\ pc[p] = "run"
  /\ Goto(p, "destroy")
  /\ UNCHANGED <<slicevars, loopvars, cyclevars, rtvars, reqvars, heapvars, workvars,
                 epoch, gray, store>>

(* chiLocalGCDestroy leaves the gray objects to the others.  Nobody is     *)
(* notified.                                                               *)
LocalGCDestroy(p) ==
  /\ pc[p] = "destroy"
  /\ gray' = [gray EXCEPT ![Global] = @ \cup gray[p], ![p] = {}]
  /\ roots' = [roots EXCEPT ![p] = {}]
  /\ Goto(p, "unlist")
  /\ UNCHANGED <<slicevars, loopvars, cyclevars, rtvars, reqvars, color, field, groots, workvars,
                 epoch, store>>

(* The end of destroyProcessor.                                            *)
Unlist(p) ==
  /\ pc[p] = "unlist"
  /\ ~ListLocked
  /\ listed' = listed \ {p}
  /\ elders' = [q \in Proc |-> IF q = p THEN {} ELSE elders[q] \ {p}]
  /\ Goto(p, "off")
  /\ UNCHANGED <<slicevars, loopvars, cyclevars, mode, arg, reqvars, heapvars, workvars,
                 epoch, gray, store>>

Lifecycle(p) ==
  \/ \E q \in Proc : \E T \in {{}} \cup {{o} : o \in roots[q]} : TryStart(q, p, T)
  \/ InitProcessor(p) \/ Inherit(p)
  \/ Stop(p) \/ LocalGCDestroy(p) \/ Unlist(p)

-----------------------------------------------------------------------------
(* Broken: nobody runs chiGCControl.                                       *)
Service_slice(p) ==
  /\ pc[p] = "run"
  /\ interrupt[p]
  /\ interrupt' = [interrupt EXCEPT ![p] = FALSE]
  /\ Goto(p, "slice")
  /\ UNCHANGED <<slicevars, loopvars, cyclevars, rtvars, scavenge, heapvars, workvars,
                 epoch, gray, store>>

(* chiProcessorService, entered at a safe point when the interrupt trigger *)
(* is set.  It loops while the trigger is set again: Join returns to "run", *)
(* where the next round and the mutator are both possible, as it is when   *)
(* the trigger is set just after the loop has looked at it.                *)
Service(p) ==
  /\ pc[p] = "run"
  /\ interrupt[p]
  /\ interrupt' = [interrupt EXCEPT ![p] = FALSE]
  /\ Goto(p, IF p = Main THEN "control" ELSE "slice")
  /\ UNCHANGED <<slicevars, loopvars, cyclevars, rtvars, scavenge, heapvars, workvars,
                 epoch, gray, store>>

-----------------------------------------------------------------------------
(* chiGCControl, run by the main processor.                                *)

(* Broken: a collection does not wait for the threads that lag behind.     *)
EpochAck_assumed == TRUE

(* gcWorkerEpochAck *)
EpochAck == \A w \in Worker : wstatus[w] # "EPOCH"

(* Where chiGCControl goes from a phase, and the walk of the processor     *)
(* list it starts there.                                                   *)
Control ==
  /\ pc[Main] = "control"
  /\ Goto(Main, IF phase = "ASYNC" THEN "markProcs"
                ELSE IF phase = "IDLE" /\ ~(trigger /\ EpochAck) THEN "slice" ELSE "poll")
  /\ todo' = listed
  /\ ready' = TRUE
  /\ UNCHANGED <<slicevars, cyclevars, rtvars, reqvars, heapvars, workvars, epoch, gray, store>>

(* markDone, first part: the gray vectors of the processors, one by one.   *)
MarkDoneProc(q) ==
  /\ pc[Main] = "markProcs"
  /\ Visit(q)
  /\ todo' = todo \ {q}
  /\ Goto(Main, IF ~GrayNull(q) THEN "slice"
                ELSE IF todo = {q} THEN "markWorkers" ELSE "markProcs")
  /\ UNCHANGED <<slicevars, ready, cyclevars, rtvars, reqvars, heapvars, workvars,
                 epoch, gray, store>>

(* markDone, second part: gcWorkerGrayNull, under gc.mutex.                *)
MarkDoneWorkers ==
  /\ pc[Main] = "markWorkers"
  /\ Goto(Main, IF \A w \in Started : wstatus[w] = "WAIT" /\ GrayNull(w)
                THEN "markGlobal" ELSE "slice")
  /\ UNCHANGED <<slicevars, loopvars, cyclevars, rtvars, reqvars, heapvars, workvars,
                 epoch, gray, store>>

(* markDone, third part: the global gray vector.                           *)
MarkDoneGlobal ==
  /\ pc[Main] = "markGlobal"
  /\ Goto(Main, IF gray[Global] = {} THEN "poll" ELSE "slice")
  /\ todo' = listed
  /\ ready' = TRUE
  /\ UNCHANGED <<slicevars, cyclevars, rtvars, reqvars, heapvars, workvars, epoch, gray, store>>

(* Broken: only the last processor of the list counts.                     *)
Poll_last(q) ==
  /\ pc[Main] = "poll"
  /\ Visit(q)
  /\ todo' = todo \ {q}
  /\ ready' = (lphase[q] = phase)
  /\ interrupt' = [interrupt EXCEPT ![q] = @ \/ (lphase[q] # phase /\ q # Main)]
  /\ Goto(Main, IF todo # {q} THEN "poll" ELSE IF ready' THEN "advance" ELSE "slice")
  /\ UNCHANGED <<slicevars, cyclevars, rtvars, scavenge, heapvars, workvars,
                 epoch, gray, store>>

(* gcPoll: a processor that lags behind the phase is asked to follow.      *)
Poll(q) ==
  /\ pc[Main] = "poll"
  /\ Visit(q)
  /\ todo' = todo \ {q}
  /\ ready' = (ready /\ lphase[q] = phase)
  /\ interrupt' = [interrupt EXCEPT ![q] = @ \/ (lphase[q] # phase /\ q # Main)]
  /\ Goto(Main, IF todo # {q} THEN "poll" ELSE IF ready' THEN "advance" ELSE "slice")
  /\ UNCHANGED <<slicevars, cyclevars, rtvars, scavenge, heapvars, workvars,
                 epoch, gray, store>>

(* Where chiGCControl goes once it has left a phase.                       *)
AfterAdvance == [IDLE |-> "slice", SYNC1 |-> "slice", SYNC2 |-> "workerStart",
                 ASYNC |-> "sweepAcquire"]

(* gcGlobalPhase *)
Advance ==
  /\ pc[Main] = "advance"
  /\ phase' = Succ[phase]
  /\ Goto(Main, AfterAdvance[phase])
  /\ UNCHANGED <<slicevars, loopvars, trigger, sweepNeeded, unswept, rtvars, reqvars,
                 heapvars, workvars, epoch, gray, store>>

(* gcWorkerStart: in the first cycle the workers are created, as many as   *)
(* the system provides, with the mark state of the main processor.         *)
WorkerStart(W) ==
  /\ pc[Main] = "workerStart"
  /\ IF mode = "CONC" /\ Started = {} THEN Cardinality(W) >= MinWorker ELSE W = {}
  /\ wstatus' = [w \in Worker |-> IF w \in W THEN "WAIT" ELSE wstatus[w]]
  /\ epoch' = [u \in Unit |-> IF u \in W THEN epoch[Main] ELSE epoch[u]]
  /\ pc' = [u \in Unit |-> IF u \in W THEN "sync" ELSE IF u = Main THEN "slice" ELSE pc[u]]
  /\ UNCHANGED <<slicevars, loopvars, cyclevars, rtvars, reqvars, heapvars, scan, gray, store>>

(* The end of the mark phase: everything allocated so far has to be swept. *)
SweepAcquire ==
  /\ pc[Main] = "sweepAcquire"
  /\ unswept' = unswept \cup {o \in Obj : color[o] # Free}
  /\ sweepNeeded' = TRUE
  /\ trigger' = FALSE
  /\ wstatus' = Notified("EPOCH")
  /\ Goto(Main, "slice")
  /\ UNCHANGED <<slicevars, loopvars, phase, rtvars, reqvars, heapvars, scan, epoch,
                 gray, store>>

GCControl ==
  \/ Control
  \/ \E q \in Proc : MarkDoneProc(q) \/ Poll(q)
  \/ MarkDoneWorkers \/ MarkDoneGlobal
  \/ Advance
  \/ \E W \in SUBSET Worker : WorkerStart(W)
  \/ SweepAcquire

-----------------------------------------------------------------------------
(* chiGCSlice, run by every processor.                                     *)

(* The rest of chiGCSlice once the phase has been followed.  Only in       *)
(* incremental mode does a processor have a time slice, after scavenging.  *)
AfterPhase    == IF mode = "INC" THEN "scavenge" ELSE "join"
AfterScavenge == IF mode = "INC" THEN "inc" ELSE "join"

SliceRead(p) ==
  /\ pc[p] = "slice"
  /\ seen' = [seen EXCEPT ![p] = phase]
  /\ Goto(p, "local")
  /\ UNCHANGED <<lphase, barrier, allocColor, loopvars, cyclevars, rtvars, reqvars,
                 heapvars, workvars, epoch, gray, store>>

(* The local phase changes first; what it means for the mutator follows.   *)
SliceLocal(p) ==
  /\ pc[p] = "local"
  /\ IF seen[p] # "ASYNC" /\ lphase[p] = Pred[seen[p]]
     THEN /\ lphase' = [lphase EXCEPT ![p] = seen[p]]
          /\ Goto(p, [SYNC1 |-> "setBarrier", SYNC2 |-> AfterPhase, IDLE |-> "setEpoch"][seen[p]])
     ELSE /\ UNCHANGED lphase
          /\ Goto(p, AfterPhase)
  /\ ~(seen[p] = "ASYNC" /\ lphase[p] = "SYNC2")
  /\ UNCHANGED <<barrier, allocColor, seen, loopvars, cyclevars, rtvars, reqvars, heapvars,
                 workvars, epoch, gray, store>>

SetBarrier(p) ==
  /\ pc[p] = "setBarrier"
  /\ barrier' = [barrier EXCEPT ![p] = "SYNC"]
  /\ Goto(p, AfterPhase)
  /\ UNCHANGED <<lphase, allocColor, seen, loopvars, cyclevars, rtvars, reqvars, heapvars,
                 workvars, epoch, gray, store>>

(* markStateEpoch: what was black is white from now on.                    *)
SetEpoch(p) ==
  /\ pc[p] = "setEpoch"
  /\ barrier' = [barrier EXCEPT ![p] = "NONE"]
  /\ epoch' = [epoch EXCEPT ![p] = NextEpoch(@)]
  /\ Goto(p, AfterPhase)
  /\ UNCHANGED <<lphase, allocColor, seen, loopvars, cyclevars, rtvars, reqvars, heapvars,
                 workvars, gray, store>>

(* Broken: the global roots are forgotten.                                 *)
MarkedRoots_local(p) == roots[p]

(* markRoots: the main processor marks the global roots too.               *)
MarkedRoots(p) == roots[p] \cup (IF p = Main THEN groots ELSE {})

(* The snapshot: allocate black, mark the roots, scavenge the minor heap.  *)
Snapshot(p) ==
  /\ pc[p] = "local"
  /\ seen[p] = "ASYNC"
  /\ lphase[p] = "SYNC2"
  /\ allocColor' = [allocColor EXCEPT ![p] = Black(epoch[p])]
  /\ barrier' = [barrier EXCEPT ![p] = "ASYNC"]
  /\ Shade(p, MarkedRoots(p))
  /\ Goto(p, "snapshot")
  /\ UNCHANGED <<lphase, seen, loopvars, cyclevars, rtvars, reqvars, field, roots, groots,
                 workvars, epoch, store>>

SnapshotDone(p) ==
  /\ pc[p] = "snapshot"
  /\ lphase' = [lphase EXCEPT ![p] = "ASYNC"]
  /\ scavenge' = [scavenge EXCEPT ![p] = FALSE]
  /\ Goto(p, AfterScavenge)
  /\ UNCHANGED <<barrier, allocColor, seen, loopvars, cyclevars, rtvars, interrupt, heapvars,
                 workvars, epoch, gray, store>>

Scavenge(p) ==
  /\ pc[p] = "scavenge"
  /\ scavenge' = [scavenge EXCEPT ![p] = FALSE]
  /\ Goto(p, IF scavenge[p] THEN AfterScavenge ELSE "join")
  /\ UNCHANGED <<slicevars, loopvars, cyclevars, rtvars, interrupt, heapvars, workvars,
                 epoch, gray, store>>

(* gcIncSlice: the main processor takes over the global gray vector.       *)
IncSlice(p) ==
  /\ pc[p] = "inc"
  /\ gray' = IF p = Main THEN [gray EXCEPT ![p] = @ \cup gray[Global], ![Global] = {}]
                         ELSE gray
  /\ Goto(p, "sweep")
  /\ UNCHANGED <<slicevars, loopvars, cyclevars, rtvars, reqvars, heapvars, workvars,
                 epoch, store>>

(* What is gray goes to the global vector and wakes the workers.           *)
Join(p) ==
  /\ pc[p] = "join"
  /\ IF gray[p] # {}
     THEN /\ gray' = [gray EXCEPT ![Global] = @ \cup gray[p], ![p] = {}]
          /\ wstatus' = Notified("RUN")
     ELSE UNCHANGED <<gray, wstatus>>
  /\ Goto(p, "run")
  /\ UNCHANGED <<slicevars, loopvars, cyclevars, rtvars, reqvars, heapvars, scan,
                 epoch, store>>

GCSlice(p) ==
  \/ SliceRead(p) \/ SliceLocal(p) \/ SetBarrier(p) \/ SetEpoch(p)
  \/ Snapshot(p) \/ SnapshotDone(p) \/ Scavenge(p) \/ IncSlice(p) \/ Join(p)

-----------------------------------------------------------------------------
(* gcSlice: sweeping and marking, by a worker or in a processor's slice.   *)

(* sweepTake and segmentSweep, for a segment of one object.                *)
Sweep(u, o) ==
  /\ pc[u] = "sweep"
  /\ o \in unswept
  /\ unswept' = unswept \ {o}
  /\ color' = IF Garbage(color[o], epoch[u]) THEN [color EXCEPT ![o] = Free] ELSE color
  /\ field' = IF Garbage(color[o], epoch[u]) THEN [field EXCEPT ![o] = Null] ELSE field
  /\ UNCHANGED <<slicevars, loopvars, phase, trigger, sweepNeeded, rtvars, reqvars, roots, groots,
                 workvars, epoch, pc, gray, store>>

(* The slice of a processor may time out, which leaves no time to mark;    *)
(* that of a worker has no timeout.                                        *)
SweepDone(u) ==
  /\ pc[u] = "sweep"
  /\ unswept = {} \/ u \in Proc
  /\ sweepNeeded' = (sweepNeeded /\ unswept # {})
  /\ Goto(u, IF unswept = {} /\ phase = "ASYNC" /\ gray[u] # {} THEN "mark"
             ELSE IF u \in Worker THEN "sync" ELSE "join")
  /\ UNCHANGED <<slicevars, loopvars, phase, trigger, unswept, rtvars, reqvars, heapvars,
                 workvars, epoch, gray, store>>

(* scan: an object that is already black is not scanned again.             *)
MarkPop(u, o) ==
  /\ pc[u] = "mark"
  /\ scan[u] = Null
  /\ o \in gray[u]
  /\ gray' = [gray EXCEPT ![u] = @ \ {o}]
  /\ color' = [color EXCEPT ![o] = Black(epoch[u])]
  /\ scan' = [scan EXCEPT ![u] = IF color[o] = Black(epoch[u]) THEN Null ELSE o]
  /\ UNCHANGED <<slicevars, loopvars, cyclevars, rtvars, reqvars, field, roots, groots, wstatus,
                 epoch, pc, store>>

(* doMark of the reference the object holds by now.                        *)
MarkField(u) ==
  /\ pc[u] = "mark"
  /\ scan[u] # Null
  /\ Shade(u, {field[scan[u]]} \ {Null})
  /\ scan' = [scan EXCEPT ![u] = Null]
  /\ UNCHANGED <<slicevars, loopvars, cyclevars, rtvars, reqvars, field, roots, groots, wstatus,
                 epoch, pc, store>>

MarkDone(u) ==
  /\ pc[u] = "mark"
  /\ scan[u] = Null
  /\ gray[u] = {} \/ u \in Proc
  /\ Goto(u, IF u \in Worker THEN "sync" ELSE "join")
  /\ UNCHANGED <<slicevars, loopvars, cyclevars, rtvars, reqvars, heapvars, workvars,
                 epoch, gray, store>>

MarkSweep(u) ==
  \/ \E o \in Obj : Sweep(u, o) \/ MarkPop(u, o)
  \/ SweepDone(u) \/ MarkField(u) \/ MarkDone(u)

(* gcWorkerSync, under gc.mutex: a worker that was notified looks for a    *)
(* sweep to do, then for a block of the global gray vector.                *)
WorkerSync(w, B) ==
  /\ pc[w] = "sync"
  /\ wstatus[w] \in {"EPOCH", "RUN"}
  /\ B \subseteq gray[Global]
  /\ B = {} <=> sweepNeeded \/ gray[Global] = {}
  /\ epoch' = IF wstatus[w] = "EPOCH" THEN [epoch EXCEPT ![w] = NextEpoch(@)] ELSE epoch
  /\ gray' = [gray EXCEPT ![w] = @ \cup B, ![Global] = @ \ B]
  /\ wstatus' = [wstatus EXCEPT ![w] = IF sweepNeeded \/ B # {} THEN "RUN" ELSE "WAIT"]
  /\ Goto(w, IF sweepNeeded \/ B # {} THEN "sweep" ELSE "sync")
  /\ UNCHANGED <<slicevars, loopvars, cyclevars, rtvars, reqvars, heapvars, scan, store>>

GCWorker(w) ==
  \/ \E B \in SUBSET Obj : WorkerSync(w, B)
  \/ MarkSweep(w)

-----------------------------------------------------------------------------
Request(p) == GCTrigger(p) \/ TimerTick(p) \/ ScavengeRequest(p)

(* What a processor does on its way through the service routine.           *)
Serve(p) ==
  \/ Service(p) \/ GCSlice(p) \/ MarkSweep(p)
  \/ (p = Main /\ GCControl)

Next ==
  \/ \E p \in Proc : \/ Request(p) \/ Mutate(p) \/ Lifecycle(p)
                     \/ Serve(p)
  \/ \E w \in Worker : GCWorker(w)

Spec == Init /\ [][Next]_vars

(* Fairness.  Compiled code polls the interrupt trigger at every function  *)
(* entry, so a processor that is asked to reaches its service routine      *)
(* whatever else it does; stores and the steps of starting and stopping    *)
(* are finished, also when they wait for the list mutex; the timer ticks;  *)
(* and the operating system schedules the collector threads.               *)
Fairness ==
  /\ \A p \in Proc : /\ SF_vars(Serve(p)) /\ SF_vars(TimerTick(p))
                     /\ WF_vars(MarkBarrier(p) \/ StoreWrite(p))
                     /\ WF_vars(Inherit(p) \/ LocalGCDestroy(p))
                     /\ SF_vars(InitProcessor(p) \/ Unlist(p))
  /\ \A w \in Worker : WF_vars(GCWorker(w))

FairSpec == Spec /\ Fairness

-----------------------------------------------------------------------------
(* Properties.                                                             *)

TypeOK ==
  /\ phase \in Phase
  /\ trigger \in BOOLEAN
  /\ sweepNeeded \in BOOLEAN
  /\ unswept \subseteq Obj
  /\ mode \in Modes
  /\ listed \subseteq Proc
  /\ elders \in [Proc -> SUBSET Proc]
  /\ arg \in [Proc -> [from : Proc \cup {Null}, phase : Phase,
                       barrier : {"NONE", "SYNC", "ASYNC"}, epoch : Epoch, alloc : Color]]
  /\ lphase \in [Proc -> Phase]
  /\ barrier \in [Proc -> {"NONE", "SYNC", "ASYNC"}]
  /\ epoch \in [Unit -> Epoch]
  /\ allocColor \in [Proc -> Color]
  /\ interrupt \in [Proc -> BOOLEAN]
  /\ scavenge \in [Proc -> BOOLEAN]
  /\ pc \in [Unit -> ProcPC \cup WorkerPC]
  /\ seen \in [Proc -> Phase]
  /\ todo \subseteq Proc
  /\ ready \in BOOLEAN
  /\ wstatus \in [Worker -> {"none", "WAIT", "EPOCH", "RUN"}]
  /\ gray \in [Unit \cup {Global} -> SUBSET Obj]
  /\ scan \in [Unit -> Obj \cup {Null}]
  /\ color \in [Obj -> Color \cup {Free}]
  /\ field \in [Obj -> Obj \cup {Null}]
  /\ roots \in [Proc -> SUBSET Obj]
  /\ groots \subseteq Obj
  /\ store \in [Proc -> [obj : Obj \cup {Null}, old : Obj \cup {Null}, val : Obj \cup {Null}]]

(* A processor takes part in the handshake from inheriting to unlisting.   *)
Member == {p \in listed : pc[p] # "inherit"}

(* A processor whose mark state is settled.                                *)
Settled == {p \in Member : pc[p] \notin {"setEpoch", "setBarrier", "snapshot", "unlist"}}

(* The assertions of gcLocalTransition and of the ASYNC case of            *)
(* chiGCSlice: a processor that follows the phase it has read is in that   *)
(* phase or in the one before.                                             *)
InLockstep ==
  \A p \in Member : pc[p] = "local" => lphase[p] \in {seen[p], Pred[seen[p]]}

(* The invariant behind InLockstep, from which it is proved.               *)

(* The list holds the processors that have been initialised; the main one  *)
(* is never started or stopped.                                            *)
Listing ==
  /\ \A p \in Proc : p \in listed <=> pc[p] \notin {"off", "init"}
  /\ pc[Main] \notin {"off", "init", "inherit", "destroy", "unlist"}

(* What a starter has captured for a new processor is still its phase when *)
(* the new one inherits it, as the starter waits; it has been listed       *)
(* before the new one.                                                     *)
Handover ==
  \A p \in Proc : pc[p] \in {"init", "inherit"} =>
    /\ arg[p].from \in Proc
    /\ pc[arg[p].from] = "starting"
    /\ arg[p].phase = lphase[arg[p].from]
    /\ pc[p] = "inherit" => arg[p].from \in elders[p]
    /\ \A q \in Proc \ {p} : pc[q] \in {"init", "inherit"} => arg[q].from # arg[p].from

(* A processor is in the global phase or the one before, and one whose     *)
(* view of the global phase is out of date has followed what it has seen.  *)
Following ==
  \A p \in Member :
    /\ lphase[p] \in {phase, Pred[phase]}
    /\ pc[p] = "local" => seen[p] = phase \/ lphase[p] = seen[p]
    /\ pc[p] = "snapshot" => lphase[p] = "SYNC2" /\ phase = "ASYNC"

(* What gcPoll has established of the processors it has visited: they are  *)
(* in the global phase, and no processor is visited before its starter.    *)
Walk ==
  /\ pc[Main] = "poll" =>
       /\ ready => \A p \in Member \ todo : lphase[p] = phase
       /\ \A p \in Proc \ todo : pc[p] = "inherit" => arg[p].from \notin todo
  /\ pc[Main] = "advance" => \A p \in Member : lphase[p] = phase

LockstepInv == Listing /\ Handover /\ Following /\ Walk

(* The barrier belongs to the local phase, but for a processor that has    *)
(* published one of them and is about to change the other; a new processor *)
(* inherits a barrier its starter still has.                               *)
BarrierOf == [IDLE |-> "NONE", SYNC1 |-> "SYNC", SYNC2 |-> "SYNC", ASYNC |-> "ASYNC"]

BarrierInv ==
  /\ \A p \in Member :
       /\ pc[p] \notin {"setBarrier", "setEpoch", "snapshot"} => barrier[p] = BarrierOf[lphase[p]]
       /\ pc[p] = "setBarrier" => barrier[p] = "NONE" /\ lphase[p] = "SYNC1"
       /\ pc[p] = "setEpoch" => barrier[p] = "ASYNC" /\ lphase[p] = "IDLE"
       /\ pc[p] = "snapshot" => barrier[p] = "ASYNC" /\ lphase[p] = "SYNC2"
  /\ \A p \in Proc : pc[p] \in {"init", "inherit"} => arg[p].barrier = barrier[arg[p].from]

(* No mutator writes without a barrier while an object may be shaded or    *)
(* scanned on behalf of the cycle, and none drops the marking of new       *)
(* values before all others at least mark old ones.                        *)
NoBarrierGap ==
  \A p, q \in Settled :
    barrier[p] = "ASYNC" /\ phase # "IDLE" => barrier[q] # "NONE"

(* During a cycle all mark states have the same epoch: colours mean the    *)
(* same to every mutator and every marker.                                 *)
EpochAgreement ==
  phase # "IDLE" => \A u \in Settled \cup Started : epoch[u] = epoch[Main]

(* Objects that can be reached from a set of objects.                      *)
Closed(T) == \A o \in T : field[o] \in T \cup {Null}
ReachableFrom(S) == {o \in Obj : \A T \in SUBSET Obj : S \subseteq T /\ Closed(T) => o \in T}

Reachable == ReachableFrom(UNION {roots[p] : p \in Proc})

(* A global root is never freed ("Global list of GC roots", gc.h:17).      *)
RootsAlive == \A o \in groots : color[o] # Free

(* The collector never frees an object a mutator can still reach.          *)
NoLostObject == \A o \in Reachable : color[o] # Free

(* The weak tricolor invariant of localheap.h: during the mark phase a     *)
(* white object a live black object points to is protected by a gray one,  *)
(* from which a path of white objects leads to it.                         *)
GrayNow == (UNION {gray[u] : u \in Unit \cup {Global}}) \cup ({scan[u] : u \in Unit} \ {Null})

GrayProtected ==
  LET e == epoch[Main]
  IN  {o \in Obj : \A T \in SUBSET Obj :
         /\ \A g \in GrayNow : field[g] \in T \cup {Null}
         /\ \A x \in T : color[x] = White(e) => field[x] \in T \cup {Null}
         => o \in T}

WeakTricolor ==
  phase = "ASYNC" =>
    \A o \in Reachable : color[o] = Black(epoch[Main]) /\ field[o] # Null
                     /\ color[field[o]] = White(epoch[Main])
                   => field[o] \in GrayProtected

(* CHI_ASSERT(chiGrayVecNull(&lgc->gray)) of chiGCSlice: when a processor  *)
(* follows the end of the mark phase it has no gray object, as nothing     *)
(* that is left to be shaded can be reached.                               *)
GrayNullAtEnd == \A p \in Proc : pc[p] = "setEpoch" => gray[p] = {}

(* Gray objects of the global vector are taken over.  Once the processors  *)
(* are through with their snapshots some collector thread is awake as long *)
(* as the vector is not empty, if there are any.                           *)
GrayServed ==
  /\ phase = "ASYNC"
  /\ gray[Global] # {} /\ Started # {}
  /\ \A p \in Member : lphase[p] = "ASYNC" /\ pc[p] # "join"
  => \E w \in Started : wstatus[w] # "WAIT"

(* What chiGCControl has started goes on: a trigger leads to a handshake,  *)
(* both handshakes end, the mark phase ends and the sweep ends.            *)
TriggerServed  == trigger /\ pc[Main] # "sweepAcquire" ~> phase # "IDLE"
HandshakesEnd  == phase \in {"SYNC1", "SYNC2"} ~> phase = "ASYNC"
MarkEnds       == phase = "ASYNC" ~> phase = "IDLE"
SweepEnds      == sweepNeeded ~> ~sweepNeeded

-----------------------------------------------------------------------------
(* The handshake the collector implements: a processor acknowledges the    *)
(* global phase when it changes its local phase.                           *)
H == INSTANCE Handshake WITH
       ack    <- [p \in Proc |-> IF p \in Member THEN lphase[p] ELSE "IDLE"],
       member <- Member

ImplementsHandshake == H!Spec

=============================================================================
