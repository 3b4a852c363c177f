------------------------------ MODULE GCSafety ------------------------------
(***************************************************************************)
(* Why the collector is safe: the premises under which it is, and the      *)
(* invariants from which NoLostObject, RootsAlive, WeakTricolor,           *)
(* GrayNullAtEnd and EpochAgreement of GC follow.                          *)
(*                                                                         *)
(* EpochInv says which epoch every mark state has, or is about to take;    *)
(* HeapInv which colours occur in which phase, where the gray objects are, *)
(* and what keeps a white object from being lost.                          *)
(***************************************************************************)
EXTENDS GC

(* The mark phase does not end while there are gray objects or running     *)
(* collector threads: what markDone has seen is still so after gcPoll.     *)
CleanEnd ==
  pc[Main] = "sweepAcquire" =>
    /\ gray[Global] = {}
    /\ \A u \in Unit : GrayNull(u)
    /\ \A w \in Started : wstatus[w] = "WAIT"

(* Global roots are registered and given up before the mark phase, or when *)
(* every processor has taken its snapshot.                                 *)
SteadyRoots ==
  phase = "ASYNC" /\ groots' # groots => \A p \in Member : barrier[p] = "ASYNC"

-----------------------------------------------------------------------------
(* A processor being started has the collector state of its starter.       *)
Starting(p) == pc[p] \in {"init", "inherit"}

(* The epoch a processor has once it has followed the end of the cycle.    *)
Due(p) ==
  IF (phase = "IDLE" /\ lphase[p] = "ASYNC") \/ pc[p] = "setEpoch"
  THEN NextEpoch(epoch[p]) ELSE epoch[p]

(* The same for a collector thread, which is told by gcWorkerNotify.       *)
WorkerDue(w) ==
  IF wstatus[w] = "EPOCH" \/ pc[Main] = "sweepAcquire"
  THEN NextEpoch(epoch[w]) ELSE epoch[w]

CycleEpoch == Due(Main)

(* Only the main processor changes the phase, so its view is not stale.    *)
MainInPhase ==
  /\ pc[Main] = "local" => seen[Main] = phase
  /\ pc[Main] = "setEpoch" => phase = "IDLE"
  /\ pc[Main] = "sweepAcquire" => phase = "IDLE" /\ lphase[Main] = "ASYNC"
  /\ pc[Main] = "workerStart" => phase = "ASYNC" /\ lphase[Main] = "SYNC2"
  /\ pc[Main] \in {"markProcs", "markWorkers", "markGlobal"} => phase = "ASYNC"

(* No cycle starts before the threads have taken the epoch of the last;    *)
(* a thread that is to be notified of something is waiting for it.         *)
WorkersFollow ==
  /\ phase # "IDLE" \/ pc[Main] \in {"poll", "advance"} => EpochAck
  /\ \A w \in Worker : wstatus[w] \in {"WAIT", "EPOCH"} => pc[w] = "sync"
  /\ \A w \in Worker : wstatus[w] = "none" => pc[w] = "none"

EpochInv ==
  /\ MainInPhase
  /\ WorkersFollow
  /\ \A p \in Member : Due(p) = CycleEpoch
  /\ \A p \in Proc : Starting(p) => arg[p].epoch = epoch[arg[p].from]
  /\ \A w \in Started : WorkerDue(w) = CycleEpoch

-----------------------------------------------------------------------------
(* What a processor holds: its roots, and the registers of a field write.  *)
Holds(p) == roots[p] \cup ({store[p].obj, store[p].old, store[p].val} \ {Null})

Held == groots \cup UNION {Holds(p) : p \in Proc}

Live == ReachableFrom(Held)

(* Nothing to mark: no object, or one that is not white any more.          *)
Marked(v) == v = Null \/ color[v] # White(CycleEpoch)

(* The colours of what is alive: white between two cycles, gray objects    *)
(* from the first handshake on, black ones in the mark phase only.         *)
LiveColors ==
  {White(CycleEpoch)} \cup (IF phase = "IDLE" THEN {} ELSE {Gray(CycleEpoch)})
                      \cup (IF phase = "ASYNC" THEN {Black(CycleEpoch)} ELSE {})

ColorsInv == \A o \in Live : color[o] \in LiveColors

(* A gray object is in one gray vector, and only gray objects are; an      *)
(* object that is being scanned is black already; there is neither         *)
(* outside a cycle, nor with a processor that leaves the last one.         *)
GrayInv ==
  /\ \A u, v \in Unit \cup {Global} : u # v => gray[u] \cap gray[v] = {}
  /\ \A u \in Unit \cup {Global} : \A o \in gray[u] : color[o] = Gray(CycleEpoch)
  /\ \A o \in Obj : color[o] # Free /\ color[o].shaded => \E u \in Unit \cup {Global} : o \in gray[u]
  /\ phase = "IDLE" => \A u \in Unit \cup {Global} : gray[u] = {}
  /\ \A p \in Proc : pc[p] = "setEpoch" => gray[p] = {}
  /\ \A u \in Unit : scan[u] # Null => pc[u] = "mark" /\ color[scan[u]] = Black(CycleEpoch)
  /\ \A u \in Unit : pc[u] = "mark" => phase = "ASYNC"

(* New objects are black for a processor that has taken its snapshot.      *)
AllocInv ==
  /\ \A p \in Member :
       allocColor[p] = IF phase = "ASYNC" /\ barrier[p] = "ASYNC" THEN Black(CycleEpoch)
                       ELSE White(CycleEpoch)
  /\ \A p \in Proc : Starting(p) => arg[p].alloc = allocColor[arg[p].from]

(* A write is in progress with a barrier only, on an object the processor  *)
(* holds; behind the barrier the old value is marked, and the new one if   *)
(* the snapshot is still to come.                                          *)
StoreInv ==
  \A p \in Proc :
    /\ pc[p] \notin {"barrier", "write"} => store[p] = NoStore
    /\ pc[p] \in {"barrier", "write"} =>
         store[p].obj \in roots[p] /\ store[p].val \in roots[p] \cup {Null} /\ barrier[p] # "NONE"
    /\ pc[p] = "write" /\ phase # "IDLE" =>
         Marked(store[p].old) /\ (barrier[p] = "SYNC" => Marked(store[p].val))
    /\ pc[p] \in {"off", "unlist"} => roots[p] = {}

(* Whoever is about to overwrite the field of an object has read, and will *)
(* mark or has marked, the value it holds now.                             *)
Steady(o) == \A p \in Proc : store[p].obj = o => store[p].old = field[o]

(* Where that is not so, because another write came in between, the value  *)
(* that write has put there is marked.                                     *)
OverwriteInv ==
  phase = "SYNC2" =>
    \A p \in Proc : /\ store[p].obj # Null
                    /\ lphase[p] = "SYNC2"
                    /\ store[p].old # field[store[p].obj]
                    => Marked(field[store[p].obj])

(* Global roots the main processor will mark with its snapshot.            *)
Awaited == IF barrier[Main] = "ASYNC" \/ Proc = {Main} THEN {} ELSE groots

(* The objects the cycle keeps, whatever the mutators do: those that are   *)
(* not white, and those it will come to from a gray object, an object that *)
(* is scanned or an awaited root through white objects whose fields no     *)
(* unmarked value can be overwritten in.                                   *)
KeptClosed(T) ==
  /\ \A o \in Obj : color[o] # White(CycleEpoch) => o \in T
  /\ Awaited \subseteq T
  /\ \A o \in Obj : /\ o \in GrayNow \/ (o \in T /\ color[o] = White(CycleEpoch))
                    /\ Steady(o)
                    => field[o] \in T \cup {Null}

Kept == {o \in Obj : \A T \in SUBSET Obj : KeptClosed(T) => o \in T}

(* The processor has taken its snapshot, or its starter has.               *)
Taken(p) == IF Starting(p) THEN arg[p].barrier = "ASYNC" ELSE barrier[p] = "ASYNC"

(* Kept is what a processor holds that has taken its snapshot, what a      *)
(* scanned object refers to, and what a field holds that is about to be    *)
(* overwritten unseen.                                                     *)
KeptInv ==
  phase = "ASYNC" =>
    /\ \A p \in Proc : Taken(p) => Holds(p) \subseteq Kept
    /\ barrier[Main] = "ASYNC" => groots \subseteq Kept
    /\ \A o \in Live : color[o] = Black(CycleEpoch) /\ o \notin GrayNow => field[o] \in Kept \cup {Null}
    /\ \A o \in Obj : ~Steady(o) => field[o] \in Kept \cup {Null}

HeapInv == ColorsInv /\ GrayInv /\ AllocInv /\ StoreInv /\ OverwriteInv /\ KeptInv

-----------------------------------------------------------------------------
(* A main processor that is alone.  With the collector threads it is the   *)
(* only one that shades objects, so what markDone has seen does not change *)
(* until the phase does, and it has marked the global roots before it runs *)
(* compiled code in the mark phase.                                        *)

(* From the end of markDone to the end of the phase.                       *)
Ending == pc[Main] = "sweepAcquire" \/ (phase = "ASYNC" /\ pc[Main] \in {"poll", "advance"})

AloneInv ==
  /\ \A w \in Worker : /\ wstatus[w] = "none" => pc[w] = "none" /\ gray[w] = {}
                       /\ wstatus[w] = "WAIT" => pc[w] = "sync"
  /\ pc[Main] = "local" => seen[Main] = phase
  /\ pc[Main] \in {"markProcs", "markWorkers", "markGlobal"} => phase = "ASYNC"
  /\ phase = "ASYNC" /\ lphase[Main] # "ASYNC" => pc[Main] \in {"workerStart", "slice", "local", "snapshot"}
  /\ pc[Main] \in {"markWorkers", "markGlobal"} \/ Ending => gray[Main] = {}
  /\ pc[Main] = "markGlobal" \/ Ending => \A w \in Started : wstatus[w] = "WAIT" /\ gray[w] = {}
  /\ Ending => gray[Global] = {}

-----------------------------------------------------------------------------
(* Who wakes a collector thread.  It waits only when the global gray vector*)
(* is empty, and what is added to the vector wakes all that wait; but when *)
(* the threads are created they wait whatever the vector contains, until   *)
(* the main processor has marked its roots.                                *)

(* Before that the entry points are white: nobody else holds them.         *)
Unmarked ==
  /\ phase = "ASYNC" <=> pc[Main] = "workerStart"
  /\ phase = "ASYNC" => lphase[Main] = "SYNC2"
  /\ lphase[Main] # "ASYNC"
  /\ pc[Main] \notin {"setEpoch", "snapshot", "scavenge", "inc", "sweep", "mark", "sweepAcquire"}
  /\ StartRoot \subseteq groots /\ \A o \in StartRoot : color[o] = White(epoch[Main])
  /\ StartRoot \cap roots[Main] = {} /\ \A o \in Obj : field[o] \notin StartRoot
  /\ store[Main].old \notin StartRoot /\ store[Main].val \notin StartRoot

QuietInv == mode = "CONC" /\ Started = {} => Unmarked

(* The slice of the main processor in which it takes its first snapshot.   *)
FirstSlice ==
  /\ mode = "CONC" /\ phase = "ASYNC"
  /\ \/ /\ pc[Main] = "slice" \/ (pc[Main] = "local" /\ seen[Main] = "ASYNC")
        /\ lphase[Main] = "SYNC2"
        /\ StartRoot \subseteq groots /\ \A o \in StartRoot : color[o] = White(epoch[Main])
     \/ pc[Main] \in {"snapshot", "join"} /\ gray[Main] # {}

AwakeInv ==
  Started # {} /\ gray[Global] # {} => (\E w \in Started : wstatus[w] # "WAIT") \/ FirstSlice

=============================================================================
