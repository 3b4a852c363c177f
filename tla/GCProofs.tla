------------------------------ MODULE GCProofs ------------------------------
(***************************************************************************)
(* Theorems about GC, for any set of processors, collector threads and     *)
(* objects: the types; the phase handshake of processors that start each   *)
(* other and stop; the write barrier; the epochs of the mark states; and   *)
(* that no live object is freed.                                           *)
(***************************************************************************)
EXTENDS GCSafety, FiniteSetTheorems, TLAPS

(* markStateEpoch stays within the colour byte.                            *)
LEMMA NextEpochType ==
  ASSUME NEW e \in Epoch
  PROVE  NextEpoch(e) \in Epoch
  BY EpochModAssumption DEF Epoch, NextEpoch

(* White, gray and black of a mark state are colours.                      *)
LEMMA ColorType ==
  ASSUME NEW e \in Epoch
  PROVE  White(e) \in Color /\ Gray(e) \in Color /\ Black(e) \in Color
  BY NextEpochType DEF White, Gray, Black, Color

(* The phases follow each other in a cycle of four.                        *)
LEMMA PhaseCycle ==
  ASSUME NEW f \in Phase
  PROVE  /\ Succ[f] \in Phase /\ Pred[f] \in Phase
         /\ Pred[Succ[f]] = f /\ Succ[Pred[f]] = f
         /\ Succ[f] # f /\ Pred[f] # f /\ Succ[Succ[f]] # f /\ Pred[f] # Succ[f]
         /\ Succ["ASYNC"] = "IDLE"
  BY DEF Phase, Succ, Pred

(* Shading changes colours and gray vectors, to colours and sets of        *)
(* objects.                                                                *)
LEMMA ShadeType ==
  ASSUME TypeOK, NEW u \in Unit, NEW S \in SUBSET Obj, Shade(u, S)
  PROVE  /\ color' \in [Obj -> Color \cup {Free}]
         /\ gray' \in [Unit \cup {Global} -> SUBSET Obj]
  <1>1. Gray(epoch[u]) \in Color
    BY ColorType DEF TypeOK
  <1>2. White2Gray(S, epoch[u]) \subseteq Obj
    BY DEF White2Gray
  <1>. QED
    BY <1>1, <1>2 DEF TypeOK, Shade

(* The initial values have their types.                                    *)
LEMMA TypeInit == Init => TypeOK
  <1>. SUFFICES ASSUME Init PROVE TypeOK
    OBVIOUS
  <1>1. 0 \in Epoch
    BY EpochModAssumption DEF Epoch
  <1>. QED
    BY <1>1, ColorType, ProcAssumption, HeapAssumption
    DEF Init, TypeOK, Phase, Unit, ProcPC, WorkerPC, NoArg, NoStore

(* Requests preserve types.                                               *)
LEMMA TypeRequest ==
  ASSUME TypeOK, NEW p \in Proc, Request(p)
  PROVE  TypeOK'
  <1>1. CASE GCTrigger(p)
    BY <1>1, ProcAssumption DEF TypeOK, GCTrigger, slicevars, loopvars, cyclevars, rtvars, reqvars, heapvars, workvars
  <1>2. CASE TimerTick(p)
    BY <1>2, ProcAssumption DEF TypeOK, TimerTick, slicevars, loopvars, cyclevars, rtvars, reqvars, heapvars, workvars
  <1>3. CASE ScavengeRequest(p)
    BY <1>3, ProcAssumption DEF TypeOK, ScavengeRequest, slicevars, loopvars, cyclevars, rtvars, reqvars, heapvars, workvars
  <1>. QED
    BY <1>1, <1>2, <1>3 DEF Request

(* What mutators do preserves types.                                       *)
LEMMA TypeMutate ==
  ASSUME TypeOK, NEW p \in Proc, Mutate(p)
  PROVE  TypeOK'
  <1>1. ASSUME NEW o \in Obj, Load(p, o)
        PROVE  TypeOK'
    BY <1>1 DEF TypeOK, Load, slicevars, loopvars, cyclevars, rtvars, reqvars, heapvars, workvars
  <1>2. ASSUME NEW o \in Obj, LoadRoot(p, o)
        PROVE  TypeOK'
    BY <1>2 DEF TypeOK, LoadRoot, slicevars, loopvars, cyclevars, rtvars, reqvars, heapvars, workvars
  <1>3. ASSUME NEW o \in Obj, Drop(p, o)
        PROVE  TypeOK'
    BY <1>3 DEF TypeOK, Drop, slicevars, loopvars, cyclevars, rtvars, reqvars, heapvars, workvars
  <1>4. ASSUME NEW o \in Obj, GCRoot(p, o)
        PROVE  TypeOK'
    BY <1>4 DEF TypeOK, GCRoot, slicevars, loopvars, cyclevars, rtvars, reqvars, heapvars, workvars
  <1>5. ASSUME NEW o \in Obj, GCUnroot(p, o)
        PROVE  TypeOK'
    BY <1>5 DEF TypeOK, GCUnroot, slicevars, loopvars, cyclevars, rtvars, reqvars, heapvars, workvars
  <1>6. ASSUME NEW o \in Obj, NEW v \in roots[p] \cup {Null}, Alloc(p, o, v)
        PROVE  TypeOK'
    BY <1>6 DEF TypeOK, Alloc, Goto, ProcPC, slicevars, loopvars, cyclevars, rtvars, reqvars, heapvars, workvars
  <1>7. ASSUME NEW o \in Obj, NEW v \in roots[p] \cup {Null}, StorePlain(p, o, v)
        PROVE  TypeOK'
    BY <1>7 DEF TypeOK, StorePlain, Goto, ProcPC, slicevars, loopvars, cyclevars, rtvars, reqvars, heapvars, workvars
  <1>8. ASSUME NEW o \in Obj, NEW v \in roots[p] \cup {Null}, StoreBegin(p, o, v)
        PROVE  TypeOK'
    BY <1>8 DEF TypeOK, StoreBegin, Goto, ProcPC, slicevars, loopvars, cyclevars, rtvars, reqvars, heapvars, workvars
  <1>9. CASE MarkBarrier(p)
    <2>1. p \in Unit /\ BarrierSet(p) \ {Null} \in SUBSET Obj
      BY DEF TypeOK, BarrierSet, Unit
    <2>. QED
      BY <1>9, <2>1, ShadeType
      DEF TypeOK, MarkBarrier, Goto, ProcPC, slicevars, loopvars, cyclevars, rtvars, reqvars, heapvars, workvars
  <1>10. CASE StoreWrite(p)
    BY <1>10 DEF TypeOK, StoreWrite, NoStore, Goto, ProcPC, slicevars, loopvars, cyclevars, rtvars, reqvars, heapvars, workvars
  <1>. QED
    BY <1>1, <1>2, <1>3, <1>4, <1>5, <1>6, <1>7, <1>8, <1>9, <1>10 DEF Mutate

(* Starting and stopping preserves types.                                  *)
LEMMA TypeLifecycle ==
  ASSUME TypeOK, NEW p \in Proc, Lifecycle(p)
  PROVE  TypeOK'
  <1>1. ASSUME NEW q \in Proc, NEW T \in SUBSET roots[q], TryStart(q, p, T)
        PROVE  TypeOK'
    <2>1. arg' \in [Proc -> [from : Proc \cup {Null}, phase : Phase,
                            barrier : {"NONE", "SYNC", "ASYNC"}, epoch : Epoch, alloc : Color]]
      BY <1>1 DEF TypeOK, TryStart, Unit
    <2>2. roots' \in [Proc -> SUBSET Obj] /\ pc' \in [Unit -> ProcPC \cup WorkerPC]
      BY <1>1 DEF TypeOK, TryStart, ProcPC
    <2>. QED
      BY <1>1, <2>1, <2>2
      DEF TypeOK, TryStart, slicevars, loopvars, reqvars, heapvars, workvars, cyclevars
  <1>2. CASE InitProcessor(p)
    <2>1. 0 \in Epoch
      BY EpochModAssumption DEF Epoch
    <2>. QED
      BY <1>2, <2>1, ColorType
      DEF TypeOK, InitProcessor, Goto, ProcPC, Phase, Unit, slicevars,
          loopvars, cyclevars, rtvars, reqvars, heapvars, workvars
  <1>3. CASE Inherit(p)
    <2>1. 0 \in Epoch
      BY EpochModAssumption DEF Epoch
    <2>. QED
      BY <1>3, <2>1, ColorType
      DEF TypeOK, Inherit, ProcPC, Unit, NoArg, Phase, slicevars, loopvars,
          cyclevars, rtvars, reqvars, heapvars, workvars
  <1>4. CASE Stop(p)
    BY <1>4
    DEF TypeOK, Stop, Goto, ProcPC, slicevars, loopvars, cyclevars, rtvars,
        reqvars, heapvars, workvars
  <1>5. CASE LocalGCDestroy(p)
    BY <1>5, UnitAssumption
    DEF TypeOK, LocalGCDestroy, Goto, ProcPC, Unit, slicevars, loopvars,
        cyclevars, rtvars, reqvars, heapvars, workvars
  <1>6. CASE Unlist(p)
    BY <1>6
    DEF TypeOK, Unlist, Goto, ProcPC, slicevars, loopvars, cyclevars, rtvars,
        reqvars, heapvars, workvars
  <1>. QED
    BY <1>1, <1>2, <1>3, <1>4, <1>5, <1>6 DEF Lifecycle

(* chiGCControl preserves types.                                           *)
LEMMA TypeControl ==
  ASSUME TypeOK, GCControl
  PROVE  TypeOK'
  <1>1. CASE Control
    BY <1>1
    DEF TypeOK, Control, Goto, ProcPC, slicevars, loopvars, cyclevars,
        rtvars, reqvars, heapvars, workvars
  <1>2. ASSUME NEW q \in Proc, MarkDoneProc(q)
        PROVE  TypeOK'
    BY <1>2
    DEF TypeOK, MarkDoneProc, Goto, ProcPC, slicevars, loopvars, cyclevars,
        rtvars, reqvars, heapvars, workvars
  <1>3. ASSUME NEW q \in Proc, Poll(q)
        PROVE  TypeOK'
    BY <1>3
    DEF TypeOK, Poll, Goto, ProcPC, slicevars, loopvars, cyclevars, rtvars,
        reqvars, heapvars, workvars
  <1>4. CASE MarkDoneWorkers
    BY <1>4
    DEF TypeOK, MarkDoneWorkers, Goto, ProcPC, slicevars, loopvars,
        cyclevars, rtvars, reqvars, heapvars, workvars
  <1>5. CASE MarkDoneGlobal
    BY <1>5
    DEF TypeOK, MarkDoneGlobal, Goto, ProcPC, slicevars, loopvars, cyclevars,
        rtvars, reqvars, heapvars, workvars
  <1>6. CASE Advance
    <2>1. phase' \in Phase
      BY <1>6, PhaseCycle DEF TypeOK, Advance
    <2>2. AfterAdvance[phase] \in ProcPC
      BY DEF TypeOK, Phase, AfterAdvance, ProcPC
    <2>3. pc' \in [Unit -> ProcPC \cup WorkerPC]
      BY <1>6, <2>2 DEF TypeOK, Advance, Goto
    <2>. QED
      BY <1>6, <2>1, <2>3
      DEF TypeOK, Advance, slicevars, loopvars, rtvars, reqvars, heapvars, workvars
  <1>7. ASSUME NEW W \in SUBSET Worker, WorkerStart(W)
        PROVE  TypeOK'
    BY <1>7, ProcAssumption
    DEF TypeOK, WorkerStart, ProcPC, WorkerPC, Unit, slicevars, loopvars,
        cyclevars, rtvars, reqvars, heapvars, workvars
  <1>8. CASE SweepAcquire
    BY <1>8
    DEF TypeOK, SweepAcquire, Goto, ProcPC, Notified, slicevars, loopvars,
        cyclevars, rtvars, reqvars, heapvars, workvars
  <1>. QED
    BY <1>1, <1>2, <1>3, <1>4, <1>5, <1>6, <1>7, <1>8 DEF GCControl

(* chiGCSlice preserves types.                                             *)
LEMMA TypeSlice ==
  ASSUME TypeOK, NEW p \in Proc, GCSlice(p)
  PROVE  TypeOK'
  <1>1. CASE SliceRead(p)
    BY <1>1
    DEF TypeOK, SliceRead, Goto, ProcPC, slicevars, loopvars, cyclevars,
        rtvars, reqvars, heapvars, workvars
  <1>2. CASE SliceLocal(p)
    <2>1. lphase' \in [Proc -> Phase]
      <3>1. lphase' \in {lphase, [lphase EXCEPT ![p] = seen[p]]}
        BY <1>2 DEF SliceLocal
      <3>. QED
        BY <3>1 DEF TypeOK
    <2>2. seen[p] \in {"IDLE", "SYNC1", "SYNC2", "ASYNC"}
      BY DEF TypeOK, Phase
    <2>3. pc' \in [Unit -> ProcPC \cup WorkerPC]
      BY <1>2, <2>2 DEF TypeOK, SliceLocal, Goto, ProcPC, AfterPhase
    <2>. QED
      BY <1>2, <2>1, <2>3
      DEF TypeOK, SliceLocal, loopvars, cyclevars, rtvars, reqvars, heapvars, workvars
  <1>3. CASE SetBarrier(p)
    BY <1>3
    DEF TypeOK, SetBarrier, Goto, ProcPC, AfterPhase, slicevars, loopvars,
        cyclevars, rtvars, reqvars, heapvars, workvars
  <1>4. CASE SetEpoch(p)
    BY <1>4, NextEpochType
    DEF TypeOK, SetEpoch, Goto, ProcPC, AfterPhase, Unit, slicevars,
        loopvars, cyclevars, rtvars, reqvars, heapvars, workvars
  <1>5. CASE Snapshot(p)
    <2>1. p \in Unit /\ MarkedRoots(p) \in SUBSET Obj
      BY DEF TypeOK, MarkedRoots, Unit
    <2>2. color' \in [Obj -> Color \cup {Free}] /\ gray' \in [Unit \cup {Global} -> SUBSET Obj]
      BY <1>5, <2>1, ShadeType DEF Snapshot
    <2>3. Black(epoch[p]) \in Color
      BY <2>1, ColorType DEF TypeOK
    <2>. QED
      BY <1>5, <2>1, <2>2, <2>3, ShadeType, ColorType
      DEF TypeOK, Snapshot, Goto, ProcPC, slicevars, loopvars, cyclevars,
          rtvars, reqvars, heapvars, workvars
  <1>6. CASE SnapshotDone(p)
    BY <1>6
    DEF TypeOK, SnapshotDone, Goto, ProcPC, AfterScavenge, Phase, slicevars,
        loopvars, cyclevars, rtvars, reqvars, heapvars, workvars
  <1>7. CASE Scavenge(p)
    BY <1>7
    DEF TypeOK, Scavenge, Goto, ProcPC, AfterScavenge, slicevars, loopvars,
        cyclevars, rtvars, reqvars, heapvars, workvars
  <1>8. CASE IncSlice(p)
    BY <1>8
    DEF TypeOK, IncSlice, Goto, ProcPC, Unit, slicevars, loopvars, cyclevars,
        rtvars, reqvars, heapvars, workvars
  <1>9. CASE Join(p)
    <2>1. gray' \in [Unit \cup {Global} -> SUBSET Obj]
      <3>1. CASE gray[p] = {}
        BY <1>9, <3>1 DEF TypeOK, Join
      <3>2. CASE gray[p] # {}
        <4>1. gray' = [gray EXCEPT ![Global] = @ \cup gray[p], ![p] = {}]
          BY <1>9, <3>2 DEF Join
        <4>. QED
          BY <4>1 DEF TypeOK, Unit
      <3>. QED
        BY <3>1, <3>2
    <2>2. wstatus' \in [Worker -> {"none", "WAIT", "EPOCH", "RUN"}]
      BY <1>9 DEF TypeOK, Join, Notified
    <2>3. pc' \in [Unit -> ProcPC \cup WorkerPC]
      BY <1>9 DEF TypeOK, Join, Goto, ProcPC
    <2>. QED
      BY <1>9, <2>1, <2>2, <2>3
      DEF TypeOK, Join, slicevars, loopvars, cyclevars, rtvars, reqvars, heapvars
  <1>. QED
    BY <1>1, <1>2, <1>3, <1>4, <1>5, <1>6, <1>7, <1>8, <1>9 DEF GCSlice

(* Marking and sweeping preserve types.                                    *)
LEMMA TypeMarkSweep ==
  ASSUME TypeOK, NEW u \in Unit, MarkSweep(u)
  PROVE  TypeOK'
  <1>1. ASSUME NEW o \in Obj, Sweep(u, o)
        PROVE  TypeOK'
    BY <1>1
    DEF TypeOK, Sweep, slicevars, loopvars, cyclevars, rtvars, reqvars,
        heapvars, workvars
  <1>2. CASE SweepDone(u)
    BY <1>2
    DEF TypeOK, SweepDone, Goto, ProcPC, WorkerPC, slicevars, loopvars,
        cyclevars, rtvars, reqvars, heapvars, workvars
  <1>3. ASSUME NEW o \in Obj, MarkPop(u, o)
        PROVE  TypeOK'
    <2>1. Black(epoch[u]) \in Color
      BY ColorType DEF TypeOK
    <2>. QED
      BY <1>3, <2>1
      DEF TypeOK, MarkPop, slicevars, loopvars, cyclevars, rtvars, reqvars,
          heapvars, workvars
  <1>4. CASE MarkField(u)
    <2>1. {field[scan[u]]} \ {Null} \in SUBSET Obj
      BY <1>4 DEF TypeOK, MarkField
    <2>2. color' \in [Obj -> Color \cup {Free}] /\ gray' \in [Unit \cup {Global} -> SUBSET Obj]
      BY <1>4, <2>1, ShadeType DEF MarkField
    <2>. QED
      BY <1>4, <2>1, <2>2
      DEF TypeOK, MarkField, slicevars, loopvars, cyclevars, rtvars, reqvars,
          heapvars, workvars
  <1>5. CASE MarkDone(u)
    BY <1>5
    DEF TypeOK, MarkDone, Goto, ProcPC, WorkerPC, slicevars, loopvars,
        cyclevars, rtvars, reqvars, heapvars, workvars
  <1>. QED
    BY <1>1, <1>2, <1>3, <1>4, <1>5 DEF MarkSweep

(* gcWorkerSync preserves types.                                           *)
LEMMA TypeWorkerSync ==
  ASSUME TypeOK, NEW w \in Worker, NEW B \in SUBSET Obj, WorkerSync(w, B)
  PROVE  TypeOK'
  <1>1. NextEpoch(epoch[w]) \in Epoch
    BY NextEpochType DEF TypeOK, Unit
  <1>. QED
    BY <1>1 DEF TypeOK, WorkerSync, Goto, WorkerPC, slicevars, loopvars, cyclevars,
                rtvars, reqvars, heapvars, workvars

(* Every step preserves types.                                             *)
LEMMA TypeNext == TypeOK /\ [Next]_vars => TypeOK'
  <1>. SUFFICES ASSUME TypeOK, [Next]_vars PROVE TypeOK'
    OBVIOUS
  <1>1. ASSUME NEW p \in Proc, Request(p) \/ Mutate(p) \/ Lifecycle(p)
        PROVE  TypeOK'
    BY <1>1, TypeRequest, TypeMutate, TypeLifecycle
  <1>2. ASSUME NEW p \in Proc, Serve(p)
        PROVE  TypeOK'
    <2>1. CASE Service(p)
      BY <2>1 DEF TypeOK, Service, Goto, ProcPC, slicevars, loopvars, cyclevars, rtvars,
                  reqvars, heapvars, workvars
    <2>2. CASE MarkSweep(p)
      BY <2>2, TypeMarkSweep DEF Unit
    <2>. QED
      BY <1>2, <2>1, <2>2, TypeSlice, TypeControl DEF Serve
  <1>3. ASSUME NEW w \in Worker, GCWorker(w)
        PROVE  TypeOK'
    BY <1>3, TypeWorkerSync, TypeMarkSweep DEF GCWorker, Unit
  <1>4. CASE UNCHANGED vars
    BY <1>4 DEF TypeOK, vars, slicevars, loopvars, cyclevars, rtvars, reqvars, heapvars, workvars
  <1>. QED
    BY <1>1, <1>2, <1>3, <1>4 DEF Next

(* Type correctness: every variable keeps its type, whatever the number of *)
(* processors, collector threads and objects; in particular an epoch never *)
(* leaves the range a colour byte can hold.                                *)
THEOREM TypeCorrect == Spec => []TypeOK
  BY TypeInit, TypeNext, PTL DEF Spec

-----------------------------------------------------------------------------
(***************************************************************************)
(* The handshake.  LockstepInv is inductive (together with TypeOK), it     *)
(* implies InLockstep, and with it every step of GC is a step or a stutter *)
(* of Handshake.  On it rests that no mutator lacks a write barrier:       *)
(* BarrierInv is inductive together with TypeOK and LockstepInv.           *)
(***************************************************************************)

(* Steps that are none of the handshake's business: processors change      *)
(* their place in the code, but not into, nor out of, one that LockstepInv *)
(* is about.                                                               *)
Outside == {"off", "init", "inherit"}

QuietPC(p) ==
  \/ pc'[p] = pc[p]
  \/ /\ pc[p] \notin Outside \cup {"starting"}
     /\ pc'[p] \notin Outside \cup {"local", "snapshot", "poll", "advance"}
     /\ p = Main => pc'[p] \notin {"destroy", "unlist"}

Quiet ==
  /\ UNCHANGED <<phase, listed, elders, arg, lphase, seen>>
  /\ \A p \in Proc : QuietPC(p)
  /\ pc'[Main] = "poll" => UNCHANGED <<todo, ready>>

(* Quiet steps preserve the invariant.                                     *)
LEMMA QuietKeeps ==
  ASSUME TypeOK, LockstepInv, Quiet
  PROVE  LockstepInv'
  <1>1. Listing'
    BY ProcAssumption DEF LockstepInv, Listing, Quiet, QuietPC, Outside
  <1>2. Handover'
    BY DEF LockstepInv, Handover, Quiet, QuietPC, Outside
  <1>3. Member' = Member
    BY DEF TypeOK, Quiet, QuietPC, Outside, Member
  <1>4. Following'
    <2>. SUFFICES ASSUME NEW p \in Member
                  PROVE  /\ lphase[p] \in {phase, Pred[phase]}
                         /\ pc'[p] = "local" => seen[p] = phase \/ lphase[p] = seen[p]
                         /\ pc'[p] = "snapshot" => lphase[p] = "SYNC2" /\ phase = "ASYNC"
      BY <1>3 DEF Following, Quiet
    <2>1. p \in Proc
      BY DEF Member, TypeOK
    <2>. QED
      BY <2>1 DEF LockstepInv, Following, Quiet, QuietPC
  <1>5. Walk'
    BY <1>3, ProcAssumption DEF LockstepInv, Walk, Quiet, QuietPC, Outside
  <1>. QED
    BY <1>1, <1>2, <1>4, <1>5 DEF LockstepInv

(* A step that leaves the places of all processors alone, or moves one     *)
(* between places the invariant does not care for, is quiet.               *)
LEMMA QuietMove ==
  ASSUME TypeOK, NEW p \in Proc, NEW l,
         UNCHANGED <<phase, listed, elders, arg, lphase, seen>>,
         pc' = pc \/ (pc[p] \notin Outside \cup {"starting"} /\ Goto(p, l)),
         l \notin Outside \cup {"local", "snapshot", "poll", "advance"},
         p = Main => l \notin {"destroy", "unlist"},
         pc'[Main] = "poll" => UNCHANGED <<todo, ready>>
  PROVE  Quiet
  BY DEF TypeOK, Quiet, QuietPC, Goto, Unit

(* Requests and what mutators do.                                          *)
LEMMA QuietMutate ==
  ASSUME TypeOK, NEW p \in Proc, Request(p) \/ Mutate(p)
  PROVE  Quiet
  <1>1. CASE Request(p)
    BY <1>1, QuietMove
    DEF Request, GCTrigger, TimerTick, ScavengeRequest, Quiet, QuietPC,
        slicevars, loopvars, cyclevars, rtvars
  <1>2. ASSUME NEW o \in Obj,
               Load(p, o) \/ LoadRoot(p, o) \/ Drop(p, o) \/ GCRoot(p, o) \/ GCUnroot(p, o)
        PROVE  Quiet
    BY <1>2 DEF Load, LoadRoot, Drop, GCRoot, GCUnroot, Quiet, QuietPC,
                slicevars, loopvars, cyclevars, rtvars
  <1>3. ASSUME NEW o \in Obj, NEW v \in roots[p] \cup {Null}, Alloc(p, o, v) \/ StorePlain(p, o, v)
        PROVE  Quiet
    BY <1>3 DEF Alloc, StorePlain, Quiet, QuietPC, slicevars, loopvars, cyclevars, rtvars
  <1>4. ASSUME NEW o \in Obj, NEW v \in roots[p] \cup {Null}, StoreBegin(p, o, v)
        PROVE  Quiet
    BY <1>4, QuietMove
    DEF StoreBegin, Outside, slicevars, loopvars, cyclevars, rtvars
  <1>5. CASE MarkBarrier(p)
    BY <1>5, QuietMove
    DEF MarkBarrier, Outside, slicevars, loopvars, cyclevars, rtvars
  <1>6. CASE StoreWrite(p)
    BY <1>6, QuietMove
    DEF StoreWrite, Outside, slicevars, loopvars, cyclevars, rtvars
  <1>. QED
    BY <1>1, <1>2, <1>3, <1>4, <1>5, <1>6 DEF Mutate

(* Marking and sweeping, by a processor or a collector thread.             *)
LEMMA QuietMarkSweep ==
  ASSUME TypeOK, NEW u \in Unit, MarkSweep(u)
  PROVE  Quiet
  <1>1. ASSUME NEW o \in Obj, Sweep(u, o) \/ MarkPop(u, o)
        PROVE  Quiet
    BY <1>1 DEF Sweep, MarkPop, Quiet, QuietPC, slicevars, loopvars, cyclevars, rtvars
  <1>2. CASE MarkField(u)
    BY <1>2 DEF MarkField, Quiet, QuietPC, slicevars, loopvars, cyclevars, rtvars
  <1>3. CASE SweepDone(u)
    BY <1>3, UnitAssumption
    DEF TypeOK, SweepDone, Goto, Quiet, QuietPC, Outside, Unit, slicevars, loopvars,
        rtvars
  <1>4. CASE MarkDone(u)
    BY <1>4, UnitAssumption
    DEF TypeOK, MarkDone, Goto, Quiet, QuietPC, Outside, Unit, slicevars, loopvars,
        cyclevars, rtvars
  <1>. QED
    BY <1>1, <1>2, <1>3, <1>4 DEF MarkSweep

(* Collector threads.                                                      *)
LEMMA QuietWorker ==
  ASSUME TypeOK, NEW w \in Worker, GCWorker(w)
  PROVE  Quiet
  <1>1. ASSUME NEW B \in SUBSET Obj, WorkerSync(w, B)
        PROVE  Quiet
    BY <1>1, UnitAssumption, ProcAssumption
    DEF TypeOK, WorkerSync, Goto, Quiet, QuietPC, slicevars, loopvars, cyclevars, rtvars
  <1>. QED
    BY <1>1, QuietMarkSweep DEF GCWorker, Unit

(* The parts of the service routine in which no phase changes.             *)
LEMMA QuietSlice ==
  ASSUME TypeOK, NEW p \in Proc,
         \/ Service(p) \/ SetBarrier(p) \/ SetEpoch(p) \/ Scavenge(p) \/ IncSlice(p) \/ Join(p)
  PROVE  Quiet
  <1>1. CASE Service(p)
    BY <1>1, QuietMove DEF Service, Outside, slicevars, loopvars, cyclevars, rtvars
  <1>2. CASE SetBarrier(p)
    BY <1>2, QuietMove DEF SetBarrier, AfterPhase, Outside, loopvars, cyclevars, rtvars
  <1>3. CASE SetEpoch(p)
    BY <1>3, QuietMove DEF SetEpoch, AfterPhase, Outside, loopvars, cyclevars, rtvars
  <1>4. CASE Scavenge(p)
    BY <1>4, QuietMove
    DEF Scavenge, AfterScavenge, Outside, slicevars, loopvars, cyclevars, rtvars
  <1>5. CASE IncSlice(p)
    BY <1>5, QuietMove DEF IncSlice, Outside, slicevars, loopvars, cyclevars, rtvars
  <1>6. CASE Join(p)
    BY <1>6, QuietMove DEF Join, Outside, slicevars, loopvars, cyclevars, rtvars
  <1>. QED
    BY <1>1, <1>2, <1>3, <1>4, <1>5, <1>6

(* The parts of chiGCControl between its walks of the processor list.      *)
LEMMA QuietControl ==
  ASSUME TypeOK, MarkDoneWorkers \/ SweepAcquire
                 \/ (\E q \in Proc : MarkDoneProc(q)) \/ (\E W \in SUBSET Worker : WorkerStart(W))
  PROVE  Quiet
  <1>1. CASE MarkDoneWorkers
    BY <1>1, QuietMove, ProcAssumption
    DEF MarkDoneWorkers, Outside, slicevars, loopvars, cyclevars, rtvars
  <1>2. CASE SweepAcquire
    BY <1>2, QuietMove, ProcAssumption
    DEF SweepAcquire, Outside, slicevars, loopvars, rtvars
  <1>3. ASSUME NEW q \in Proc, MarkDoneProc(q)
        PROVE  Quiet
    BY <1>3, ProcAssumption
    DEF TypeOK, MarkDoneProc, Goto, Quiet, QuietPC, Outside, Unit, slicevars, cyclevars, rtvars
  <1>4. ASSUME NEW W \in SUBSET Worker, WorkerStart(W)
        PROVE  Quiet
    BY <1>4, ProcAssumption, UnitAssumption
    DEF TypeOK, WorkerStart, Quiet, QuietPC, Outside, Unit, slicevars, loopvars,
        cyclevars, rtvars
  <1>. QED
    BY <1>1, <1>2, <1>3, <1>4

(* Stopping, until the processor leaves the list.                          *)
LEMMA QuietStop ==
  ASSUME TypeOK, LockstepInv, NEW p \in Proc, Stop(p) \/ LocalGCDestroy(p)
  PROVE  Quiet
  <1>1. CASE Stop(p)
    BY <1>1, QuietMove DEF Stop, Outside, slicevars, loopvars, cyclevars, rtvars
  <1>2. CASE LocalGCDestroy(p)
    <2>1. p # Main
      BY <1>2 DEF LocalGCDestroy, LockstepInv, Listing
    <2>. QED
      BY <1>2, <2>1, QuietMove DEF LocalGCDestroy, Outside, slicevars, loopvars, cyclevars, rtvars
  <1>. QED
    BY <1>1, <1>2

(* In the beginning there is the main processor, in the idle phase.        *)
LEMMA LockstepInit == Init => LockstepInv
  BY ProcAssumption, UnitAssumption
  DEF Init, LockstepInv, Listing, Handover, Following, Walk, Member, Unit

(* chiProcessorTryStart: a starter has just one processor to wait for, as  *)
(* it was running before.                                                  *)
LEMMA StepTryStart ==
  ASSUME TypeOK, LockstepInv, NEW q \in Proc, NEW p \in Proc, NEW T, TryStart(q, p, T)
  PROVE  LockstepInv'
  <1>1. /\ pc' = [pc EXCEPT ![q] = "starting", ![p] = "init"]
        /\ pc[q] = "run" /\ pc[p] = "off" /\ p # q /\ p # Main
        /\ UNCHANGED <<phase, listed, elders, lphase, seen, todo, ready>>
    BY DEF TryStart, LockstepInv, Listing, slicevars, loopvars, cyclevars
  <1>2. /\ arg'[p].from = q /\ arg'[p].phase = lphase[q]
        /\ \A x \in Proc \ {p} : arg'[x] = arg[x]
    BY DEF TryStart, TypeOK
  <1>3. /\ pc'[q] = "starting" /\ pc'[p] = "init"
        /\ \A x \in Proc \ {p, q} : pc'[x] = pc[x]
    BY <1>1 DEF TypeOK, Unit
  <1>4. Member' = Member
    BY <1>1, <1>3 DEF Member, TypeOK
  <1>5. Listing'
    BY <1>1, <1>3, ProcAssumption DEF LockstepInv, Listing
  <1>6. Handover'
    <2>. SUFFICES ASSUME NEW x \in Proc, pc'[x] \in {"init", "inherit"}
                  PROVE  /\ arg'[x].from \in Proc
                         /\ pc'[arg'[x].from] = "starting"
                         /\ arg'[x].phase = lphase[arg'[x].from]
                         /\ pc'[x] = "inherit" => arg'[x].from \in elders[x]
                         /\ \A y \in Proc \ {x} :
                              pc'[y] \in {"init", "inherit"} => arg'[y].from # arg'[x].from
      BY <1>1 DEF Handover
    <2>1. ASSUME NEW y \in Proc \ {p}, pc'[y] \in {"init", "inherit"}
          PROVE  /\ pc[y] = pc'[y] /\ arg'[y] = arg[y]
                 /\ arg[y].from \in Proc \ {p, q}
      <3>1. pc[y] = pc'[y] /\ arg'[y] = arg[y]
        BY <1>2, <1>3, <2>1
      <3>. QED
        BY <1>1, <2>1, <3>1 DEF LockstepInv, Handover
    <2>2. CASE x = p
      <3>1. arg'[x].from = q /\ arg'[x].phase = lphase[q] /\ pc'[x] = "init" /\ pc'[q] = "starting"
        BY <1>2, <1>3, <2>2
      <3>2. \A y \in Proc \ {x} : pc'[y] \in {"init", "inherit"} => arg'[y].from # q
        BY <2>1, <2>2
      <3>3. arg'[x].from \in Proc /\ pc'[arg'[x].from] = "starting"
        BY <3>1
      <3>4. arg'[x].phase = lphase[arg'[x].from]
        BY <3>1
      <3>5. pc'[x] = "inherit" => arg'[x].from \in elders[x]
        BY <3>1
      <3>6. \A y \in Proc \ {x} : pc'[y] \in {"init", "inherit"} => arg'[y].from # arg'[x].from
        BY <3>1, <3>2
      <3>. QED
        BY <3>3, <3>4, <3>5, <3>6
    <2>3. CASE x # p
      <3>1. pc[x] = pc'[x] /\ arg'[x] = arg[x] /\ arg[x].from \in Proc \ {p, q}
        BY <2>1, <2>3
      <3>2. /\ pc[arg[x].from] = "starting" /\ arg[x].phase = lphase[arg[x].from]
            /\ pc[x] = "inherit" => arg[x].from \in elders[x]
            /\ \A y \in Proc \ {x} : pc[y] \in {"init", "inherit"} => arg[y].from # arg[x].from
        BY <3>1 DEF LockstepInv, Handover
      <3>3. pc'[arg[x].from] = "starting"
        BY <1>3, <3>1, <3>2
      <3>4. ASSUME NEW y \in Proc \ {x}, pc'[y] \in {"init", "inherit"}
            PROVE  arg'[y].from # arg'[x].from
        <4>1. CASE y = p
          BY <1>2, <3>1, <4>1
        <4>2. CASE y # p
          BY <2>1, <3>1, <3>2, <3>4, <4>2
        <4>. QED
          BY <4>1, <4>2
      <3>. QED
        BY <3>1, <3>2, <3>3, <3>4
    <2>. QED
      BY <2>2, <2>3
  <1>7. Following'
    <2>. SUFFICES ASSUME NEW x \in Member
                  PROVE  /\ lphase[x] \in {phase, Pred[phase]}
                         /\ pc'[x] = "local" => seen[x] = phase \/ lphase[x] = seen[x]
                         /\ pc'[x] = "snapshot" => lphase[x] = "SYNC2" /\ phase = "ASYNC"
      BY <1>1, <1>4 DEF Following
    <2>1. x \in Proc
      BY DEF Member, TypeOK
    <2>. QED
      BY <2>1, <1>3 DEF LockstepInv, Following
  <1>8. Walk'
    BY <1>1, <1>2, <1>3, <1>4, ProcAssumption DEF LockstepInv, Walk
  <1>. QED
    BY <1>5, <1>6, <1>7, <1>8 DEF LockstepInv

(* initProcessor: the starter, which waits, is in the list already.        *)
LEMMA StepInit ==
  ASSUME TypeOK, LockstepInv, NEW p \in Proc, InitProcessor(p)
  PROVE  LockstepInv' /\ Member' = Member /\ UNCHANGED phase
                      /\ \A x \in Member : lphase'[x] = lphase[x]
  <1>1. /\ pc[p] = "init" /\ pc[Main] # "poll"
        /\ p # Main
        /\ listed' = listed \cup {p}
        /\ UNCHANGED <<phase, arg, seen, todo, ready>>
    BY DEF InitProcessor, ListLocked, LockstepInv, Listing, loopvars, cyclevars
  <1>2. /\ pc'[p] = "inherit" /\ elders'[p] = listed
        /\ \A x \in Proc \ {p} : pc'[x] = pc[x] /\ lphase'[x] = lphase[x] /\ elders'[x] = elders[x]
    BY DEF InitProcessor, Goto, TypeOK, Unit
  <1>3. Member' = Member /\ p \notin Member
    BY <1>1, <1>2 DEF Member, TypeOK, LockstepInv, Listing
  <1>4. Listing'
    BY <1>1, <1>2, ProcAssumption DEF LockstepInv, Listing
  <1>5. Handover'
    <2>. SUFFICES ASSUME NEW x \in Proc, pc'[x] \in {"init", "inherit"}
                  PROVE  /\ arg[x].from \in Proc
                         /\ pc'[arg[x].from] = "starting"
                         /\ arg[x].phase = lphase'[arg[x].from]
                         /\ pc'[x] = "inherit" => arg[x].from \in elders'[x]
                         /\ \A y \in Proc \ {x} :
                              pc'[y] \in {"init", "inherit"} => arg[y].from # arg[x].from
      BY <1>1 DEF Handover
    <2>1. pc[x] \in {"init", "inherit"}
      BY <1>1, <1>2
    <2>2. arg[x].from \in Proc /\ pc[arg[x].from] = "starting" /\ arg[x].from # p
      BY <2>1, <1>1 DEF LockstepInv, Handover
    <2>3. arg[x].from \in listed
      BY <2>2 DEF LockstepInv, Listing
    <2>. QED
      BY <1>1, <1>2, <2>1, <2>2, <2>3 DEF LockstepInv, Handover
  <1>6. \A x \in Member : x \in Proc \ {p} /\ pc'[x] = pc[x] /\ lphase'[x] = lphase[x]
    <2>1. Member \subseteq Proc \ {p}
      BY <1>3 DEF Member, TypeOK
    <2>. QED
      BY <2>1, <1>2
  <1>7. Following'
    BY <1>1, <1>3, <1>6 DEF LockstepInv, Following
  <1>8. Walk'
    BY <1>1, <1>2, <1>3, ProcAssumption DEF LockstepInv, Walk, Member, TypeOK
  <1>. QED
    BY <1>1, <1>3, <1>4, <1>5, <1>6, <1>7, <1>8 DEF LockstepInv

(* inheritGCState: the starter is still in the phase it has handed over.   *)
LEMMA StepInherit ==
  ASSUME TypeOK, LockstepInv, NEW p \in Proc, Inherit(p)
  PROVE  /\ LockstepInv'
         /\ Member' = Member \cup {p} /\ p \notin Member
         /\ arg[p].from \in Member
         /\ lphase' = [lphase EXCEPT ![p] = lphase[arg[p].from]]
         /\ UNCHANGED phase
  <1>. DEFINE f == arg[p].from
  <1>1. /\ pc[p] = "inherit"
        /\ f \in Proc /\ pc[f] = "starting" /\ f # p
        /\ arg[p].phase = lphase[f]
        /\ p # Main
    BY DEF Inherit, LockstepInv, Listing, Handover
  <1>2. /\ UNCHANGED <<phase, listed, elders, seen, todo, ready>>
        /\ lphase' = [lphase EXCEPT ![p] = lphase[f]]
        /\ arg' = [arg EXCEPT ![p] = NoArg]
        /\ pc' = [pc EXCEPT ![p] = "run", ![f] = "run"]
    BY <1>1 DEF Inherit, loopvars, cyclevars
  <1>3. /\ pc'[p] = "run" /\ pc'[f] = "run" /\ lphase'[p] = lphase[f]
        /\ \A x \in Proc \ {p, f} : pc'[x] = pc[x]
        /\ \A x \in Proc \ {p} : lphase'[x] = lphase[x] /\ arg'[x] = arg[x]
    BY <1>1, <1>2 DEF TypeOK, Unit
  <1>4. p \in listed /\ f \in listed
    BY <1>1 DEF LockstepInv, Listing
  <1>5. Member' = Member \cup {p} /\ p \notin Member /\ f \in Member
    <2>1. \A x \in listed : pc'[x] # "inherit" <=> x = p \/ pc[x] # "inherit"
      BY <1>1, <1>3 DEF TypeOK
    <2>2. Member' = {x \in listed : pc'[x] # "inherit"}
      BY <1>2 DEF Member
    <2>. QED
      BY <1>1, <1>4, <2>1, <2>2 DEF Member
  <1>6. Listing'
    <2>1. \A x \in Proc \ {p, f} : pc'[x] = pc[x]
      BY <1>3
    <2>2. listed' = listed /\ pc'[p] = "run" /\ pc'[f] = "run"
      BY <1>2, <1>3
    <2>3. ASSUME NEW x \in Proc
          PROVE  x \in listed <=> pc'[x] \notin {"off", "init"}
      <3>1. CASE x \in {p, f}
        BY <3>1, <1>4, <2>2
      <3>2. CASE x \notin {p, f}
        BY <3>2, <2>1 DEF LockstepInv, Listing
      <3>. QED
        BY <3>1, <3>2
    <2>4. pc'[Main] \in {pc[Main], "run"}
      BY <1>1, <2>1, <2>2, ProcAssumption
    <2>. QED
      BY <2>2, <2>3, <2>4 DEF LockstepInv, Listing
  <1>7. Handover'
    <2>. SUFFICES ASSUME NEW x \in Proc, pc'[x] \in {"init", "inherit"}
                  PROVE  /\ arg'[x].from \in Proc
                         /\ pc'[arg'[x].from] = "starting"
                         /\ arg'[x].phase = lphase'[arg'[x].from]
                         /\ pc'[x] = "inherit" => arg'[x].from \in elders[x]
                         /\ \A y \in Proc \ {x} :
                              pc'[y] \in {"init", "inherit"} => arg'[y].from # arg'[x].from
      BY <1>2 DEF Handover
    <2>1. x # p /\ x # f /\ pc[x] \in {"init", "inherit"} /\ arg'[x] = arg[x]
      BY <1>1, <1>3
    <2>2. arg[x].from \in Proc /\ arg[x].from # f /\ pc[arg[x].from] = "starting" /\ arg[x].from # p
      BY <2>1, <1>1 DEF LockstepInv, Handover
    <2>. QED
      BY <1>1, <1>3, <2>1, <2>2 DEF LockstepInv, Handover
  <1>8. Following'
    <2>. SUFFICES ASSUME NEW x \in Member \cup {p}
                  PROVE  /\ lphase'[x] \in {phase, Pred[phase]}
                         /\ pc'[x] = "local" => seen[x] = phase \/ lphase'[x] = seen[x]
                         /\ pc'[x] = "snapshot" => lphase'[x] = "SYNC2" /\ phase = "ASYNC"
      BY <1>2, <1>5 DEF Following
    <2>1. CASE x = p
      BY <2>1, <1>3, <1>5 DEF LockstepInv, Following
    <2>2. CASE x # p
      BY <2>2, <1>3 DEF LockstepInv, Following, Member, TypeOK
    <2>. QED
      BY <2>1, <2>2
  <1>9. Walk'
    <2>1. ASSUME pc'[Main] = "poll", ready, NEW x \in (Member \cup {p}) \ todo
          PROVE  lphase'[x] = phase
      <3>0. pc[Main] = "poll"
        BY <1>1, <1>3, <2>1, ProcAssumption
      <3>1. CASE x = p
        <4>1. f \notin todo
          BY <1>1, <3>0, <3>1, <2>1 DEF LockstepInv, Walk
        <4>. QED
          BY <1>3, <1>5, <2>1, <3>0, <3>1, <4>1 DEF LockstepInv, Walk
      <3>2. CASE x # p
        BY <1>3, <2>1, <3>0, <3>2 DEF LockstepInv, Walk, Member, TypeOK
      <3>. QED
        BY <3>1, <3>2
    <2>2. ASSUME pc'[Main] = "poll", NEW x \in Proc \ todo, pc'[x] = "inherit"
          PROVE  arg'[x].from \notin todo
      BY <1>1, <1>3, <2>2, ProcAssumption DEF LockstepInv, Walk
    <2>3. ASSUME pc'[Main] = "advance", NEW x \in Member \cup {p}
          PROVE  lphase'[x] = phase
      BY <1>1, <1>3, <1>5, <2>3, ProcAssumption DEF LockstepInv, Walk, Member, TypeOK
    <2>. QED
      BY <1>2, <1>5, <2>1, <2>2, <2>3 DEF Walk
  <1>. QED
    BY <1>2, <1>5, <1>6, <1>7, <1>8, <1>9 DEF LockstepInv

(* The end of destroyProcessor.                                            *)
LEMMA StepUnlist ==
  ASSUME TypeOK, LockstepInv, NEW p \in Proc, Unlist(p)
  PROVE  /\ LockstepInv'
         /\ Member' = Member \ {p} /\ p \in Member /\ p # Main
         /\ UNCHANGED <<phase, lphase>>
  <1>1. /\ pc[p] = "unlist" /\ pc[Main] # "poll" /\ p # Main
        /\ listed' = listed \ {p}
        /\ UNCHANGED <<phase, arg, lphase, seen, todo, ready>>
    BY DEF Unlist, ListLocked, LockstepInv, Listing, slicevars, loopvars, cyclevars
  <1>2. /\ pc'[p] = "off"
        /\ \A x \in Proc \ {p} : pc'[x] = pc[x] /\ elders'[x] = elders[x] \ {p}
    BY DEF Unlist, Goto, TypeOK, Unit
  <1>3. Member' = Member \ {p} /\ p \in Member
    BY <1>1, <1>2 DEF Member, TypeOK, LockstepInv, Listing
  <1>4. Listing'
    BY <1>1, <1>2, ProcAssumption DEF LockstepInv, Listing
  <1>5. Handover'
    BY <1>1, <1>2 DEF LockstepInv, Handover
  <1>6. Following'
    BY <1>1, <1>2, <1>3 DEF LockstepInv, Following, Member, TypeOK
  <1>7. Walk'
    BY <1>1, <1>2, <1>3, ProcAssumption DEF LockstepInv, Walk
  <1>. QED
    BY <1>1, <1>3, <1>4, <1>5, <1>6, <1>7 DEF LockstepInv

(* chiGCControl starts a walk of the processor list: nobody is visited.    *)
LEMMA StepWalkStart ==
  ASSUME TypeOK, LockstepInv, Control \/ MarkDoneGlobal
  PROVE  LockstepInv' /\ Member' = Member /\ UNCHANGED <<phase, lphase>>
  <1>1. /\ UNCHANGED <<phase, listed, elders, arg, lphase, seen>>
        /\ todo' = listed
        /\ pc[Main] \in {"control", "markGlobal"}
        /\ pc'[Main] \in {"markProcs", "slice", "poll"}
        /\ \A x \in Proc \ {Main} : pc'[x] = pc[x]
    BY ProcAssumption
    DEF Control, MarkDoneGlobal, Goto, TypeOK, Unit, slicevars, cyclevars, rtvars
  <1>2. Member' = Member
    BY <1>1 DEF Member, TypeOK
  <1>3. Listing'
    BY <1>1, ProcAssumption DEF LockstepInv, Listing
  <1>4. Handover'
    BY <1>1 DEF LockstepInv, Handover
  <1>5. Following'
    BY <1>1, <1>2 DEF LockstepInv, Following, Member, TypeOK
  <1>6. Walk'
    BY <1>1, <1>2 DEF LockstepInv, Listing, Walk, Member, TypeOK
  <1>. QED
    BY <1>1, <1>2, <1>3, <1>4, <1>5, <1>6 DEF LockstepInv

(* gcPoll visits a processor, after all that were listed before it.        *)
LEMMA StepPoll ==
  ASSUME TypeOK, LockstepInv, NEW q \in Proc, Poll(q)
  PROVE  LockstepInv' /\ Member' = Member /\ UNCHANGED <<phase, lphase>>
  <1>1. /\ UNCHANGED <<phase, listed, elders, arg, lphase, seen>>
        /\ todo' = todo \ {q} /\ q \in todo /\ elders[q] \cap todo = {}
        /\ ready' = (ready /\ lphase[q] = phase)
        /\ pc[Main] = "poll"
        /\ pc'[Main] = IF todo # {q} THEN "poll" ELSE IF ready' THEN "advance" ELSE "slice"
        /\ \A x \in Proc \ {Main} : pc'[x] = pc[x]
    BY ProcAssumption DEF Poll, Visit, Goto, TypeOK, Unit, slicevars, cyclevars, rtvars
  <1>2. Member' = Member
    BY <1>1 DEF Member, TypeOK
  <1>3. Listing'
    BY <1>1, ProcAssumption DEF LockstepInv, Listing
  <1>4. Handover'
    BY <1>1 DEF LockstepInv, Handover
  <1>5. Following'
    BY <1>1, <1>2 DEF LockstepInv, Following, Member, TypeOK
  <1>6. Walk'
    <2>1. ASSUME ready', NEW x \in Member \ todo'
          PROVE  lphase[x] = phase
      BY <1>1, <2>1 DEF LockstepInv, Walk
    <2>2. ASSUME NEW x \in Proc \ todo', pc[x] = "inherit"
          PROVE  arg[x].from \notin todo'
      <3>1. CASE x = q
        BY <1>1, <2>2, <3>1 DEF LockstepInv, Handover
      <3>2. CASE x # q
        BY <1>1, <2>2, <3>2 DEF LockstepInv, Walk
      <3>. QED
        BY <3>1, <3>2
    <2>3. ASSUME pc'[Main] = "advance"
          PROVE  ready' /\ todo' = {}
      BY <1>1, <2>3
    <2>4. pc'[Main] # "inherit" /\ \A x \in Proc : pc'[x] = "inherit" => pc[x] = "inherit"
      BY <1>1
    <2>. QED
      BY <1>1, <1>2, <2>1, <2>2, <2>3, <2>4 DEF Walk
  <1>. QED
    BY <1>1, <1>2, <1>3, <1>4, <1>5, <1>6 DEF LockstepInv

(* gcGlobalPhase: everybody has followed the phase that ends.              *)
LEMMA StepAdvance ==
  ASSUME TypeOK, LockstepInv, Advance
  PROVE  /\ LockstepInv'
         /\ Member' = Member
         /\ phase' = Succ[phase]
         /\ \A p \in Member : lphase[p] = phase
         /\ UNCHANGED lphase
  <1>1. /\ UNCHANGED <<listed, elders, arg, lphase, seen>>
        /\ phase' = Succ[phase] /\ phase \in Phase
        /\ pc[Main] = "advance"
        /\ pc'[Main] \in {"slice", "workerStart", "sweepAcquire"}
        /\ \A x \in Proc \ {Main} : pc'[x] = pc[x]
    BY ProcAssumption
    DEF Advance, AfterAdvance, Phase, Goto, TypeOK, Unit, slicevars, rtvars
  <1>2. Member' = Member
    BY <1>1 DEF Member, TypeOK
  <1>3. \A p \in Member : lphase[p] = phase
    BY <1>1 DEF LockstepInv, Walk
  <1>4. Listing'
    BY <1>1, ProcAssumption DEF LockstepInv, Listing
  <1>5. Handover'
    BY <1>1 DEF LockstepInv, Handover
  <1>6. Following'
    <2>. SUFFICES ASSUME NEW x \in Member
                  PROVE  /\ lphase[x] \in {phase', Pred[phase']}
                         /\ pc'[x] = "local" => seen[x] = phase' \/ lphase[x] = seen[x]
                         /\ pc'[x] # "snapshot"
      BY <1>1, <1>2 DEF Following
    <2>1. lphase[x] = phase /\ x \in Proc
      BY <1>3 DEF Member, TypeOK
    <2>2. Pred[phase'] = phase
      BY <1>1, PhaseCycle
    <2>. QED
      BY <1>1, <2>1, <2>2 DEF LockstepInv, Following, Phase
  <1>7. Walk'
    BY <1>1 DEF Walk
  <1>. QED
    BY <1>1, <1>2, <1>3, <1>4, <1>5, <1>6, <1>7 DEF LockstepInv

(* A processor reads the global phase, or follows what it has read: only   *)
(* its own local phase changes, to the global phase.                       *)
LEMMA StepFollow ==
  ASSUME TypeOK, LockstepInv, NEW p \in Proc, p \in Member, NEW l,
         pc[p] \in {"slice", "local", "snapshot"}, Goto(p, l),
         l \in {"local", "snapshot", "setBarrier", "setEpoch", "scavenge", "inc", "join"},
         UNCHANGED <<phase, listed, elders, arg, todo, ready>>,
         lphase'[p] \in {lphase[p], phase},
         \A x \in Proc \ {p} : lphase'[x] = lphase[x] /\ seen'[x] = seen[x],
         l = "local" => seen'[p] = phase,
         l = "snapshot" => lphase'[p] = "SYNC2" /\ phase = "ASYNC"
  PROVE  LockstepInv' /\ Member' = Member
  <1>1. pc'[p] = l /\ \A x \in Proc \ {p} : pc'[x] = pc[x] /\ lphase'[x] = lphase[x]
    BY DEF Goto, TypeOK, Unit
  <1>2. Member' = Member
    BY <1>1 DEF Member, TypeOK
  <1>4. Listing'
    BY <1>1, ProcAssumption DEF LockstepInv, Listing
  <1>5. Handover'
    <2>. SUFFICES ASSUME NEW x \in Proc, pc'[x] \in {"init", "inherit"}
                  PROVE  /\ arg[x].from \in Proc
                         /\ pc'[arg[x].from] = "starting"
                         /\ arg[x].phase = lphase'[arg[x].from]
                         /\ pc'[x] = "inherit" => arg[x].from \in elders[x]
                         /\ \A y \in Proc \ {x} :
                              pc'[y] \in {"init", "inherit"} => arg[y].from # arg[x].from
      BY DEF Handover
    <2>1. x # p /\ pc[x] = pc'[x]
      BY <1>1
    <2>2. arg[x].from \in Proc /\ pc[arg[x].from] = "starting" /\ arg[x].from # p
      BY <2>1 DEF LockstepInv, Handover
    <2>. QED
      BY <1>1, <2>1, <2>2 DEF LockstepInv, Handover
  <1>6. Following'
    <2>. SUFFICES ASSUME NEW x \in Member
                  PROVE  /\ lphase'[x] \in {phase, Pred[phase]}
                         /\ pc'[x] = "local" => seen'[x] = phase \/ lphase'[x] = seen'[x]
                         /\ pc'[x] = "snapshot" => lphase'[x] = "SYNC2" /\ phase = "ASYNC"
      BY <1>2 DEF Following
    <2>1. CASE x = p
      BY <1>1, <2>1 DEF LockstepInv, Following
    <2>2. CASE x # p
      BY <1>1, <2>2 DEF LockstepInv, Following, Member, TypeOK
    <2>. QED
      BY <2>1, <2>2
  <1>7. Walk'
    BY <1>1, <1>2, ProcAssumption DEF LockstepInv, Walk, Member, TypeOK
  <1>. QED
    BY <1>2, <1>4, <1>5, <1>6, <1>7 DEF LockstepInv

(* What a step means for the handshake: nothing, or one of its actions.    *)
Stutter == Member' = Member /\ phase' = phase /\ \A x \in Member : lphase'[x] = lphase[x]

Follow(p) ==
  /\ p \in Member /\ lphase[p] # phase
  /\ lphase' = [lphase EXCEPT ![p] = phase]
  /\ Member' = Member /\ phase' = phase

Proceed ==
  /\ \A p \in Member : lphase[p] = phase
  /\ phase' = Succ[phase]
  /\ Member' = Member /\ lphase' = lphase

Enter(p, f) ==
  /\ p \in Proc \ Member /\ f \in Member
  /\ lphase' = [lphase EXCEPT ![p] = lphase[f]]
  /\ Member' = Member \cup {p} /\ phase' = phase

Quit(p) ==
  /\ p \in Member \ {Main}
  /\ Member' = Member \ {p} /\ phase' = phase /\ lphase' = lphase

HandshakeStep ==
  \/ Stutter \/ Proceed
  \/ \E p \in Proc : Follow(p) \/ Quit(p)
  \/ \E p, f \in Proc : Enter(p, f)

(* Quiet steps are none of the handshake.                                  *)
LEMMA QuietStep ==
  ASSUME TypeOK, LockstepInv, Quiet
  PROVE  LockstepInv' /\ HandshakeStep
  <1>1. Member' = Member
    BY DEF TypeOK, Quiet, QuietPC, Outside, Member
  <1>. QED
    BY <1>1, QuietKeeps DEF Quiet, HandshakeStep, Stutter

(* chiGCSlice: a processor acknowledges a phase it has read; the phase it  *)
(* has read is still the global one if it differs from the processor's.    *)
LEMMA StepSlice ==
  ASSUME TypeOK, LockstepInv, NEW p \in Proc, GCSlice(p)
  PROVE  LockstepInv' /\ HandshakeStep
  <1>0. CASE SetBarrier(p) \/ SetEpoch(p) \/ Scavenge(p) \/ IncSlice(p) \/ Join(p)
    BY <1>0, QuietSlice, QuietStep
  <1>1. CASE SliceRead(p)
    <2>1. /\ pc[p] = "slice" /\ Goto(p, "local") /\ lphase' = lphase
          /\ UNCHANGED <<phase, listed, elders, arg, todo, ready>>
          /\ seen'[p] = phase /\ \A x \in Proc \ {p} : seen'[x] = seen[x]
      BY <1>1 DEF SliceRead, TypeOK, loopvars, cyclevars, rtvars
    <2>2. p \in Member
      BY <2>1 DEF LockstepInv, Listing, Member
    <2>3. LockstepInv' /\ Member' = Member
      BY <2>1, <2>2, StepFollow
    <2>. QED
      BY <2>1, <2>3 DEF HandshakeStep, Stutter
  <1>2. CASE SliceLocal(p)
    <2>1. /\ pc[p] = "local"
          /\ UNCHANGED <<phase, listed, elders, arg, todo, ready, seen>>
      BY <1>2 DEF SliceLocal, loopvars, cyclevars, rtvars
    <2>2. p \in Member
      BY <2>1 DEF LockstepInv, Listing, Member
    <2>3. CASE seen[p] # "ASYNC" /\ lphase[p] = Pred[seen[p]]
      <3>. DEFINE l == [SYNC1 |-> "setBarrier", SYNC2 |-> AfterPhase, IDLE |-> "setEpoch"][seen[p]]
      <3>1. lphase' = [lphase EXCEPT ![p] = seen[p]] /\ Goto(p, l)
        BY <1>2, <2>3 DEF SliceLocal
      <3>2. seen[p] \in {"IDLE", "SYNC1", "SYNC2"} /\ lphase[p] # seen[p]
        BY <2>3, PhaseCycle DEF TypeOK, Phase
      <3>3. seen[p] = phase
        BY <2>1, <2>2, <3>2 DEF LockstepInv, Following
      <3>4. l \in {"setBarrier", "setEpoch", "scavenge", "join"}
        BY <3>2 DEF AfterPhase
      <3>. HIDE DEF l
      <3>5. LockstepInv' /\ Member' = Member
        <4>1. lphase' = [lphase EXCEPT ![p] = phase]
          BY <3>1, <3>3
        <4>2. lphase'[p] = phase /\ \A x \in Proc \ {p} : lphase'[x] = lphase[x]
          BY <4>1 DEF TypeOK
        <4>. QED
          BY <2>1, <2>2, <3>1, <3>4, <4>2, StepFollow
      <3>. QED
        BY <2>1, <2>2, <3>1, <3>2, <3>3, <3>5 DEF HandshakeStep, Follow
    <2>4. CASE ~(seen[p] # "ASYNC" /\ lphase[p] = Pred[seen[p]])
      <3>1. lphase' = lphase /\ Goto(p, AfterPhase)
        BY <1>2, <2>4 DEF SliceLocal
      <3>2. AfterPhase \in {"scavenge", "join"}
        BY DEF AfterPhase
      <3>3. LockstepInv' /\ Member' = Member
        BY <2>1, <2>2, <3>1, <3>2, StepFollow
      <3>. QED
        BY <2>1, <3>1, <3>3 DEF HandshakeStep, Stutter
    <2>. QED
      BY <2>3, <2>4
  <1>3. CASE Snapshot(p)
    <2>1. /\ pc[p] = "local" /\ seen[p] = "ASYNC" /\ lphase[p] = "SYNC2"
          /\ Goto(p, "snapshot")
          /\ UNCHANGED <<phase, listed, elders, arg, todo, ready, seen, lphase>>
      BY <1>3 DEF Snapshot, loopvars, cyclevars, rtvars
    <2>2. p \in Member
      BY <2>1 DEF LockstepInv, Listing, Member
    <2>3. phase = "ASYNC"
      BY <2>1, <2>2 DEF LockstepInv, Following
    <2>4. LockstepInv' /\ Member' = Member
      BY <2>1, <2>2, <2>3, StepFollow
    <2>. QED
      BY <2>1, <2>4 DEF HandshakeStep, Stutter
  <1>4. CASE SnapshotDone(p)
    <2>1. /\ pc[p] = "snapshot" /\ Goto(p, AfterScavenge)
          /\ lphase' = [lphase EXCEPT ![p] = "ASYNC"]
          /\ UNCHANGED <<phase, listed, elders, arg, todo, ready, seen>>
      BY <1>4 DEF SnapshotDone, loopvars, cyclevars, rtvars
    <2>2. p \in Member
      BY <2>1 DEF LockstepInv, Listing, Member
    <2>3. phase = "ASYNC" /\ lphase[p] = "SYNC2"
      BY <2>1, <2>2 DEF LockstepInv, Following
    <2>4. AfterScavenge \in {"inc", "join"}
      BY DEF AfterScavenge
    <2>5. LockstepInv' /\ Member' = Member
      <3>1. lphase' = [lphase EXCEPT ![p] = phase]
        BY <2>1, <2>3
      <3>2. lphase'[p] = phase /\ \A x \in Proc \ {p} : lphase'[x] = lphase[x]
        BY <3>1 DEF TypeOK
      <3>. QED
        BY <2>1, <2>2, <2>4, <3>2, StepFollow
    <2>. QED
      BY <2>1, <2>2, <2>3, <2>5 DEF HandshakeStep, Follow
  <1>. QED
    BY <1>0, <1>1, <1>2, <1>3, <1>4 DEF GCSlice

(* chiGCControl                                                            *)
LEMMA StepControl ==
  ASSUME TypeOK, LockstepInv, GCControl
  PROVE  LockstepInv' /\ HandshakeStep
  <1>1. CASE Control \/ MarkDoneGlobal
    BY <1>1, StepWalkStart DEF HandshakeStep, Stutter
  <1>2. ASSUME NEW q \in Proc, Poll(q)
        PROVE  LockstepInv' /\ HandshakeStep
    BY <1>2, StepPoll DEF HandshakeStep, Stutter
  <1>3. CASE Advance
    BY <1>3, StepAdvance DEF HandshakeStep, Proceed
  <1>4. CASE MarkDoneWorkers \/ SweepAcquire
             \/ (\E q \in Proc : MarkDoneProc(q)) \/ (\E W \in SUBSET Worker : WorkerStart(W))
    BY <1>4, QuietControl, QuietStep
  <1>. QED
    BY <1>1, <1>2, <1>3, <1>4 DEF GCControl

(* Starting and stopping processors.                                       *)
LEMMA StepLifecycle ==
  ASSUME TypeOK, LockstepInv, NEW p \in Proc, Lifecycle(p)
  PROVE  LockstepInv' /\ HandshakeStep
  <1>1. ASSUME NEW q \in Proc, NEW T, TryStart(q, p, T)
        PROVE  LockstepInv' /\ HandshakeStep
    <2>1. Member' = Member
      <3>1. /\ pc[q] = "run" /\ pc[p] = "off" /\ p # q /\ listed' = listed
            /\ pc' = [pc EXCEPT ![q] = "starting", ![p] = "init"]
        BY <1>1 DEF TryStart
      <3>2. \A x \in Proc : pc'[x] = "inherit" <=> pc[x] = "inherit"
        BY <3>1 DEF TypeOK, Unit
      <3>. QED
        BY <3>1, <3>2 DEF Member, TypeOK
    <2>. QED
      BY <1>1, <2>1, StepTryStart
      DEF HandshakeStep, Stutter, TryStart, slicevars, cyclevars
  <1>2. CASE InitProcessor(p)
    BY <1>2, StepInit DEF HandshakeStep, Stutter
  <1>3. CASE Inherit(p)
    BY <1>3, StepInherit DEF HandshakeStep, Enter, Member, TypeOK
  <1>4. CASE Stop(p) \/ LocalGCDestroy(p)
    BY <1>4, QuietStop, QuietStep
  <1>5. CASE Unlist(p)
    BY <1>5, StepUnlist DEF HandshakeStep, Quit
  <1>. QED
    BY <1>1, <1>2, <1>3, <1>4, <1>5 DEF Lifecycle

(* LockstepInv is inductive, and every step is one of the handshake.       *)
LEMMA LockstepNext ==
  ASSUME TypeOK, LockstepInv, [Next]_vars
  PROVE  LockstepInv' /\ HandshakeStep
  <1>1. ASSUME NEW p \in Proc, Request(p) \/ Mutate(p)
        PROVE  LockstepInv' /\ HandshakeStep
    BY <1>1, QuietMutate, QuietStep
  <1>2. ASSUME NEW p \in Proc, Serve(p)
        PROVE  LockstepInv' /\ HandshakeStep
    BY <1>2, StepSlice, StepControl, QuietSlice, QuietMarkSweep, QuietStep DEF Serve, Unit
  <1>3. ASSUME NEW w \in Worker, GCWorker(w)
        PROVE  LockstepInv' /\ HandshakeStep
    BY <1>3, QuietWorker, QuietStep
  <1>4. CASE UNCHANGED vars
    <2>1. Quiet
      BY <1>4 DEF Quiet, QuietPC, vars, slicevars, loopvars, cyclevars, rtvars
    <2>. QED
      BY <2>1, QuietStep
  <1>. QED
    BY <1>1, <1>2, <1>3, <1>4, StepLifecycle DEF Next

(* The reachable states have the inductive invariant.                      *)
THEOREM LockstepInvariant == Spec => []LockstepInv
  <1>1. LockstepInv /\ TypeOK /\ [Next]_vars => LockstepInv'
    BY LockstepNext
  <1>. QED
    BY <1>1, LockstepInit, TypeCorrect, PTL DEF Spec

(* The assertion of gcLocalTransition cannot fail: whatever processors are *)
(* started or stopped in the middle of a handshake, one that follows the   *)
(* phase it has read is in that phase or in the one before.                *)
THEOREM Lockstep == Spec => []InLockstep
  <1>1. LockstepInv /\ TypeOK => InLockstep
    BY DEF LockstepInv, Following, InLockstep, Member, TypeOK
  <1>. QED
    BY <1>1, LockstepInvariant, TypeCorrect, PTL

(* Initially the main processor alone takes part, in the idle phase.       *)
LEMMA HandshakeInit == Init => H!Init
  BY ProcAssumption, UnitAssumption DEF Init, H!Init, Member, Unit

(* A step of the handshake is one of the abstract specification.           *)
LEMMA HandshakeNext ==
  ASSUME TypeOK, HandshakeStep
  PROVE  [H!Next]_(H!vars)
  <1>. DEFINE ack == [p \in Proc |-> IF p \in Member THEN lphase[p] ELSE "IDLE"]
  <1>1. Member \subseteq Proc
    BY DEF Member, TypeOK
  <1>2. CASE Stutter
    <2>1. ack' = ack
      BY <1>1, <1>2 DEF Stutter
    <2>. QED
      BY <1>2, <2>1 DEF Stutter, H!vars
  <1>3. CASE Proceed
    <2>1. ack' = ack /\ \A p \in Member : ack[p] = phase
      BY <1>1, <1>3 DEF Proceed
    <2>2. H!Succ = Succ
      BY DEF H!Succ, Succ
    <2>3. H!Advance
      BY <1>3, <2>1, <2>2 DEF Proceed, H!Advance
    <2>. QED
      BY <2>3 DEF H!Next
  <1>4. ASSUME NEW p \in Proc, Follow(p)
        PROVE  H!Acknowledge(p)
    <2>1. ack' = [ack EXCEPT ![p] = phase] /\ ack[p] # phase
      BY <1>1, <1>4 DEF Follow, TypeOK
    <2>. QED
      BY <1>4, <2>1 DEF Follow, H!Acknowledge
  <1>5. ASSUME NEW p \in Proc, Quit(p)
        PROVE  H!Leave(p)
    <2>1. ack' = [ack EXCEPT ![p] = "IDLE"]
      BY <1>1, <1>5 DEF Quit
    <2>. QED
      BY <1>5, <2>1 DEF Quit, H!Leave
  <1>6. ASSUME NEW p \in Proc, NEW f \in Proc, Enter(p, f)
        PROVE  H!Enter(p, f)
    <2>1. ack' = [ack EXCEPT ![p] = ack[f]]
      BY <1>1, <1>6 DEF Enter, TypeOK
    <2>. QED
      BY <1>6, <2>1 DEF Enter, H!Enter
  <1>. QED
    BY <1>2, <1>3, <1>4, <1>5, <1>6 DEF HandshakeStep, H!Next

(* The collector implements the abstract handshake: its global phase       *)
(* advances only when every processor that takes part has acknowledged it, *)
(* every processor acknowledges each phase in turn, and a new one takes    *)
(* over the phase of its starter.                                          *)
THEOREM HandshakeImplemented == Spec => ImplementsHandshake
  <1>1. LockstepInv /\ TypeOK /\ [Next]_vars => [H!Next]_(H!vars)
    BY LockstepNext, HandshakeNext
  <1>. QED
    BY <1>1, HandshakeInit, LockstepInvariant, TypeCorrect, PTL
    DEF Spec, ImplementsHandshake, H!Spec

-----------------------------------------------------------------------------
(* The write barrier.                                                      *)

(* A processor that has published its phase or its barrier, but not both.  *)
Between == {"setBarrier", "setEpoch", "snapshot"}

(* In the beginning there is no barrier.                                   *)
LEMMA BarrierInit == Init => BarrierInv
  BY ProcAssumption, UnitAssumption DEF Init, BarrierInv, BarrierOf, Member, Unit

(* Steps that change neither phases nor barriers.                          *)
LEMMA BarrierSame ==
  ASSUME TypeOK, BarrierInv,
         UNCHANGED <<barrier, lphase, arg>>, Member' \subseteq Member,
         \A x \in Proc : \/ pc'[x] = pc[x]
                         \/ pc[x] \notin Between /\ pc'[x] \notin Between \cup {"init", "inherit"}
  PROVE  BarrierInv'
  <1>1. Member \subseteq Proc
    BY DEF Member, TypeOK
  <1>. QED
    BY <1>1 DEF BarrierInv, Between

(* Steps of one processor, which nobody waits for, on its own behalf.      *)
LEMMA BarrierMove ==
  ASSUME TypeOK, LockstepInv, BarrierInv, NEW p \in Proc, NEW l, pc[p] # "starting", Goto(p, l),
         l \notin {"init", "inherit"},
         arg' = arg, Member' = Member,
         \A x \in Proc \ {p} : barrier'[x] = barrier[x] /\ lphase'[x] = lphase[x],
         /\ l \notin Between => barrier'[p] = BarrierOf[lphase'[p]]
         /\ l = "setBarrier" => barrier'[p] = "NONE" /\ lphase'[p] = "SYNC1"
         /\ l = "setEpoch" => barrier'[p] = "ASYNC" /\ lphase'[p] = "IDLE"
         /\ l = "snapshot" => barrier'[p] = "ASYNC" /\ lphase'[p] = "SYNC2"
  PROVE  BarrierInv'
  <1>1. pc'[p] = l /\ \A x \in Proc \ {p} : pc'[x] = pc[x]
    BY DEF Goto, TypeOK, Unit
  <1>2. ASSUME NEW x \in Member
        PROVE  /\ pc'[x] \notin Between => barrier'[x] = BarrierOf[lphase'[x]]
               /\ pc'[x] = "setBarrier" => barrier'[x] = "NONE" /\ lphase'[x] = "SYNC1"
               /\ pc'[x] = "setEpoch" => barrier'[x] = "ASYNC" /\ lphase'[x] = "IDLE"
               /\ pc'[x] = "snapshot" => barrier'[x] = "ASYNC" /\ lphase'[x] = "SYNC2"
    <2>1. CASE x = p
      BY <1>1, <2>1
    <2>2. CASE x # p
      BY <1>1, <2>2 DEF BarrierInv, Between, Member, TypeOK
    <2>. QED
      BY <2>1, <2>2
  <1>3. ASSUME NEW x \in Proc, pc'[x] \in {"init", "inherit"}
        PROVE  arg[x].barrier = barrier'[arg[x].from]
    <2>1. x # p /\ pc'[x] = pc[x]
      BY <1>1, <1>3
    <2>2. arg[x].from \in Proc \ {p} /\ arg[x].barrier = barrier[arg[x].from]
      BY <1>3, <2>1 DEF LockstepInv, Handover, BarrierInv
    <2>. QED
      BY <2>2
  <1>. QED
    BY <1>2, <1>3 DEF BarrierInv, Between

(* Mutators, collector threads and marking in slices.                      *)
LEMMA BarrierQuiet ==
  ASSUME TypeOK, LockstepInv, BarrierInv, Quiet, barrier' = barrier,
         \A x \in Proc : \/ pc'[x] = pc[x]
                         \/ pc[x] \notin Between /\ pc'[x] \notin Between
  PROVE  BarrierInv'
  <1>1. Member' = Member
    BY DEF TypeOK, Quiet, QuietPC, Outside, Member
  <1>. QED
    BY <1>1, BarrierSame DEF Quiet, QuietPC, Outside

(* The same for the actions of mutators.                                   *)
LEMMA BarrierMutate ==
  ASSUME TypeOK, LockstepInv, BarrierInv, NEW p \in Proc, Request(p) \/ Mutate(p)
  PROVE  BarrierInv'
  <1>0. Quiet
    BY QuietMutate
  <1>1. /\ barrier' = barrier
        /\ \/ pc' = pc
           \/ pc[p] \notin Between /\ Goto(p, "barrier")
           \/ pc[p] \notin Between /\ Goto(p, "write")
           \/ pc[p] \notin Between /\ Goto(p, "run")
    <2>1. CASE Request(p)
      BY <2>1 DEF Request, GCTrigger, TimerTick, ScavengeRequest, slicevars
    <2>2. ASSUME NEW o \in Obj,
                 Load(p, o) \/ LoadRoot(p, o) \/ Drop(p, o) \/ GCRoot(p, o) \/ GCUnroot(p, o)
          PROVE  barrier' = barrier /\ pc' = pc
      BY <2>2 DEF Load, LoadRoot, Drop, GCRoot, GCUnroot, slicevars
    <2>3. ASSUME NEW o \in Obj, NEW v \in roots[p] \cup {Null},
                 Alloc(p, o, v) \/ StorePlain(p, o, v) \/ StoreBegin(p, o, v)
          PROVE  barrier' = barrier /\ (pc' = pc \/ (pc[p] \notin Between /\ Goto(p, "barrier")))
      BY <2>3 DEF Alloc, StorePlain, StoreBegin, slicevars, Between
    <2>4. CASE MarkBarrier(p) \/ StoreWrite(p)
      BY <2>4 DEF MarkBarrier, StoreWrite, slicevars, Between
    <2>. QED
      BY <2>1, <2>2, <2>3, <2>4 DEF Mutate
  <1>2. \A x \in Proc : pc'[x] = pc[x] \/ (pc[x] \notin Between /\ pc'[x] \notin Between)
    BY <1>1 DEF Goto, TypeOK, Unit, Between
  <1>. QED
    BY <1>0, <1>1, <1>2, BarrierQuiet

(* The same for marking, sweeping and collector threads.                   *)
LEMMA BarrierMarkSweep ==
  ASSUME TypeOK, LockstepInv, BarrierInv, NEW u \in Unit,
         MarkSweep(u) \/ (u \in Worker /\ GCWorker(u))
  PROVE  BarrierInv'
  <1>0. Quiet
    BY QuietMarkSweep, QuietWorker
  <1>1. ASSUME MarkSweep(u)
        PROVE  /\ barrier' = barrier
               /\ \/ pc' = pc
                  \/ \E l \in {"mark", "sync", "join"} : pc[u] \notin Between /\ Goto(u, l)
    <2>1. ASSUME NEW o \in Obj, Sweep(u, o) \/ MarkPop(u, o)
          PROVE  barrier' = barrier /\ pc' = pc
      BY <2>1 DEF Sweep, MarkPop, slicevars
    <2>2. CASE MarkField(u)
      BY <2>2 DEF MarkField, slicevars
    <2>3. CASE SweepDone(u) \/ MarkDone(u)
      BY <2>3 DEF SweepDone, MarkDone, slicevars, Between
    <2>. QED
      BY <1>1, <2>1, <2>2, <2>3 DEF MarkSweep
  <1>2. ASSUME NEW B \in SUBSET Obj, WorkerSync(u, B)
        PROVE  /\ barrier' = barrier
               /\ \E l \in {"sync", "sweep"} : pc[u] \notin Between /\ Goto(u, l)
    BY <1>2 DEF WorkerSync, slicevars, Between
  <1>3. /\ barrier' = barrier
        /\ \A x \in Proc : pc'[x] = pc[x] \/ (pc[x] \notin Between /\ pc'[x] \notin Between)
    BY <1>1, <1>2 DEF GCWorker, Goto, TypeOK, Unit, Between
  <1>. QED
    BY <1>0, <1>3, BarrierQuiet

(* The same for the service routine where no phase is followed.            *)
LEMMA BarrierService ==
  ASSUME TypeOK, LockstepInv, BarrierInv, NEW p \in Proc,
         Service(p) \/ Scavenge(p) \/ IncSlice(p) \/ Join(p) \/ Stop(p) \/ LocalGCDestroy(p)
  PROVE  BarrierInv'
  <1>0. Quiet
    BY QuietSlice, QuietStop
  <1>1. /\ barrier' = barrier
        /\ pc[p] \notin Between
        /\ \E l \in {"control", "slice", "inc", "join", "sweep", "run", "destroy", "unlist"} : Goto(p, l)
    BY DEF Service, Scavenge, AfterScavenge, IncSlice, Join, Stop, LocalGCDestroy, slicevars, Between
  <1>2. \A x \in Proc : pc'[x] = pc[x] \/ (pc[x] \notin Between /\ pc'[x] \notin Between)
    BY <1>1 DEF Goto, TypeOK, Unit, Between
  <1>. QED
    BY <1>0, <1>1, <1>2, BarrierQuiet

(* chiGCControl touches no barrier.                                        *)
LEMMA BarrierControl ==
  ASSUME TypeOK, LockstepInv, BarrierInv, GCControl
  PROVE  BarrierInv'
  <1>1. ASSUME NEW W \in SUBSET Worker, WorkerStart(W)
        PROVE  BarrierInv'
    <2>1. Quiet
      BY <1>1, QuietControl
    <2>2. /\ barrier' = barrier
          /\ \A x \in Proc : pc'[x] = pc[x] \/ (pc[x] \notin Between /\ pc'[x] \notin Between)
      BY <1>1, UnitAssumption
      DEF WorkerStart, TypeOK, Unit, slicevars, Between
    <2>. QED
      BY <2>1, <2>2, BarrierQuiet
  <1>2. ASSUME NEW q \in Proc, MarkDoneProc(q) \/ Poll(q)
        PROVE  /\ UNCHANGED <<barrier, lphase, arg, listed>>
               /\ \E l \in {"slice", "markProcs", "markWorkers", "poll", "advance"} :
                    pc[Main] \notin Between /\ Goto(Main, l)
    <2>1. CASE MarkDoneProc(q)
      BY <2>1 DEF MarkDoneProc, slicevars, rtvars, Between
    <2>2. CASE Poll(q)
      BY <2>2 DEF Poll, slicevars, rtvars, Between
    <2>. QED
      BY <1>2, <2>1, <2>2
  <1>3. ASSUME Control \/ MarkDoneWorkers \/ MarkDoneGlobal \/ Advance \/ SweepAcquire
        PROVE  /\ UNCHANGED <<barrier, lphase, arg, listed>>
               /\ \E l \in {"slice", "markProcs", "markGlobal", "poll", "workerStart", "sweepAcquire"} :
                    pc[Main] \notin Between /\ Goto(Main, l)
    <2>1. CASE Control \/ MarkDoneWorkers \/ MarkDoneGlobal \/ SweepAcquire
      BY <2>1 DEF Control, MarkDoneWorkers, MarkDoneGlobal, SweepAcquire, slicevars, rtvars, Between
    <2>2. CASE Advance
      <3>1. AfterAdvance[phase] \in {"slice", "workerStart", "sweepAcquire"}
        BY DEF TypeOK, Phase, AfterAdvance
      <3>. QED
        BY <2>2, <3>1 DEF Advance, slicevars, rtvars, Between
    <2>. QED
      BY <1>3, <2>1, <2>2
  <1>4. ASSUME /\ UNCHANGED <<barrier, lphase, arg, listed>>
               /\ \E l \in {"slice", "markProcs", "markWorkers", "markGlobal", "poll", "advance",
                            "workerStart", "sweepAcquire"} :
                    pc[Main] \notin Between /\ Goto(Main, l)
        PROVE  BarrierInv'
    <2>1. \A x \in Proc : \/ pc'[x] = pc[x]
                          \/ /\ x = Main /\ pc[x] \notin Between
                             /\ pc'[x] \notin Between \cup {"init", "inherit"}
      BY <1>4 DEF Goto, TypeOK, Unit, Between
    <2>2. Member' \subseteq Member
      BY <1>4, <2>1 DEF LockstepInv, Listing, Member, TypeOK
    <2>. QED
      BY <1>4, <2>1, <2>2, BarrierSame
  <1>. QED
    BY <1>1, <1>2, <1>3, <1>4 DEF GCControl

(* A processor that follows a phase: the barrier is the one of the new     *)
(* phase once it is through.                                               *)
LEMMA BarrierSlice ==
  ASSUME TypeOK, LockstepInv, BarrierInv, NEW p \in Proc, GCSlice(p)
  PROVE  BarrierInv'
  <1>0. ASSUME NEW l, pc[p] \in {"slice", "local", "setBarrier", "setEpoch", "snapshot"}, Goto(p, l),
               l \notin {"off", "init", "inherit"}, listed' = listed
        PROVE  p \in Member /\ Member' = Member
    <2>1. pc'[p] = l /\ \A x \in Proc \ {p} : pc'[x] = pc[x]
      BY <1>0 DEF Goto, TypeOK, Unit
    <2>. QED
      BY <1>0, <2>1 DEF LockstepInv, Listing, Member, TypeOK
  <1>1. CASE SliceRead(p)
    <2>1. /\ pc[p] = "slice" /\ Goto(p, "local")
          /\ UNCHANGED <<barrier, lphase, arg, listed>>
      BY <1>1 DEF SliceRead, cyclevars, rtvars
    <2>2. Member' = Member
      BY <1>0, <2>1
    <2>3. \A x \in Proc : \/ pc'[x] = pc[x]
                          \/ pc[x] \notin Between /\ pc'[x] \notin Between \cup {"init", "inherit"}
      BY <2>1 DEF Goto, TypeOK, Unit, Between
    <2>. QED
      BY <2>1, <2>2, <2>3, BarrierSame
  <1>2. CASE SliceLocal(p)
    <2>1. /\ pc[p] = "local"
          /\ UNCHANGED <<barrier, arg, listed>>
      BY <1>2 DEF SliceLocal, rtvars
    <2>2. AfterPhase \in {"scavenge", "join"}
      BY DEF AfterPhase
    <2>3. CASE seen[p] # "ASYNC" /\ lphase[p] = Pred[seen[p]]
      <3>. DEFINE l == [SYNC1 |-> "setBarrier", SYNC2 |-> AfterPhase, IDLE |-> "setEpoch"][seen[p]]
      <3>1. lphase' = [lphase EXCEPT ![p] = seen[p]] /\ Goto(p, l)
        BY <1>2, <2>3 DEF SliceLocal
      <3>2. lphase'[p] = seen[p] /\ \A x \in Proc \ {p} : lphase'[x] = lphase[x]
        BY <3>1 DEF TypeOK
      <3>3. seen[p] \in {"IDLE", "SYNC1", "SYNC2"}
        BY <2>3 DEF TypeOK, Phase
      <3>4. l \in {"setBarrier", "setEpoch", "scavenge", "join"}
        BY <2>2, <3>3
      <3>5. /\ seen[p] = "SYNC1" => l = "setBarrier" /\ lphase[p] = "IDLE"
            /\ seen[p] = "SYNC2" => l \in {"scavenge", "join"} /\ lphase[p] = "SYNC1"
            /\ seen[p] = "IDLE" => l = "setEpoch" /\ lphase[p] = "ASYNC"
        BY <2>2, <2>3, <3>3 DEF Pred
      <3>. HIDE DEF l
      <3>6. p \in Member /\ Member' = Member
        BY <1>0, <2>1, <3>1, <3>4
      <3>7. barrier[p] = BarrierOf[lphase[p]]
        BY <2>1, <3>6 DEF BarrierInv
      <3>8. /\ l \notin Between => barrier[p] = BarrierOf[seen[p]]
            /\ l = "setBarrier" => barrier[p] = "NONE" /\ seen[p] = "SYNC1"
            /\ l = "setEpoch" => barrier[p] = "ASYNC" /\ seen[p] = "IDLE"
            /\ l # "snapshot"
        BY <3>3, <3>4, <3>5, <3>7 DEF BarrierOf, Between
      <3>. QED
        BY <2>1, <3>1, <3>2, <3>4, <3>6, <3>8, BarrierMove
    <2>4. CASE ~(seen[p] # "ASYNC" /\ lphase[p] = Pred[seen[p]])
      <3>1. lphase' = lphase /\ Goto(p, AfterPhase)
        BY <1>2, <2>4 DEF SliceLocal
      <3>2. Member' = Member
        BY <1>0, <2>1, <2>2, <3>1
      <3>3. \A x \in Proc : \/ pc'[x] = pc[x]
                            \/ pc[x] \notin Between /\ pc'[x] \notin Between \cup {"init", "inherit"}
        BY <2>1, <2>2, <3>1 DEF Goto, TypeOK, Unit, Between
      <3>. QED
        BY <2>1, <3>1, <3>2, <3>3, BarrierSame
    <2>. QED
      BY <2>3, <2>4
  <1>3. ASSUME pc[p] \in {"setBarrier", "setEpoch"},
               barrier'[p] = BarrierOf[lphase[p]],
               \A x \in Proc \ {p} : barrier'[x] = barrier[x],
               UNCHANGED <<lphase, arg, listed>>, Goto(p, AfterPhase)
        PROVE  BarrierInv'
    <2>1. AfterPhase \in {"scavenge", "join"}
      BY DEF AfterPhase
    <2>2. Member' = Member
      BY <1>0, <1>3, <2>1
    <2>. QED
      BY <1>3, <2>1, <2>2, BarrierMove DEF Between
  <1>4. CASE SetBarrier(p)
    <2>1. /\ pc[p] = "setBarrier" /\ Goto(p, AfterPhase)
          /\ barrier' = [barrier EXCEPT ![p] = "SYNC"]
          /\ UNCHANGED <<lphase, arg, listed>>
      BY <1>4 DEF SetBarrier, rtvars
    <2>2. p \in Member
      BY <2>1 DEF LockstepInv, Listing, Member
    <2>3. "SYNC" = BarrierOf[lphase[p]]
      BY <2>1, <2>2 DEF BarrierInv, BarrierOf
    <2>4. barrier'[p] = "SYNC" /\ \A x \in Proc \ {p} : barrier'[x] = barrier[x]
      BY <2>1 DEF TypeOK
    <2>. QED
      BY <1>3, <2>1, <2>3, <2>4
  <1>5. CASE SetEpoch(p)
    <2>1. /\ pc[p] = "setEpoch" /\ Goto(p, AfterPhase)
          /\ barrier' = [barrier EXCEPT ![p] = "NONE"]
          /\ UNCHANGED <<lphase, arg, listed>>
      BY <1>5 DEF SetEpoch, rtvars
    <2>2. p \in Member
      BY <2>1 DEF LockstepInv, Listing, Member
    <2>3. "NONE" = BarrierOf[lphase[p]]
      BY <2>1, <2>2 DEF BarrierInv, BarrierOf
    <2>4. barrier'[p] = "NONE" /\ \A x \in Proc \ {p} : barrier'[x] = barrier[x]
      BY <2>1 DEF TypeOK
    <2>. QED
      BY <1>3, <2>1, <2>3, <2>4
  <1>6. CASE Snapshot(p)
    <2>1. /\ pc[p] = "local" /\ lphase[p] = "SYNC2" /\ Goto(p, "snapshot")
          /\ barrier' = [barrier EXCEPT ![p] = "ASYNC"]
          /\ UNCHANGED <<lphase, arg, listed>>
      BY <1>6 DEF Snapshot, rtvars
    <2>2. Member' = Member
      BY <1>0, <2>1
    <2>3. barrier'[p] = "ASYNC" /\ \A x \in Proc \ {p} : barrier'[x] = barrier[x]
      BY <2>1 DEF TypeOK
    <2>. QED
      BY <2>1, <2>2, <2>3, BarrierMove DEF Between
  <1>7. CASE SnapshotDone(p)
    <2>1. /\ pc[p] = "snapshot" /\ Goto(p, AfterScavenge)
          /\ lphase' = [lphase EXCEPT ![p] = "ASYNC"]
          /\ UNCHANGED <<barrier, arg, listed>>
      BY <1>7 DEF SnapshotDone, rtvars
    <2>2. AfterScavenge \in {"inc", "join"}
      BY DEF AfterScavenge
    <2>3. p \in Member /\ Member' = Member
      BY <1>0, <2>1, <2>2
    <2>4. lphase'[p] = "ASYNC" /\ \A x \in Proc \ {p} : lphase'[x] = lphase[x]
      BY <2>1 DEF TypeOK
    <2>5. barrier[p] = "ASYNC"
      BY <2>1, <2>3 DEF BarrierInv
    <2>6. AfterScavenge \notin Between \cup {"init", "inherit"} /\ barrier[p] = BarrierOf[lphase'[p]]
      BY <2>2, <2>4, <2>5 DEF Between, BarrierOf
    <2>. QED
      BY <2>1, <2>3, <2>4, <2>6, BarrierMove DEF Between
  <1>. QED
    BY <1>1, <1>2, <1>4, <1>5, <1>6, <1>7, BarrierService DEF GCSlice

(* A new processor inherits the barrier its starter has.                   *)
LEMMA BarrierLifecycle ==
  ASSUME TypeOK, LockstepInv, BarrierInv, NEW p \in Proc, Lifecycle(p)
  PROVE  BarrierInv'
  <1>1. ASSUME NEW q \in Proc, NEW T, TryStart(q, p, T)
        PROVE  BarrierInv'
    <2>1. /\ pc[q] = "run" /\ pc[p] = "off" /\ p # q
          /\ UNCHANGED <<barrier, lphase, listed>>
          /\ pc'[q] = "starting" /\ pc'[p] = "init"
          /\ \A x \in Proc \ {p, q} : pc'[x] = pc[x]
          /\ arg'[p].from = q /\ arg'[p].barrier = barrier[q]
          /\ \A x \in Proc \ {p} : arg'[x] = arg[x]
      BY <1>1 DEF TryStart, TypeOK, Unit, slicevars
    <2>2. Member' = Member /\ p \notin Member
      <3>1. \A x \in Proc : pc'[x] = "inherit" <=> pc[x] = "inherit"
        BY <2>1
      <3>2. Member' = Member
        BY <2>1, <3>1 DEF Member, TypeOK
      <3>3. p \notin listed
        BY <2>1 DEF LockstepInv, Listing
      <3>. QED
        BY <3>2, <3>3 DEF Member
    <2>3. \A x \in Proc : pc'[x] \in {"init", "inherit"} => arg'[x].barrier = barrier[arg'[x].from]
      BY <2>1 DEF BarrierInv
    <2>4. \A x \in Member : x \in Proc /\ (pc'[x] = pc[x] \/ (pc[x] = "run" /\ pc'[x] = "starting"))
      BY <2>1, <2>2 DEF Member, TypeOK
    <2>. QED
      BY <2>1, <2>2, <2>3, <2>4 DEF BarrierInv
  <1>2. CASE InitProcessor(p)
    <2>1. /\ pc[p] = "init" /\ pc'[p] = "inherit" /\ arg' = arg
          /\ \A x \in Proc \ {p} : pc'[x] = pc[x] /\ lphase'[x] = lphase[x] /\ barrier'[x] = barrier[x]
      BY <1>2 DEF InitProcessor, Goto, TypeOK, Unit
    <2>2. Member' = Member /\ p \notin Member
      BY <1>2, <2>1, StepInit DEF LockstepInv, Listing, Member
    <2>3. ASSUME NEW x \in Proc, pc'[x] \in {"init", "inherit"}
          PROVE  arg[x].barrier = barrier'[arg[x].from]
      <3>1. pc[x] \in {"init", "inherit"}
        BY <2>1, <2>3
      <3>2. arg[x].from \in Proc \ {p} /\ arg[x].barrier = barrier[arg[x].from]
        BY <2>1, <3>1 DEF LockstepInv, Handover, BarrierInv
      <3>. QED
        BY <2>1, <3>2
    <2>4. \A x \in Member : x \in Proc \ {p}
      BY <2>2 DEF Member, TypeOK
    <2>. QED
      BY <2>1, <2>2, <2>3, <2>4 DEF BarrierInv
  <1>3. CASE Inherit(p)
    <2>. DEFINE f == arg[p].from
    <2>1. /\ pc[p] = "inherit" /\ f \in Proc /\ pc[f] = "starting" /\ f # p
          /\ arg[p].barrier = barrier[f]
      BY <1>3 DEF Inherit, LockstepInv, Handover, BarrierInv
    <2>2. /\ pc'[p] = "run" /\ pc'[f] = "run"
          /\ \A x \in Proc \ {p, f} : pc'[x] = pc[x]
          /\ barrier'[p] = barrier[f]
          /\ \A x \in Proc \ {p} : barrier'[x] = barrier[x] /\ arg'[x] = arg[x]
      BY <1>3, <2>1 DEF Inherit, TypeOK, Unit
    <2>3. /\ Member' = Member \cup {p} /\ f \in Member
          /\ lphase'[p] = lphase[f]
          /\ \A x \in Proc \ {p} : lphase'[x] = lphase[x]
      BY <1>3, StepInherit DEF TypeOK
    <2>. HIDE DEF f
    <2>4. ASSUME NEW x \in Proc, pc'[x] \in {"init", "inherit"}
          PROVE  arg'[x].barrier = barrier'[arg'[x].from]
      <3>1. x # p /\ x # f /\ pc[x] \in {"init", "inherit"} /\ arg'[x] = arg[x]
        BY <2>2, <2>4
      <3>2. arg[x].from \in Proc \ {p} /\ arg[x].barrier = barrier[arg[x].from]
        BY <2>1, <3>1 DEF LockstepInv, Handover, BarrierInv
      <3>. QED
        BY <2>2, <3>1, <3>2
    <2>5. barrier[f] = BarrierOf[lphase[f]]
      BY <2>1, <2>3 DEF BarrierInv
    <2>6. \A x \in Member : x \in Proc
      BY DEF Member, TypeOK
    <2>7. ASSUME NEW x \in Member \cup {p}
          PROVE  /\ pc'[x] \notin {"setBarrier", "setEpoch", "snapshot"} => barrier'[x] = BarrierOf[lphase'[x]]
                 /\ pc'[x] = "setBarrier" => barrier'[x] = "NONE" /\ lphase'[x] = "SYNC1"
                 /\ pc'[x] = "setEpoch" => barrier'[x] = "ASYNC" /\ lphase'[x] = "IDLE"
                 /\ pc'[x] = "snapshot" => barrier'[x] = "ASYNC" /\ lphase'[x] = "SYNC2"
      <3>1. CASE x = p
        BY <2>2, <2>3, <2>5, <3>1
      <3>2. CASE x # p /\ x = f
        BY <2>2, <2>3, <2>5, <2>6, <3>2
      <3>3. CASE x # p /\ x # f
        BY <2>2, <2>3, <2>6, <3>3 DEF BarrierInv
      <3>. QED
        BY <3>1, <3>2, <3>3
    <2>. QED
      BY <2>3, <2>4, <2>7 DEF BarrierInv
  <1>4. CASE Unlist(p)
    <2>1. /\ UNCHANGED <<barrier, lphase, arg>> /\ Member' \subseteq Member
          /\ pc[p] = "unlist" /\ Goto(p, "off")
      BY <1>4, StepUnlist DEF Unlist, slicevars
    <2>2. \A x \in Proc : \/ pc'[x] = pc[x]
                          \/ pc[x] \notin Between /\ pc'[x] \notin Between \cup {"init", "inherit"}
      BY <2>1 DEF Goto, TypeOK, Unit, Between
    <2>. QED
      BY <2>1, <2>2, BarrierSame
  <1>. QED
    BY <1>1, <1>2, <1>3, <1>4, BarrierService DEF Lifecycle

(* BarrierInv is inductive.                                                *)
LEMMA BarrierNext ==
  ASSUME TypeOK, LockstepInv, BarrierInv, [Next]_vars
  PROVE  BarrierInv'
  <1>1. ASSUME NEW p \in Proc, Serve(p)
        PROVE  BarrierInv'
    BY <1>1, BarrierService, BarrierSlice, BarrierControl, BarrierMarkSweep DEF Serve, Unit
  <1>2. ASSUME NEW w \in Worker, GCWorker(w)
        PROVE  BarrierInv'
    BY <1>2, BarrierMarkSweep DEF Unit
  <1>3. CASE UNCHANGED vars
    BY <1>3, BarrierSame DEF vars, slicevars, rtvars, Member
  <1>. QED
    BY <1>1, <1>2, <1>3, BarrierMutate, BarrierLifecycle DEF Next

(* The barrier of a processor is that of its phase.                        *)
THEOREM BarrierInvariant == Spec => []BarrierInv
  <1>1. BarrierInv /\ LockstepInv /\ TypeOK /\ [Next]_vars => BarrierInv'
    BY BarrierNext
  <1>. QED
    BY <1>1, BarrierInit, LockstepInvariant, TypeCorrect, PTL DEF Spec

(* No mutator writes without a barrier while another has taken its         *)
(* snapshot: gcPoll only looks at the phases, and that is enough.          *)
THEOREM BarrierGapFree == Spec => []NoBarrierGap
  <1>1. TypeOK /\ LockstepInv /\ BarrierInv => NoBarrierGap
    <2>. SUFFICES ASSUME TypeOK, LockstepInv, BarrierInv, phase # "IDLE",
                         NEW p \in Settled, NEW q \in Settled, barrier[p] = "ASYNC"
                  PROVE  barrier[q] # "NONE"
      BY DEF NoBarrierGap
    <2>1. ASSUME NEW x \in Settled
          PROVE  /\ barrier[x] = BarrierOf[lphase[x]]
                 /\ lphase[x] \in {phase, Pred[phase]}
      BY DEF Settled, BarrierInv, LockstepInv, Following
    <2>2. phase \in {"SYNC1", "SYNC2", "ASYNC"}
      BY DEF TypeOK, Phase
    <2>3. phase = "ASYNC"
      BY <2>1, <2>2 DEF BarrierOf, Pred
    <2>. QED
      BY <2>1, <2>3 DEF BarrierOf, Pred
  <1>. QED
    BY <1>1, BarrierInvariant, LockstepInvariant, TypeCorrect, PTL

-----------------------------------------------------------------------------
(***************************************************************************)
(* The epochs.  EpochInv is inductive together with TypeOK, LockstepInv    *)
(* and BarrierInv, as long as no mark phase ends while a collector thread  *)
(* is at work.                                                             *)
(***************************************************************************)

(* What the other invariants say of all steps.                             *)
Base == TypeOK /\ LockstepInv /\ BarrierInv

(* A step within a cycle: the epochs agree as before.                      *)
SameCycle == EpochInv' /\ CycleEpoch' = CycleEpoch

(* In the beginning every epoch is the first.                              *)
LEMMA EpochInit == Init => EpochInv
  <1>. SUFFICES ASSUME Init PROVE EpochInv
    OBVIOUS
  <1>1. /\ phase = "IDLE" /\ lphase[Main] = "IDLE" /\ pc[Main] = "run" /\ epoch[Main] = 0
        /\ Main \in Unit
    BY ProcAssumption, UnitAssumption DEF Init, Unit
  <1>2. \A w \in Worker : wstatus[w] = "none" /\ pc[w] = "none"
    BY UnitAssumption DEF Init, Unit
  <1>3. Started = {}
    BY <1>2 DEF Started
  <1>4. MainInPhase
    BY <1>1 DEF MainInPhase
  <1>5. WorkersFollow
    BY <1>1, <1>2 DEF WorkersFollow
  <1>6. \A p \in Member : p = Main
    BY DEF Init, Member
  <1>7. \A p \in Proc : ~Starting(p)
    BY UnitAssumption DEF Init, Starting, Unit
  <1>. QED
    BY <1>3, <1>4, <1>5, <1>6, <1>7 DEF EpochInv, CycleEpoch

(* Steps that move nobody and change neither phases nor epochs.            *)
LEMMA EpochStill ==
  ASSUME EpochInv, UNCHANGED <<phase, lphase, epoch, arg, wstatus, listed, pc, seen>>
  PROVE  SameCycle
  BY DEF EpochInv, SameCycle, CycleEpoch, Due, WorkerDue, MainInPhase, WorkersFollow, EpochAck,
         Member, Starting, Started

(* The places a processor can go to with EpochInv none the wiser.          *)
Elsewhere == {"inherit", "setEpoch", "sweepAcquire", "workerStart", "init"}

(* Steps of one processor that change no epoch.                            *)
LEMMA EpochMove ==
  ASSUME Base, EpochInv, NEW p \in Proc, NEW l, Goto(p, l),
         UNCHANGED <<phase, epoch, arg, wstatus, listed>>,
         pc[p] \notin {"init", "inherit", "starting", "setEpoch", "sweepAcquire"},
         l \notin Elsewhere,
         \A x \in Proc \ {p} : lphase'[x] = lphase[x] /\ seen'[x] = seen[x],
         phase = "IDLE" => lphase'[p] = lphase[p],
         p = Main => /\ l = "local" => seen'[Main] = phase
                     /\ l \in {"markProcs", "markWorkers", "markGlobal"} => phase = "ASYNC"
                     /\ l \in {"poll", "advance"} => EpochAck
  PROVE  SameCycle
  <1>1. pc'[p] = l /\ \A u \in Unit \ {p} : pc'[u] = pc[u]
    BY DEF Goto, Base, TypeOK, Unit
  <1>2. Member' = Member
    BY <1>1 DEF Member, Base, TypeOK, Unit, Elsewhere
  <1>3. \A x \in Proc : Due(x)' = Due(x)
    BY <1>1 DEF Due, Elsewhere, Unit
  <1>4. pc'[Main] = "sweepAcquire" <=> pc[Main] = "sweepAcquire"
    BY <1>1, ProcAssumption DEF Elsewhere, Unit
  <1>5. Started' = Started /\ \A w \in Worker : WorkerDue(w)' = WorkerDue(w)
    BY <1>4 DEF Started, WorkerDue
  <1>6. CycleEpoch' = CycleEpoch
    BY <1>3, ProcAssumption DEF CycleEpoch
  <1>7. MainInPhase'
    BY <1>1, ProcAssumption DEF EpochInv, MainInPhase, Elsewhere, Unit
  <1>8. WorkersFollow'
    <2>1. \A w \in Worker : pc'[w] = pc[w]
      BY <1>1, UnitAssumption DEF Unit
    <2>2. phase # "IDLE" \/ pc'[Main] \in {"poll", "advance"} => EpochAck
      BY <1>1, ProcAssumption DEF EpochInv, WorkersFollow, Unit
    <2>. QED
      BY <2>1, <2>2 DEF EpochInv, WorkersFollow, EpochAck
  <1>9. \A x \in Proc : Starting(x)' => Starting(x)
    BY <1>1 DEF Starting, Elsewhere, Unit
  <1>10. Started \subseteq Worker /\ Member \subseteq Proc
    BY DEF Started, Member, Base, TypeOK
  <1>. QED
    BY <1>2, <1>3, <1>5, <1>6, <1>7, <1>8, <1>9, <1>10 DEF EpochInv, SameCycle

(* Steps of one collector thread, or of nobody, that change no epoch.      *)
LEMMA EpochWorkerMove ==
  ASSUME Base, EpochInv, NEW w \in Worker, NEW l, Goto(w, l),
         UNCHANGED <<phase, epoch, arg, wstatus, listed, lphase, seen>>,
         pc[w] \in {"sweep", "mark"}, l \in {"sync", "mark"}
  PROVE  SameCycle
  <1>1. pc'[w] = l /\ \A u \in Unit \ {w} : pc'[u] = pc[u]
    BY DEF Goto, Base, TypeOK, Unit
  <1>2. \A x \in Proc : pc'[x] = pc[x]
    BY <1>1, UnitAssumption DEF Unit
  <1>3. Member' = Member
    BY <1>2 DEF Member, Base, TypeOK
  <1>4. \A x \in Proc : Due(x)' = Due(x) /\ Starting(x)' = Starting(x)
    BY <1>2 DEF Due, Starting
  <1>5. Started' = Started /\ \A x \in Worker : WorkerDue(x)' = WorkerDue(x)
    BY <1>2, ProcAssumption DEF Started, WorkerDue
  <1>6. CycleEpoch' = CycleEpoch
    BY <1>4, ProcAssumption DEF CycleEpoch
  <1>7. MainInPhase'
    BY <1>2, ProcAssumption DEF EpochInv, MainInPhase
  <1>8. WorkersFollow'
    BY <1>1, <1>2, ProcAssumption DEF EpochInv, WorkersFollow, EpochAck, Unit
  <1>9. Started \subseteq Worker /\ Member \subseteq Proc
    BY DEF Started, Member, Base, TypeOK
  <1>. QED
    BY <1>3, <1>4, <1>5, <1>6, <1>7, <1>8, <1>9 DEF EpochInv, SameCycle

(* Requests and what mutators do.                                          *)
LEMMA EpochMutate ==
  ASSUME Base, EpochInv, NEW p \in Proc, Request(p) \/ Mutate(p)
  PROVE  SameCycle
  <1>1. CASE Request(p)
    BY <1>1, EpochStill DEF Request, GCTrigger, TimerTick, ScavengeRequest,
      slicevars, cyclevars, rtvars, workvars
  <1>2. ASSUME NEW o \in Obj,
               Load(p, o) \/ LoadRoot(p, o) \/ Drop(p, o) \/ GCRoot(p, o) \/ GCUnroot(p, o)
        PROVE  SameCycle
    BY <1>2, EpochStill DEF Load, LoadRoot, Drop, GCRoot, GCUnroot,
      slicevars, cyclevars, rtvars, workvars
  <1>3. ASSUME NEW o \in Obj, NEW v \in roots[p] \cup {Null}, Alloc(p, o, v) \/ StorePlain(p, o, v)
        PROVE  SameCycle
    BY <1>3, EpochStill DEF Alloc, StorePlain, slicevars, cyclevars, rtvars, workvars
  <1>4. ASSUME NEW o \in Obj, NEW v \in roots[p] \cup {Null}, StoreBegin(p, o, v)
        PROVE  SameCycle
    BY <1>4, EpochMove DEF StoreBegin, Elsewhere, slicevars, cyclevars, rtvars, workvars
  <1>5. CASE MarkBarrier(p)
    BY <1>5, EpochMove DEF MarkBarrier, Elsewhere, slicevars, cyclevars, rtvars, workvars
  <1>6. CASE StoreWrite(p)
    BY <1>6, EpochMove DEF StoreWrite, Elsewhere, slicevars, cyclevars, rtvars, workvars
  <1>. QED
    BY <1>1, <1>2, <1>3, <1>4, <1>5, <1>6 DEF Mutate

(* Marking and sweeping, by a processor or a collector thread.             *)
LEMMA EpochMarkSweep ==
  ASSUME Base, EpochInv, NEW u \in Unit, MarkSweep(u)
  PROVE  SameCycle
  <1>1. ASSUME NEW o \in Obj, Sweep(u, o) \/ MarkPop(u, o)
        PROVE  SameCycle
    BY <1>1, EpochStill DEF Sweep, MarkPop, slicevars, cyclevars, rtvars, workvars
  <1>2. CASE MarkField(u)
    BY <1>2, EpochStill DEF MarkField, slicevars, cyclevars, rtvars, workvars
  <1>3. CASE SweepDone(u) \/ MarkDone(u)
    <2>1. \E l \in {"mark", "sync", "join"} :
            Goto(u, l) /\ (u \in Worker => l # "join") /\ (u \notin Worker => l # "sync")
      BY <1>3 DEF SweepDone, MarkDone
    <2>2. /\ pc[u] \in {"sweep", "mark"}
          /\ UNCHANGED <<phase, epoch, arg, wstatus, listed, lphase, seen>>
      BY <1>3 DEF SweepDone, MarkDone, slicevars, cyclevars, rtvars, workvars
    <2>3. CASE u \in Worker
      BY <2>1, <2>2, <2>3, EpochWorkerMove
    <2>4. CASE u \in Proc
      BY <2>1, <2>2, <2>4, EpochMove DEF Elsewhere
    <2>. QED
      BY <2>3, <2>4 DEF Unit
  <1>. QED
    BY <1>1, <1>2, <1>3 DEF MarkSweep

(* gcWorkerSync: a thread that was told of the end of the mark phase takes *)
(* the new epoch.                                                          *)
LEMMA EpochWorkerSync ==
  ASSUME Base, EpochInv, CleanEnd, NEW w \in Worker, NEW B \in SUBSET Obj, WorkerSync(w, B)
  PROVE  SameCycle
  <1>1. /\ pc[w] = "sync" /\ wstatus[w] \in {"EPOCH", "RUN"}
        /\ UNCHANGED <<phase, lphase, arg, listed, seen>>
        /\ \E l \in {"sweep", "sync"}, s \in {"RUN", "WAIT"} :
             Goto(w, l) /\ wstatus' = [wstatus EXCEPT ![w] = s] /\ (s = "WAIT" => l = "sync")
        /\ epoch' = IF wstatus[w] = "EPOCH" THEN [epoch EXCEPT ![w] = NextEpoch(@)] ELSE epoch
    BY DEF WorkerSync, slicevars, cyclevars, rtvars
  <1>2. /\ pc'[w] \in {"sweep", "sync"} /\ wstatus'[w] \in {"RUN", "WAIT"}
        /\ wstatus'[w] = "WAIT" => pc'[w] = "sync"
        /\ \A u \in Unit \ {w} : pc'[u] = pc[u]
        /\ \A x \in Worker \ {w} : wstatus'[x] = wstatus[x]
    BY <1>1 DEF Goto, Base, TypeOK, Unit
  <1>3. w \in Unit /\ w \notin Proc
    BY UnitAssumption DEF Unit
  <1>4. /\ epoch'[w] = IF wstatus[w] = "EPOCH" THEN NextEpoch(epoch[w]) ELSE epoch[w]
        /\ \A u \in Unit \ {w} : epoch'[u] = epoch[u]
    BY <1>1, <1>3 DEF Base, TypeOK
  <1>5. \A x \in Proc : pc'[x] = pc[x] /\ epoch'[x] = epoch[x]
    BY <1>2, <1>3, <1>4 DEF Unit
  <1>6. Member' = Member
    BY <1>1, <1>5 DEF Member, Base, TypeOK
  <1>7. \A x \in Proc : Due(x)' = Due(x) /\ Starting(x)' = Starting(x)
    BY <1>1, <1>5 DEF Due, Starting
  <1>8. CycleEpoch' = CycleEpoch
    BY <1>7, ProcAssumption DEF CycleEpoch
  <1>9. w \in Started /\ pc[Main] # "sweepAcquire" /\ pc'[Main] # "sweepAcquire"
    BY <1>1, <1>5, ProcAssumption DEF Started, CleanEnd
  <1>10. Started' = Started
    BY <1>2, <1>9 DEF Started
  <1>11. \A x \in Worker : WorkerDue(x)' = WorkerDue(x)
    BY <1>1, <1>2, <1>4, <1>9, UnitAssumption DEF WorkerDue, Unit
  <1>12. MainInPhase'
    BY <1>1, <1>5, ProcAssumption DEF EpochInv, MainInPhase
  <1>13. WorkersFollow'
    BY <1>1, <1>2, <1>5, ProcAssumption DEF EpochInv, WorkersFollow, EpochAck, Unit
  <1>14. \A x \in Proc : Starting(x) => arg[x].from \in Proc
    BY DEF Base, LockstepInv, Handover, Starting
  <1>15. Started \subseteq Worker /\ Member \subseteq Proc
    BY DEF Started, Member, Base, TypeOK
  <1>. QED
    BY <1>1, <1>5, <1>6, <1>7, <1>8, <1>10, <1>11, <1>12, <1>13, <1>14, <1>15
    DEF EpochInv, SameCycle

(* chiProcessorService and the steps of chiGCControl that change no phase. *)
LEMMA EpochControl ==
  ASSUME Base, EpochInv, NEW p \in Proc,
         \/ Service(p)
         \/ p = Main /\ (Control \/ (\E q \in Proc : MarkDoneProc(q) \/ Poll(q))
                         \/ MarkDoneWorkers \/ MarkDoneGlobal)
  PROVE  SameCycle
  <1>1. CASE Service(p)
    BY <1>1, EpochMove DEF Service, Elsewhere, slicevars, cyclevars, rtvars, workvars
  <1>2. CASE p = Main /\ Control
    <2>1. PICK l \in {"markProcs", "slice", "poll"} :
            /\ Goto(Main, l)
            /\ l = "markProcs" => phase = "ASYNC"
            /\ l = "poll" => phase # "IDLE" \/ EpochAck
      BY <1>2 DEF Control
    <2>2. l = "poll" => EpochAck
      BY <2>1 DEF EpochInv, WorkersFollow
    <2>3. pc[Main] = "control" /\ UNCHANGED <<phase, epoch, arg, wstatus, listed, lphase, seen>>
      BY <1>2 DEF Control, slicevars, cyclevars, rtvars, workvars
    <2>. QED
      BY <1>2, <2>1, <2>2, <2>3, EpochMove DEF Elsewhere
  <1>3. ASSUME NEW q \in Proc, p = Main, MarkDoneProc(q)
        PROVE  SameCycle
    <2>1. PICK l \in {"slice", "markWorkers", "markProcs"} : Goto(Main, l)
      BY <1>3 DEF MarkDoneProc
    <2>2. /\ pc[Main] = "markProcs" /\ phase = "ASYNC"
          /\ UNCHANGED <<phase, epoch, arg, wstatus, listed, lphase, seen>>
      BY <1>3 DEF MarkDoneProc, EpochInv, MainInPhase, slicevars, cyclevars, rtvars, workvars
    <2>. QED
      BY <1>3, <2>1, <2>2, EpochMove DEF Elsewhere
  <1>4. ASSUME NEW q \in Proc, p = Main, Poll(q)
        PROVE  SameCycle
    <2>1. PICK l \in {"slice", "poll", "advance"} : Goto(Main, l)
      BY <1>4 DEF Poll
    <2>2. /\ pc[Main] = "poll" /\ EpochAck
          /\ UNCHANGED <<phase, epoch, arg, wstatus, listed, lphase, seen>>
      BY <1>4 DEF Poll, EpochInv, WorkersFollow, slicevars, cyclevars, rtvars, workvars
    <2>. QED
      BY <1>4, <2>1, <2>2, EpochMove DEF Elsewhere
  <1>5. CASE p = Main /\ (MarkDoneWorkers \/ MarkDoneGlobal)
    <2>1. PICK l \in {"slice", "markGlobal", "poll"} : Goto(Main, l)
      BY <1>5 DEF MarkDoneWorkers, MarkDoneGlobal
    <2>2. /\ pc[Main] \in {"markWorkers", "markGlobal"} /\ phase = "ASYNC" /\ EpochAck
          /\ UNCHANGED <<phase, epoch, arg, wstatus, listed, lphase, seen>>
      BY <1>5 DEF MarkDoneWorkers, MarkDoneGlobal, EpochInv, MainInPhase, WorkersFollow,
        slicevars, cyclevars, rtvars, workvars
    <2>. QED
      BY <1>5, <2>1, <2>2, EpochMove DEF Elsewhere
  <1>. QED
    BY <1>1, <1>2, <1>3, <1>4, <1>5

(* gcGlobalPhase: at the end of the mark phase everybody is due to take    *)
(* the next epoch; that is the one the next cycle has.                     *)
LEMMA EpochAdvance ==
  ASSUME Base, EpochInv, CleanEnd', Advance
  PROVE  /\ EpochInv'
         /\ CycleEpoch' = IF phase = "ASYNC" THEN NextEpoch(CycleEpoch) ELSE CycleEpoch
         /\ \A p \in Member : lphase[p] = phase /\ (pc[p] = "setEpoch" => phase = "IDLE")
         /\ phase \in Phase /\ phase' = Succ[phase]
  <1>1. /\ pc[Main] = "advance" /\ phase' = Succ[phase] /\ Goto(Main, AfterAdvance[phase])
        /\ UNCHANGED <<lphase, epoch, arg, wstatus, listed, seen>>
    BY DEF Advance, slicevars, rtvars, workvars
  <1>2. phase \in Phase /\ Main \in Unit /\ Main \in Member
    BY <1>1, ProcAssumption DEF Base, TypeOK, Unit, Member, LockstepInv, Listing
  <1>3. pc'[Main] = AfterAdvance[phase] /\ \A u \in Unit \ {Main} : pc'[u] = pc[u]
    BY <1>1, <1>2 DEF Goto, Base, TypeOK
  <1>4. AfterAdvance[phase] \in {"slice", "workerStart", "sweepAcquire"}
    BY <1>2 DEF AfterAdvance, Phase
  <1>5. \A p \in Proc : (pc'[p] = "inherit" <=> pc[p] = "inherit") /\ (Starting(p)' <=> Starting(p))
                        /\ (pc'[p] = "setEpoch" <=> pc[p] = "setEpoch")
    BY <1>1, <1>3, <1>4 DEF Starting, Unit
  <1>6. Member' = Member /\ Member \subseteq Proc
    BY <1>1, <1>5 DEF Member, Base, TypeOK
  <1>7. \A p \in Member : lphase[p] = phase
    BY <1>1 DEF Base, LockstepInv, Walk
  <1>8. \A p \in Member : pc[p] = "setEpoch" => phase = "IDLE"
    BY <1>7 DEF Base, BarrierInv
  <1>9. EpochAck
    BY <1>1 DEF EpochInv, WorkersFollow
  <1>10. \A p \in Member : Due(p)' = IF phase = "ASYNC" THEN NextEpoch(Due(p)) ELSE Due(p)
    BY <1>1, <1>2, <1>5, <1>6, <1>7, <1>8 DEF Due, Phase, Succ
  <1>11. CycleEpoch' = IF phase = "ASYNC" THEN NextEpoch(CycleEpoch) ELSE CycleEpoch
    BY <1>2, <1>10 DEF CycleEpoch
  <1>12. Started' = Started
    BY <1>1 DEF Started
  <1>13. pc'[Main] = "sweepAcquire" <=> phase = "ASYNC"
    BY <1>2, <1>3 DEF AfterAdvance, Phase
  <1>14. \A w \in Started : WorkerDue(w)' = IF phase = "ASYNC" THEN NextEpoch(WorkerDue(w)) ELSE WorkerDue(w)
    BY <1>1, <1>9, <1>13 DEF WorkerDue, EpochAck, Started
  <1>15. MainInPhase'
    BY <1>1, <1>2, <1>3, <1>7 DEF MainInPhase, AfterAdvance, Phase, Succ
  <1>16. WorkersFollow'
    <2>1. EpochAck'
      BY <1>1, <1>9 DEF EpochAck
    <2>2. \A w \in Worker : pc'[w] = pc[w]
      BY <1>3, ProcAssumption, UnitAssumption DEF Unit
    <2>. QED
      BY <1>1, <2>1, <2>2 DEF WorkersFollow, EpochInv
  <1>17. EpochInv'
    BY <1>1, <1>5, <1>6, <1>10, <1>11, <1>12, <1>14, <1>15, <1>16 DEF EpochInv
  <1>. QED
    BY <1>1, <1>2, <1>7, <1>8, <1>11, <1>17

(* gcWorkerStart: new threads get the epoch of the main processor.         *)
LEMMA EpochWorkerStart ==
  ASSUME Base, EpochInv, NEW W \in SUBSET Worker, WorkerStart(W)
  PROVE  SameCycle
  <1>1. /\ pc[Main] = "workerStart"
        /\ W = {} \/ Started = {}
        /\ wstatus' = [w \in Worker |-> IF w \in W THEN "WAIT" ELSE wstatus[w]]
        /\ epoch' = [u \in Unit |-> IF u \in W THEN epoch[Main] ELSE epoch[u]]
        /\ pc' = [u \in Unit |-> IF u \in W THEN "sync" ELSE IF u = Main THEN "slice" ELSE pc[u]]
        /\ UNCHANGED <<phase, lphase, arg, listed, seen>>
    BY DEF WorkerStart, slicevars, cyclevars, rtvars
  <1>2. phase = "ASYNC" /\ Main \in Unit /\ Main \notin Worker
    BY <1>1, ProcAssumption, UnitAssumption DEF EpochInv, MainInPhase, Unit
  <1>3. /\ \A p \in Proc : epoch'[p] = epoch[p] /\ (p # Main => pc'[p] = pc[p])
        /\ pc'[Main] = "slice"
    BY <1>1, <1>2, ProcAssumption, UnitAssumption DEF Unit
  <1>4. /\ \A w \in W : epoch'[w] = epoch[Main] /\ wstatus'[w] = "WAIT" /\ pc'[w] = "sync"
        /\ \A w \in Worker \ W : epoch'[w] = epoch[w] /\ wstatus'[w] = wstatus[w] /\ pc'[w] = pc[w]
    BY <1>1, <1>2 DEF Unit
  <1>5. Member' = Member /\ Member \subseteq Proc
    BY <1>1, <1>3 DEF Member, Base, TypeOK
  <1>6. \A x \in Proc : Due(x)' = Due(x) /\ Starting(x)' = Starting(x)
    BY <1>1, <1>3 DEF Due, Starting
  <1>7. CycleEpoch' = CycleEpoch /\ CycleEpoch = epoch[Main]
    BY <1>1, <1>2, <1>6, ProcAssumption DEF CycleEpoch, Due
  <1>8. \A w \in Started' : WorkerDue(w)' = CycleEpoch
    <2>. SUFFICES ASSUME NEW w \in Worker, wstatus'[w] # "none"
                  PROVE  WorkerDue(w)' = CycleEpoch
      BY DEF Started
    <2>1. CASE w \in W
      BY <1>3, <1>4, <1>7, <2>1 DEF WorkerDue
    <2>2. CASE w \notin W
      <3>1. w \in Started
        BY <1>4, <2>2 DEF Started
      <3>. QED
        BY <1>1, <1>3, <1>4, <2>2, <3>1 DEF WorkerDue, EpochInv
    <2>. QED
      BY <2>1, <2>2
  <1>9. MainInPhase'
    BY <1>3 DEF MainInPhase
  <1>10. WorkersFollow'
    BY <1>1, <1>2, <1>4 DEF EpochInv, WorkersFollow, EpochAck
  <1>11. \A x \in Proc : Starting(x) => arg[x].from \in Proc
    BY DEF Base, LockstepInv, Handover, Starting
  <1>. QED
    BY <1>1, <1>3, <1>5, <1>6, <1>7, <1>8, <1>9, <1>10, <1>11 DEF EpochInv, SameCycle

(* gcSweepAcquire: all collector threads wait, so all of them are told.    *)
LEMMA EpochSweepAcquire ==
  ASSUME Base, EpochInv, CleanEnd, SweepAcquire
  PROVE  SameCycle
  <1>1. /\ pc[Main] = "sweepAcquire" /\ wstatus' = Notified("EPOCH") /\ Goto(Main, "slice")
        /\ UNCHANGED <<phase, lphase, epoch, arg, listed, seen>>
    BY DEF SweepAcquire, slicevars, rtvars
  <1>2. phase = "IDLE" /\ lphase[Main] = "ASYNC" /\ Main \in Unit
    BY <1>1, ProcAssumption DEF EpochInv, MainInPhase, Unit
  <1>3. pc'[Main] = "slice" /\ \A u \in Unit \ {Main} : pc'[u] = pc[u]
    BY <1>1, <1>2 DEF Goto, Base, TypeOK
  <1>4. \A w \in Worker : /\ wstatus[w] = "none" \/ wstatus[w] = "WAIT"
                          /\ wstatus'[w] = IF wstatus[w] = "WAIT" THEN "EPOCH" ELSE "none"
    BY <1>1 DEF CleanEnd, Started, Notified, Base, TypeOK
  <1>5. Member' = Member /\ Member \subseteq Proc
    BY <1>1, <1>3 DEF Member, Base, TypeOK, Unit
  <1>6. \A x \in Proc : Due(x)' = Due(x) /\ Starting(x)' = Starting(x)
    BY <1>1, <1>3 DEF Due, Starting, Unit
  <1>7. CycleEpoch' = CycleEpoch
    BY <1>6, ProcAssumption DEF CycleEpoch
  <1>8. Started' = Started /\ \A w \in Started : WorkerDue(w)' = WorkerDue(w)
    BY <1>1, <1>4 DEF Started, WorkerDue
  <1>9. MainInPhase'
    BY <1>3 DEF MainInPhase
  <1>10. \A w \in Worker : pc'[w] = pc[w]
    BY <1>3, UnitAssumption, ProcAssumption DEF Unit
  <1>11. WorkersFollow'
    BY <1>1, <1>2, <1>3, <1>4, <1>10 DEF EpochInv, WorkersFollow
  <1>. QED
    BY <1>1, <1>5, <1>6, <1>7, <1>8, <1>9, <1>11 DEF EpochInv, SameCycle

(* The steps of chiGCSlice.                                                *)
LEMMA EpochSlice ==
  ASSUME Base, EpochInv, NEW p \in Proc, GCSlice(p)
  PROVE  SameCycle
  <1>1. CASE SliceRead(p)
    <2>1. /\ pc[p] = "slice" /\ Goto(p, "local") /\ seen'[p] = phase
          /\ \A x \in Proc \ {p} : seen'[x] = seen[x]
          /\ UNCHANGED <<phase, epoch, arg, wstatus, listed, lphase>>
      BY <1>1 DEF SliceRead, Base, TypeOK, cyclevars, rtvars, workvars
    <2>. QED
      BY <2>1, EpochMove DEF Elsewhere
  <1>2. CASE SliceLocal(p)
    <2>1. /\ pc[p] = "local" /\ p \in Proc /\ seen[p] \in Phase /\ p \in Member
          /\ UNCHANGED <<phase, epoch, arg, wstatus, listed, seen>>
      BY <1>2 DEF SliceLocal, Base, TypeOK, LockstepInv, Listing, Member, cyclevars, rtvars, workvars
    <2>2. /\ seen[p] = phase \/ lphase[p] = seen[p]
          /\ lphase \in [Proc -> Phase]
      BY <2>1 DEF Base, LockstepInv, Following, TypeOK
    <2>3. CASE seen[p] # "ASYNC" /\ lphase[p] = Pred[seen[p]]
      <3>1. seen[p] = phase /\ lphase[p] # seen[p] /\ lphase' = [lphase EXCEPT ![p] = phase]
        BY <1>2, <2>1, <2>2, <2>3 DEF SliceLocal, Phase, Pred
      <3>2. CASE phase = "IDLE"
        <4>1. /\ lphase[p] = "ASYNC" /\ lphase'[p] = "IDLE" /\ Goto(p, "setEpoch")
              /\ \A x \in Proc \ {p} : lphase'[x] = lphase[x]
          BY <1>2, <2>1, <2>2, <2>3, <3>1, <3>2 DEF SliceLocal, Pred
        <4>2. pc'[p] = "setEpoch" /\ \A u \in Unit \ {p} : pc'[u] = pc[u]
          BY <4>1 DEF Goto, Base, TypeOK, Unit
        <4>3. \A x \in Proc : Due(x)' = Due(x) /\ Starting(x)' = Starting(x)
          BY <2>1, <3>2, <4>1, <4>2 DEF Due, Starting, Unit
        <4>4. Member' = Member /\ Member \subseteq Proc /\ CycleEpoch' = CycleEpoch
          BY <2>1, <4>2, <4>3, ProcAssumption DEF Member, Base, TypeOK, CycleEpoch, Unit
        <4>5. pc'[Main] = "sweepAcquire" <=> pc[Main] = "sweepAcquire"
          BY <2>1, <4>2, ProcAssumption DEF Unit
        <4>6. Started' = Started /\ \A w \in Worker : WorkerDue(w)' = WorkerDue(w)
          BY <2>1, <4>5 DEF Started, WorkerDue
        <4>7. MainInPhase'
          BY <2>1, <3>2, <4>1, <4>2, ProcAssumption DEF EpochInv, MainInPhase, Unit
        <4>8. WorkersFollow'
          BY <2>1, <3>2, <4>2, ProcAssumption, UnitAssumption
          DEF EpochInv, WorkersFollow, EpochAck, Unit
        <4>9. Started \subseteq Worker
          BY DEF Started
        <4>. QED
          BY <2>1, <4>3, <4>4, <4>6, <4>7, <4>8, <4>9 DEF EpochInv, SameCycle
      <3>3. CASE phase # "IDLE"
        <4>1. PICK l \in {"setBarrier", "scavenge", "join"} : Goto(p, l)
          BY <1>2, <2>1, <2>3, <3>1, <3>3 DEF SliceLocal, AfterPhase, Phase
        <4>. QED
          BY <2>1, <2>2, <3>1, <3>3, <4>1, EpochMove DEF Elsewhere
      <3>. QED
        BY <3>2, <3>3
    <2>4. CASE ~(seen[p] # "ASYNC" /\ lphase[p] = Pred[seen[p]])
      <3>1. PICK l \in {"scavenge", "join"} : Goto(p, l)
        BY <1>2, <2>4 DEF SliceLocal, AfterPhase
      <3>2. lphase' = lphase
        BY <1>2, <2>4 DEF SliceLocal
      <3>. QED
        BY <2>1, <3>1, <3>2, EpochMove DEF Elsewhere
    <2>. QED
      BY <2>3, <2>4
  <1>3. CASE SetBarrier(p)
    BY <1>3, EpochMove DEF SetBarrier, AfterPhase, Elsewhere, cyclevars, rtvars, workvars
  <1>4. CASE SetEpoch(p)
    <2>1. PICK l \in {"scavenge", "join"} : Goto(p, l)
      BY <1>4 DEF SetEpoch, AfterPhase
    <2>2. /\ pc[p] = "setEpoch" /\ epoch' = [epoch EXCEPT ![p] = NextEpoch(@)]
          /\ UNCHANGED <<phase, lphase, arg, wstatus, listed, seen>>
      BY <1>4 DEF SetEpoch, cyclevars, rtvars, workvars
    <2>3. /\ pc'[p] = l /\ \A u \in Unit \ {p} : pc'[u] = pc[u]
          /\ epoch'[p] = NextEpoch(epoch[p]) /\ \A u \in Unit \ {p} : epoch'[u] = epoch[u]
      BY <2>1, <2>2 DEF Goto, Base, TypeOK, Unit
    <2>4. p \in Member /\ lphase[p] = "IDLE"
      BY <2>2 DEF Base, BarrierInv, LockstepInv, Listing, Member
    <2>5. \A x \in Proc : Due(x)' = Due(x) /\ Starting(x)' = Starting(x)
      BY <2>2, <2>3, <2>4 DEF Due, Starting, Unit
    <2>6. Member' = Member /\ Member \subseteq Proc /\ CycleEpoch' = CycleEpoch
      BY <2>2, <2>3, <2>5, ProcAssumption DEF Member, Base, TypeOK, CycleEpoch, Unit
    <2>7. pc'[Main] = "sweepAcquire" <=> pc[Main] = "sweepAcquire"
      BY <2>2, <2>3, ProcAssumption DEF Unit
    <2>8. Started' = Started /\ \A w \in Worker : WorkerDue(w)' = WorkerDue(w)
      BY <2>2, <2>3, <2>7, UnitAssumption DEF Started, WorkerDue, Unit
    <2>9. MainInPhase'
      BY <2>2, <2>3, ProcAssumption DEF EpochInv, MainInPhase, Unit
    <2>10. WorkersFollow'
      BY <2>2, <2>3, ProcAssumption, UnitAssumption DEF EpochInv, WorkersFollow, EpochAck, Unit
    <2>11. \A x \in Proc : Starting(x) => arg[x].from \in Proc /\ pc[arg[x].from] = "starting"
      BY DEF Base, LockstepInv, Handover, Starting
    <2>12. \A x \in Proc : Starting(x) => epoch'[arg[x].from] = epoch[arg[x].from]
      BY <2>2, <2>3, <2>11 DEF Unit
    <2>13. Started \subseteq Worker
      BY DEF Started
    <2>. QED
      BY <2>2, <2>5, <2>6, <2>8, <2>9, <2>10, <2>12, <2>13 DEF EpochInv, SameCycle
  <1>5. CASE Snapshot(p)
    BY <1>5, EpochMove DEF Snapshot, Elsewhere, cyclevars, rtvars, workvars
  <1>6. CASE SnapshotDone(p)
    <2>1. phase = "ASYNC"
      BY <1>6 DEF SnapshotDone, Base, LockstepInv, Following, Listing, Member
    <2>2. PICK l \in {"inc", "join"} : Goto(p, l)
      BY <1>6 DEF SnapshotDone, AfterScavenge
    <2>3. /\ pc[p] = "snapshot" /\ \A x \in Proc \ {p} : lphase'[x] = lphase[x]
          /\ UNCHANGED <<phase, epoch, arg, wstatus, listed, seen>>
      BY <1>6 DEF SnapshotDone, Base, TypeOK, cyclevars, rtvars, workvars
    <2>. QED
      BY <2>1, <2>2, <2>3, EpochMove DEF Elsewhere
  <1>7. CASE Scavenge(p)
    BY <1>7, EpochMove DEF Scavenge, AfterScavenge, Elsewhere, slicevars, cyclevars, rtvars, workvars
  <1>8. CASE IncSlice(p)
    BY <1>8, EpochMove DEF IncSlice, Elsewhere, slicevars, cyclevars, rtvars, workvars
  <1>9. CASE Join(p)
    <2>1. /\ pc[p] = "join" /\ Goto(p, "run")
          /\ UNCHANGED <<phase, epoch, arg, listed, lphase, seen>>
          /\ wstatus' = Notified("RUN") \/ wstatus' = wstatus
      BY <1>9 DEF Join, slicevars, cyclevars, rtvars
    <2>2. pc'[p] = "run" /\ \A u \in Unit \ {p} : pc'[u] = pc[u]
      BY <2>1 DEF Goto, Base, TypeOK, Unit
    <2>3. \A w \in Worker : wstatus'[w] = wstatus[w] \/ (wstatus[w] = "WAIT" /\ wstatus'[w] = "RUN")
      BY <2>1 DEF Notified
    <2>4. \A x \in Proc : Due(x)' = Due(x) /\ Starting(x)' = Starting(x)
      BY <2>1, <2>2 DEF Due, Starting, Unit
    <2>5. Member' = Member /\ Member \subseteq Proc /\ CycleEpoch' = CycleEpoch
      BY <2>1, <2>2, <2>4, ProcAssumption DEF Member, Base, TypeOK, CycleEpoch, Unit
    <2>6. pc'[Main] = "sweepAcquire" <=> pc[Main] = "sweepAcquire"
      BY <2>1, <2>2, ProcAssumption DEF Unit
    <2>7. Started' = Started /\ \A w \in Worker : WorkerDue(w)' = WorkerDue(w)
      BY <2>1, <2>3, <2>6 DEF Started, WorkerDue
    <2>8. MainInPhase'
      BY <2>1, <2>2, ProcAssumption DEF EpochInv, MainInPhase, Unit
    <2>9. WorkersFollow'
      BY <2>1, <2>2, <2>3, ProcAssumption, UnitAssumption
      DEF EpochInv, WorkersFollow, EpochAck, Unit
    <2>10. Started \subseteq Worker
      BY DEF Started
    <2>. QED
      BY <2>1, <2>4, <2>5, <2>7, <2>8, <2>9, <2>10 DEF EpochInv, SameCycle
  <1>. QED
    BY <1>1, <1>2, <1>3, <1>4, <1>5, <1>6, <1>7, <1>8, <1>9 DEF GCSlice

(* Starting and stopping processors.                                       *)
LEMMA EpochLifecycle ==
  ASSUME Base, EpochInv, NEW p \in Proc, Lifecycle(p)
  PROVE  SameCycle
  <1>0. /\ pc[Main] \notin {"off", "init", "inherit", "destroy", "unlist"}
        /\ Member \subseteq Proc /\ Started \subseteq Worker /\ Main \in Unit /\ Main \in Proc
        /\ \A x \in Proc : Starting(x) => arg[x].from \in Proc /\ pc[arg[x].from] = "starting"
        /\ \A x \in Member : x \notin Worker
    BY ProcAssumption, UnitAssumption
    DEF Base, LockstepInv, Listing, Handover, Starting, Member, TypeOK, Started, Unit
  <1>1. ASSUME NEW q \in Proc, NEW T, TryStart(q, p, T)
        PROVE  SameCycle
    <2>1. /\ pc[q] = "run" /\ pc[p] = "off"
          /\ pc' = [pc EXCEPT ![q] = "starting", ![p] = "init"]
          /\ arg' = [arg EXCEPT ![p] = [from |-> q, phase |-> lphase[q], barrier |-> barrier[q],
                                        epoch |-> epoch[q], alloc |-> allocColor[q]]]
          /\ UNCHANGED <<phase, lphase, epoch, wstatus, listed, seen>>
      BY <1>1 DEF TryStart, slicevars, cyclevars, workvars
    <2>2. /\ pc'[q] = "starting" /\ pc'[p] = "init" /\ \A u \in Unit \ {p, q} : pc'[u] = pc[u]
          /\ arg'[p].from = q /\ arg'[p].epoch = epoch[q] /\ \A x \in Proc \ {p} : arg'[x] = arg[x]
      BY <2>1 DEF Base, TypeOK, Unit
    <2>3. p \notin listed /\ p # Main
      BY <1>0, <2>1 DEF Base, LockstepInv, Listing
    <2>4. \A x \in Proc : Due(x)' = Due(x)
      BY <2>1, <2>2 DEF Due, Unit
    <2>5. Member' = Member /\ CycleEpoch' = CycleEpoch
      BY <1>0, <2>1, <2>2, <2>3, <2>4 DEF Member, Base, TypeOK, CycleEpoch, Unit
    <2>6. pc'[Main] \in {pc[Main], "starting"} /\ (pc'[Main] # pc[Main] => pc[Main] = "run")
      BY <1>0, <2>1, <2>2, <2>3
    <2>7. Started' = Started /\ \A w \in Worker : WorkerDue(w)' = WorkerDue(w)
      BY <2>1, <2>6 DEF Started, WorkerDue
    <2>8. MainInPhase'
      BY <2>1, <2>6 DEF EpochInv, MainInPhase
    <2>9. WorkersFollow'
      BY <2>1, <2>2, <2>6, UnitAssumption DEF EpochInv, WorkersFollow, EpochAck, Unit
    <2>10. \A x \in Proc : Starting(x)' => arg'[x].epoch = epoch[arg'[x].from]
      <3>1. \A x \in Proc \ {p} : Starting(x)' => Starting(x)
        BY <2>1, <2>2 DEF Starting, Unit
      <3>. QED
        BY <2>2, <3>1 DEF EpochInv
    <2>. QED
      BY <1>0, <2>1, <2>4, <2>5, <2>7, <2>8, <2>9, <2>10 DEF EpochInv, SameCycle
  <1>2. CASE InitProcessor(p)
    <2>1. /\ pc[p] = "init" /\ listed' = listed \cup {p} /\ Goto(p, "inherit")
          /\ lphase' = [lphase EXCEPT ![p] = "IDLE"] /\ epoch' = [epoch EXCEPT ![p] = 0]
          /\ UNCHANGED <<phase, arg, wstatus, seen>>
      BY <1>2 DEF InitProcessor, cyclevars, workvars
    <2>2. /\ pc'[p] = "inherit" /\ \A u \in Unit \ {p} : pc'[u] = pc[u]
          /\ \A u \in Unit \ {p} : epoch'[u] = epoch[u]
          /\ \A x \in Proc \ {p} : lphase'[x] = lphase[x]
      BY <2>1 DEF Goto, Base, TypeOK, Unit
    <2>3. p \notin listed /\ p # Main
      BY <1>0, <2>1 DEF Base, LockstepInv, Listing
    <2>4. \A x \in Proc \ {p} : Due(x)' = Due(x)
      BY <2>1, <2>2 DEF Due, Unit
    <2>5. Member' = Member /\ p \notin Member /\ CycleEpoch' = CycleEpoch
      BY <1>0, <2>1, <2>2, <2>3, <2>4 DEF Member, Base, TypeOK, CycleEpoch, Unit
    <2>6. pc'[Main] = pc[Main]
      BY <1>0, <2>2, <2>3
    <2>7. Started' = Started /\ \A w \in Worker : WorkerDue(w)' = WorkerDue(w)
      BY <2>1, <2>2, <2>6, UnitAssumption DEF Started, WorkerDue, Unit
    <2>8. MainInPhase'
      BY <1>0, <2>1, <2>2, <2>3, <2>6 DEF EpochInv, MainInPhase
    <2>9. WorkersFollow'
      BY <2>1, <2>2, <2>6, UnitAssumption DEF EpochInv, WorkersFollow, EpochAck, Unit
    <2>10. \A x \in Proc : Starting(x)' => arg'[x].epoch = epoch'[arg'[x].from]
      <3>1. \A x \in Proc : Starting(x)' => Starting(x)
        BY <2>1, <2>2 DEF Starting, Unit
      <3>2. \A x \in Proc : Starting(x) => arg[x].from \in Unit \ {p}
        BY <1>0, <2>1 DEF Unit
      <3>. QED
        BY <2>1, <2>2, <3>1, <3>2 DEF EpochInv
    <2>. QED
      BY <1>0, <2>1, <2>4, <2>5, <2>7, <2>8, <2>9, <2>10 DEF EpochInv, SameCycle
  <1>3. CASE Inherit(p)
    <2>1. /\ pc[p] = "inherit" /\ pc' = [pc EXCEPT ![p] = "run", ![arg[p].from] = "run"]
          /\ lphase' = [lphase EXCEPT ![p] = arg[p].phase]
          /\ epoch' = [epoch EXCEPT ![p] = arg[p].epoch]
          /\ arg' = [arg EXCEPT ![p] = NoArg]
          /\ UNCHANGED <<phase, wstatus, listed, seen>>
      BY <1>3 DEF Inherit, cyclevars, workvars
    <2>. DEFINE q == arg[p].from
    <2>2. q \in Proc /\ pc[q] = "starting" /\ q # p /\ p # Main /\ q \in Member
      BY <1>0, <2>1 DEF Starting, Base, LockstepInv, Listing, Member
    <2>3. /\ pc'[p] = "run" /\ pc'[q] = "run" /\ \A u \in Unit \ {p, q} : pc'[u] = pc[u]
          /\ epoch'[p] = arg[p].epoch /\ \A u \in Unit \ {p} : epoch'[u] = epoch[u]
          /\ lphase'[p] = arg[p].phase /\ \A x \in Proc \ {p} : lphase'[x] = lphase[x]
          /\ \A x \in Proc \ {p} : arg'[x] = arg[x]
      BY <2>1, <2>2 DEF Base, TypeOK, Unit
    <2>4. arg[p].epoch = epoch[q] /\ arg[p].phase = lphase[q]
      BY <2>1 DEF EpochInv, Starting, Base, LockstepInv, Handover
    <2>. HIDE DEF q
    <2>5. \A x \in Proc \ {p} : Due(x)' = Due(x)
      <3>1. \A x \in Proc \ {p} : pc'[x] = "setEpoch" <=> pc[x] = "setEpoch"
        BY <2>2, <2>3 DEF Unit
      <3>2. \A x \in Proc \ {p} : lphase'[x] = lphase[x] /\ epoch'[x] = epoch[x]
        BY <2>3 DEF Unit
      <3>3. phase' = phase
        BY <2>1
      <3>. QED
        BY <3>1, <3>2, <3>3 DEF Due
    <2>6. Due(p)' = Due(q)
      BY <2>1, <2>2, <2>3, <2>4 DEF Due
    <2>7. CycleEpoch' = CycleEpoch
      BY <1>0, <2>2, <2>5 DEF CycleEpoch
    <2>8. Member' \subseteq Member \cup {p}
      BY <1>0, <2>1, <2>2, <2>3 DEF Member, Base, TypeOK, Unit
    <2>9. pc'[Main] \in {pc[Main], "run"} /\ (pc'[Main] # pc[Main] => pc[Main] = "starting")
      BY <1>0, <2>2, <2>3
    <2>10. Started' = Started /\ \A w \in Worker : WorkerDue(w)' = WorkerDue(w)
      BY <2>1, <2>2, <2>3, <2>9, UnitAssumption DEF Started, WorkerDue, Unit
    <2>11. MainInPhase'
      BY <1>0, <2>1, <2>2, <2>3, <2>9 DEF EpochInv, MainInPhase
    <2>12. WorkersFollow'
      BY <2>1, <2>2, <2>3, <2>9, UnitAssumption DEF EpochInv, WorkersFollow, EpochAck, Unit
    <2>13. \A x \in Proc : Starting(x)' => arg'[x].epoch = epoch'[arg'[x].from]
      <3>1. \A x \in Proc : Starting(x)' => Starting(x) /\ x # p
        BY <2>2, <2>3 DEF Starting, Unit
      <3>2. \A x \in Proc : Starting(x) => arg[x].from \in Unit \ {p}
        BY <1>0, <2>1 DEF Unit
      <3>. QED
        BY <2>3, <3>1, <3>2 DEF EpochInv
    <2>14. \A x \in Member' : Due(x)' = CycleEpoch
      BY <1>0, <2>2, <2>5, <2>6, <2>8 DEF EpochInv
    <2>. QED
      BY <1>0, <2>1, <2>7, <2>10, <2>11, <2>12, <2>13, <2>14 DEF EpochInv, SameCycle
  <1>4. CASE Stop(p) \/ LocalGCDestroy(p)
    BY <1>4, EpochMove DEF Stop, LocalGCDestroy, Elsewhere, slicevars, cyclevars, rtvars, workvars
  <1>5. CASE Unlist(p)
    <2>1. /\ pc[p] = "unlist" /\ listed' = listed \ {p} /\ Goto(p, "off")
          /\ UNCHANGED <<phase, lphase, epoch, arg, wstatus, seen>>
      BY <1>5 DEF Unlist, slicevars, cyclevars, workvars
    <2>2. p # Main /\ pc'[p] = "off" /\ \A u \in Unit \ {p} : pc'[u] = pc[u]
      BY <1>0, <2>1 DEF Goto, Base, TypeOK, Unit
    <2>3. \A x \in Proc : Due(x)' = Due(x)
      BY <2>1, <2>2 DEF Due, Unit
    <2>4. Member' \subseteq Member /\ CycleEpoch' = CycleEpoch
      BY <1>0, <2>1, <2>2, <2>3 DEF Member, Base, TypeOK, CycleEpoch, Unit
    <2>5. pc'[Main] = pc[Main]
      BY <1>0, <2>2
    <2>6. Started' = Started /\ \A w \in Worker : WorkerDue(w)' = WorkerDue(w)
      BY <2>1, <2>5 DEF Started, WorkerDue
    <2>7. MainInPhase'
      BY <2>1, <2>5 DEF EpochInv, MainInPhase
    <2>8. WorkersFollow'
      BY <2>1, <2>2, <2>5, UnitAssumption DEF EpochInv, WorkersFollow, EpochAck, Unit
    <2>9. \A x \in Proc : Starting(x)' => Starting(x)
      BY <2>1, <2>2 DEF Starting, Unit
    <2>. QED
      BY <1>0, <2>1, <2>3, <2>4, <2>6, <2>7, <2>8, <2>9 DEF EpochInv, SameCycle
  <1>. QED
    BY <1>1, <1>2, <1>3, <1>4, <1>5 DEF Lifecycle

(* All steps.                                                              *)
LEMMA EpochNext ==
  ASSUME Base, EpochInv, CleanEnd, CleanEnd', [Next]_vars
  PROVE  /\ EpochInv'
         /\ Advance \/ CycleEpoch' = CycleEpoch
  <1>1. CASE UNCHANGED vars
    BY <1>1, EpochStill DEF SameCycle, vars, slicevars, cyclevars, rtvars, workvars
  <1>2. ASSUME NEW p \in Proc, Request(p) \/ Mutate(p)
        PROVE  SameCycle
    BY <1>2, EpochMutate
  <1>3. ASSUME NEW p \in Proc, Lifecycle(p)
        PROVE  SameCycle
    BY <1>3, EpochLifecycle
  <1>4. ASSUME NEW p \in Proc, GCSlice(p)
        PROVE  SameCycle
    BY <1>4, EpochSlice
  <1>5. ASSUME NEW u \in Unit, MarkSweep(u)
        PROVE  SameCycle
    BY <1>5, EpochMarkSweep
  <1>6. ASSUME NEW p \in Proc, Service(p)
        PROVE  SameCycle
    BY <1>6, EpochControl
  <1>7. ASSUME GCControl
        PROVE  SameCycle \/ (Advance /\ EpochInv')
    <2>1. CASE Control \/ (\E q \in Proc : MarkDoneProc(q) \/ Poll(q)) \/ MarkDoneWorkers \/ MarkDoneGlobal
      BY <2>1, EpochControl, ProcAssumption
    <2>2. CASE Advance
      BY <2>2, EpochAdvance
    <2>3. ASSUME NEW W \in SUBSET Worker, WorkerStart(W)
          PROVE  SameCycle
      BY <2>3, EpochWorkerStart
    <2>4. CASE SweepAcquire
      BY <2>4, EpochSweepAcquire
    <2>. QED
      BY <1>7, <2>1, <2>2, <2>3, <2>4 DEF GCControl
  <1>8. ASSUME NEW w \in Worker, NEW B \in SUBSET Obj, WorkerSync(w, B)
        PROVE  SameCycle
    BY <1>8, EpochWorkerSync
  <1>. QED
    BY <1>1, <1>2, <1>3, <1>4, <1>5, <1>6, <1>7, <1>8 DEF Next, Serve, GCWorker, Unit, SameCycle

(* EpochInv holds in every execution in which no mark phase ends while a   *)
(* collector thread is at work.                                            *)
THEOREM EpochInvariant == Spec /\ []CleanEnd => []EpochInv
  <1>1. Init => EpochInv
    BY EpochInit
  <1>2. TypeOK /\ LockstepInv /\ BarrierInv /\ EpochInv /\ CleanEnd /\ CleanEnd' /\ [Next]_vars => EpochInv'
    BY EpochNext DEF Base
  <1>. QED
    BY <1>1, <1>2, TypeCorrect, LockstepInvariant, BarrierInvariant, PTL DEF Spec

(* During a cycle all mark states have one epoch (markStateEpoch of gc.c,  *)
(* gcWorkerSync): a colour means the same to every mutator, marker and     *)
(* sweeper, however processors and threads come and go.                    *)
THEOREM EpochsAgree == Spec /\ []CleanEnd => []EpochAgreement
  <1>1. TypeOK /\ LockstepInv /\ EpochInv => EpochAgreement
    <2>. SUFFICES ASSUME TypeOK, LockstepInv, EpochInv, phase # "IDLE",
                         NEW u \in Settled \cup Started
                  PROVE  epoch[u] = epoch[Main]
      BY DEF EpochAgreement
    <2>1. CycleEpoch = epoch[Main] /\ pc[Main] # "sweepAcquire"
      BY DEF CycleEpoch, Due, EpochInv, MainInPhase
    <2>2. CASE u \in Settled
      BY <2>1, <2>2 DEF Settled, EpochInv, Due
    <2>3. CASE u \in Started
      BY <2>1, <2>3 DEF Started, EpochInv, WorkersFollow, WorkerDue, EpochAck
    <2>. QED
      BY <2>2, <2>3
  <1>. QED
    BY <1>1, TypeCorrect, LockstepInvariant, EpochInvariant, PTL

-----------------------------------------------------------------------------
(* Colours and epochs.                                                     *)

(* Neighbouring epochs differ, and there are three of them.                *)
LEMMA EpochNeighbours ==
  ASSUME NEW e \in Epoch
  PROVE  NextEpoch(e) \in Epoch /\ NextEpoch(e) # e /\ NextEpoch(NextEpoch(e)) # e
  BY EpochModAssumption DEF Epoch, NextEpoch

(* The colours of a mark state are different; what is black in one cycle   *)
(* is white in the next.                                                   *)
LEMMA ColorsDiffer ==
  ASSUME NEW e \in Epoch
  PROVE  /\ White(e) # Gray(e) /\ White(e) # Black(e) /\ Gray(e) # Black(e)
         /\ Black(e) = White(NextEpoch(e))
         /\ White(e) # Free /\ Gray(e) # Free /\ Black(e) # Free
         /\ Gray(e).shaded /\ ~White(e).shaded /\ ~Black(e).shaded
         /\ White(e) \in Color /\ Gray(e) \in Color /\ Black(e) \in Color
  <1>1. White(e) \in Color /\ Gray(e) \in Color /\ Black(e) \in Color
    BY ColorType
  <1>2. White(e) # Free /\ Gray(e) # Free /\ Black(e) # Free
    BY <1>1, HeapAssumption
  <1>3. White(e) # Gray(e) /\ White(e) # Black(e) /\ Gray(e) # Black(e)
    BY EpochNeighbours DEF White, Gray, Black
  <1>. QED
    BY <1>1, <1>2, <1>3 DEF White, Gray, Black

(* What is alive by its colour is no garbage, neither for a sweeper of the *)
(* same epoch nor, where it is white, for one of the epoch before.         *)
LEMMA NoGarbage ==
  ASSUME NEW e \in Epoch
  PROVE  /\ ~Garbage(White(e), e) /\ ~Garbage(Gray(e), e) /\ ~Garbage(Black(e), e)
         /\ ~Garbage(White(NextEpoch(e)), e)
  BY DEF Garbage, White, Gray, Black

(* The epoch of the cycle is an epoch.                                     *)
LEMMA CycleEpochType == TypeOK => CycleEpoch \in Epoch
  BY ProcAssumption, NextEpochType DEF TypeOK, CycleEpoch, Due, Unit

(* Whoever takes part in the handshake: its epoch, and its barrier while   *)
(* it runs compiled code.                                                  *)
LEMMA MemberEpoch ==
  ASSUME Base, EpochInv, NEW p \in Member
  PROVE  /\ p \in Proc /\ p \in Unit /\ epoch[p] \in Epoch
         /\ phase \in Phase /\ lphase[p] \in {phase, Pred[phase]}
         /\ phase # "IDLE" /\ pc[p] # "setEpoch" => epoch[p] = CycleEpoch
         /\ phase = "IDLE" /\ lphase[p] = "ASYNC" => NextEpoch(epoch[p]) = CycleEpoch
         /\ phase = "IDLE" /\ lphase[p] # "ASYNC" /\ pc[p] # "setEpoch" => epoch[p] = CycleEpoch
         /\ pc[p] \notin {"setBarrier", "setEpoch", "snapshot"} => barrier[p] = BarrierOf[lphase[p]]
  <1>1. p \in Proc /\ p \in Unit /\ epoch[p] \in Epoch /\ phase \in Phase
    BY DEF Member, Base, TypeOK, Unit
  <1>2. lphase[p] \in {phase, Pred[phase]}
    BY DEF Base, LockstepInv, Following
  <1>3. Due(p) = CycleEpoch
    BY DEF EpochInv
  <1>4. pc[p] \notin {"setBarrier", "setEpoch", "snapshot"} => barrier[p] = BarrierOf[lphase[p]]
    BY DEF Base, BarrierInv
  <1>. QED
    BY <1>1, <1>2, <1>3, <1>4 DEF Due

(* A processor that is somewhere in compiled code or the service routine   *)
(* takes part in the handshake.                                            *)
LEMMA ListedMember ==
  ASSUME Base, NEW p \in Proc, pc[p] \notin {"off", "init", "inherit"}
  PROVE  p \in Member
  BY DEF Base, LockstepInv, Listing, Member

(* Whoever marks has the epoch of the cycle; whoever sweeps has it too, or *)
(* has not yet followed the end of the mark phase.                         *)
LEMMA MarkerEpoch ==
  ASSUME Base, EpochInv, CleanEnd, GrayInv, NEW u \in Unit, pc[u] \in {"sweep", "mark"}
  PROVE  /\ epoch[u] \in Epoch
         /\ epoch[u] = CycleEpoch \/ (phase = "IDLE" /\ NextEpoch(epoch[u]) = CycleEpoch)
         /\ pc[u] = "mark" => epoch[u] = CycleEpoch /\ phase = "ASYNC"
  <1>1. epoch[u] \in Epoch
    BY DEF Base, TypeOK
  <1>2. pc[u] = "mark" => phase = "ASYNC"
    BY DEF GrayInv
  <1>3. CASE u \in Proc
    BY <1>1, <1>2, <1>3, ListedMember, MemberEpoch
  <1>4. CASE u \in Worker
    <2>1. wstatus[u] = "RUN"
      BY <1>4 DEF EpochInv, WorkersFollow, Base, TypeOK
    <2>2. u \in Started /\ pc[Main] # "sweepAcquire"
      BY <1>4, <2>1 DEF Started, CleanEnd
    <2>3. epoch[u] = CycleEpoch
      BY <2>1, <2>2 DEF EpochInv, WorkerDue
    <2>. QED
      BY <1>1, <1>2, <2>3
  <1>. QED
    BY <1>3, <1>4 DEF Unit

-----------------------------------------------------------------------------
(* What is alive.                                                          *)

(* What is held is alive, and so is what it refers to.                     *)
LEMMA LiveClosed ==
  ASSUME TypeOK
  PROVE  /\ Live \subseteq Obj /\ Held \subseteq Live
         /\ \A o \in Live : field[o] \in Live \cup {Null}
         /\ groots \subseteq Live
         /\ \A p \in Proc : roots[p] \subseteq Holds(p) /\ Holds(p) \subseteq Live
  <1>1. \A p \in Proc : Holds(p) \subseteq Obj
    BY DEF TypeOK, Holds
  <1>2. Held \subseteq Obj
    BY <1>1 DEF Held, TypeOK
  <1>3. Live \subseteq Obj /\ Held \subseteq Live
    BY <1>2 DEF Live, ReachableFrom
  <1>4. ASSUME NEW o \in Live
        PROVE  field[o] \in Live \cup {Null}
    <2>. SUFFICES ASSUME field[o] # Null, NEW T \in SUBSET Obj, Held \subseteq T, Closed(T)
                  PROVE  field[o] \in T
      BY <1>3 DEF Live, ReachableFrom, TypeOK
    <2>1. o \in T
      BY DEF Live, ReachableFrom
    <2>. QED
      BY <2>1 DEF Closed
  <1>5. \A p \in Proc : roots[p] \subseteq Holds(p) /\ Holds(p) \subseteq Held
    BY DEF Holds, Held
  <1>. QED
    BY <1>3, <1>4, <1>5 DEF Held

(* What is alive is in every closed set of what is held.                   *)
LEMMA LiveWithin ==
  ASSUME NEW T \in SUBSET Obj, groots' \subseteq T, \A p \in Proc : Holds(p)' \subseteq T,
         \A o \in T : field'[o] \in T \cup {Null}
  PROVE  Live' \subseteq T
  BY DEF Live, ReachableFrom, Closed, Held

(* Nothing comes to life by what is held by somebody else.                 *)
LEMMA LiveKept ==
  ASSUME TypeOK, field' = field, groots' \subseteq Live, \A p \in Proc : Holds(p)' \subseteq Live
  PROVE  Live' \subseteq Live
  BY LiveClosed, LiveWithin

-----------------------------------------------------------------------------
(* What the cycle keeps.                                                   *)

(* Kept is the least set that is closed under what the cycle still does.   *)
LEMMA KeptIsClosed ==
  ASSUME TypeOK
  PROVE  Kept \subseteq Obj /\ KeptClosed(Kept)
  <1>1. Kept \subseteq Obj
    BY DEF Kept
  <1>2. \A o \in Obj : color[o] # White(CycleEpoch) => o \in Kept
    BY DEF Kept, KeptClosed
  <1>3. Awaited \subseteq Kept
    BY DEF Kept, KeptClosed, Awaited, TypeOK
  <1>4. ASSUME NEW o \in Obj, o \in GrayNow \/ (o \in Kept /\ color[o] = White(CycleEpoch)),
               Steady(o), field[o] # Null
        PROVE  field[o] \in Kept
    <2>. SUFFICES ASSUME NEW T \in SUBSET Obj, KeptClosed(T)
                  PROVE  field[o] \in T
      BY <1>4 DEF Kept, TypeOK
    <2>1. o \in GrayNow \/ (o \in T /\ color[o] = White(CycleEpoch))
      BY <1>4 DEF Kept
    <2>. QED
      BY <1>4, <2>1 DEF KeptClosed
  <1>. QED
    BY <1>1, <1>2, <1>3, <1>4 DEF KeptClosed

(* So whatever is closed in this way has all of it.                        *)
LEMMA KeptLeast ==
  ASSUME NEW T \in SUBSET Obj, KeptClosed(T)
  PROVE  Kept \subseteq T
  BY DEF Kept

(* Nothing that is alive and kept leads out of what is kept: the step from *)
(* the objects that are marked to all that can be loaded from them.        *)
LEMMA KeptLoad ==
  ASSUME TypeOK, ColorsInv, GrayInv, KeptInv, phase = "ASYNC", NEW o \in Live, o \in Kept
  PROVE  field[o] \in Kept \cup {Null}
  <1>0. o \in Obj /\ CycleEpoch \in Epoch
    BY CycleEpochType DEF Kept
  <1>1. CASE ~Steady(o)
    BY <1>0, <1>1 DEF KeptInv
  <1>2. CASE Steady(o) /\ (o \in GrayNow \/ color[o] = White(CycleEpoch))
    BY <1>0, <1>2, KeptIsClosed DEF KeptClosed
  <1>3. CASE o \notin GrayNow /\ color[o] # White(CycleEpoch)
    <2>1. color[o] \in {Gray(CycleEpoch), Black(CycleEpoch)}
      BY <1>3 DEF ColorsInv, LiveColors
    <2>2. color[o] # Gray(CycleEpoch)
      BY <1>0, <1>3, ColorsDiffer DEF GrayInv, GrayNow
    <2>. QED
      BY <1>3, <2>1, <2>2 DEF KeptInv
  <1>. QED
    BY <1>1, <1>2, <1>3

(* The same, of the state after a step.                                    *)
LEMMA KeptIsClosedNext ==
  (TypeOK => /\ Kept \subseteq Obj
             /\ \A o \in Obj : color[o] # White(CycleEpoch) => o \in Kept
             /\ Awaited \subseteq Kept
             /\ \A o \in Obj : /\ o \in GrayNow \/ (o \in Kept /\ color[o] = White(CycleEpoch))
                               /\ Steady(o)
                               => field[o] \in Kept \cup {Null})'
  <1>1. TypeOK => /\ Kept \subseteq Obj
                  /\ \A o \in Obj : color[o] # White(CycleEpoch) => o \in Kept
                  /\ Awaited \subseteq Kept
                  /\ \A o \in Obj : /\ o \in GrayNow \/ (o \in Kept /\ color[o] = White(CycleEpoch))
                                    /\ Steady(o)
                                    => field[o] \in Kept \cup {Null}
    BY KeptIsClosed DEF KeptClosed
  <1>. QED
    BY <1>1, PTL

(* A step loses nothing that is kept if what is marked stays marked (but   *)
(* for new objects D), the fields on the way to a white object are left    *)
(* alone, and what is no longer gray has been dealt with.                  *)
LEMMA KeptGrows ==
  ASSUME TypeOK, TypeOK', CycleEpoch' = CycleEpoch, NEW D \in SUBSET Obj,
         \A o \in Obj : color[o] # White(CycleEpoch) => color'[o] # White(CycleEpoch) \/ o \in D,
         \A o \in D : color[o] # White(CycleEpoch) /\ o \notin GrayNow,
         \A o \in Awaited : o \in Awaited' \/ color'[o] # White(CycleEpoch),
         \A o \in Obj : color[o] = White(CycleEpoch) /\ color'[o] # White(CycleEpoch) => o \in GrayNow',
         \A o \in Obj : /\ o \in GrayNow \/ color[o] = White(CycleEpoch)
                        /\ Steady(o) /\ field[o] # Null /\ color'[field[o]] = White(CycleEpoch)
                        => Steady(o)' /\ field'[o] = field[o] /\ (o \in GrayNow => o \in GrayNow')
  PROVE  Kept \subseteq Kept' \cup D
  <1>. DEFINE K == Kept'
  <1>1. K \subseteq Obj
    BY KeptIsClosedNext
  <1>3. \A o \in Obj : color'[o] # White(CycleEpoch) => o \in K
    BY KeptIsClosedNext
  <1>4. Awaited' \subseteq K
    BY KeptIsClosedNext
  <1>5. \A o \in Obj : (o \in GrayNow' \/ (o \in K /\ color'[o] = White(CycleEpoch))) /\ Steady(o)'
                       => field'[o] \in K \cup {Null}
    BY KeptIsClosedNext
  <1>. HIDE DEF K
  <1>. SUFFICES KeptClosed(K \cup D)
    BY <1>1, KeptLeast DEF K
  <1>6. \A o \in Obj : color[o] # White(CycleEpoch) => o \in K \cup D
    BY <1>3
  <1>7. Awaited \subseteq K \cup D
    BY <1>3, <1>4 DEF Awaited, TypeOK
  <1>8. ASSUME NEW o \in Obj, o \in GrayNow \/ (o \in K \cup D /\ color[o] = White(CycleEpoch)),
               Steady(o), field[o] # Null
        PROVE  field[o] \in K
    <2>1. field[o] \in Obj
      BY <1>8 DEF TypeOK
    <2>2. CASE color'[field[o]] # White(CycleEpoch)
      BY <1>3, <2>1, <2>2
    <2>3. CASE color'[field[o]] = White(CycleEpoch)
      <3>1. Steady(o)' /\ field'[o] = field[o]
        BY <1>8, <2>3
      <3>2. o \in GrayNow' \/ (o \in K /\ color'[o] = White(CycleEpoch))
        BY <1>8, <2>3
      <3>. QED
        BY <1>5, <1>8, <3>1, <3>2
    <2>. QED
      BY <2>2, <2>3
  <1>. QED
    BY <1>6, <1>7, <1>8 DEF KeptClosed

(* So KeptInv goes on to hold, when nobody comes to hold, no scanned       *)
(* object to refer to and no field about to be overwritten to contain what *)
(* is not kept.                                                            *)
LEMMA KeptCarry ==
  ASSUME TypeOK, TypeOK', KeptInv, StoreInv, phase = "ASYNC", NEW D \in SUBSET Obj,
         Kept \subseteq Kept' \cup D, D \cap Live = {},
         \A p \in Proc : Taken(p)' => \/ Holds(p)' \subseteq Kept'
                                      \/ Taken(p) /\ Holds(p)' \subseteq Holds(p),
         barrier'[Main] = "ASYNC" => \/ groots' \subseteq Kept'
                                     \/ barrier[Main] = "ASYNC" /\ groots' \subseteq groots,
         \A o \in Live' : color'[o] = Black(CycleEpoch') /\ o \notin GrayNow' =>
           \/ field'[o] \in Kept' \cup {Null}
           \/ o \in Live /\ color[o] = Black(CycleEpoch) /\ o \notin GrayNow /\ field'[o] = field[o],
         \A o \in Obj : ~Steady(o)' => \/ field'[o] \in Kept' \cup {Null}
                                       \/ ~Steady(o) /\ field'[o] = field[o]
  PROVE  KeptInv'
  <1>. DEFINE K == Kept'
  <1>1. \A v \in Live : v \in Kept => v \in K
    OBVIOUS
  <1>2. /\ \A p \in Proc : Taken(p) => Holds(p) \subseteq Kept
        /\ barrier[Main] = "ASYNC" => groots \subseteq Kept
        /\ \A o \in Live : color[o] = Black(CycleEpoch) /\ o \notin GrayNow => field[o] \in Kept \cup {Null}
        /\ \A o \in Obj : ~Steady(o) => field[o] \in Kept \cup {Null}
    BY DEF KeptInv
  <1>3. /\ groots \subseteq Live
        /\ \A p \in Proc : roots[p] \subseteq Holds(p) /\ Holds(p) \subseteq Live
        /\ \A o \in Live : field[o] \in Live \cup {Null}
    BY LiveClosed
  <1>4. \A o \in Obj : ~Steady(o) => o \in Live
    <2>. SUFFICES ASSUME NEW o \in Obj, NEW p \in Proc, store[p].obj = o
                  PROVE  o \in Live
      BY DEF Steady
    <2>1. o # Null
      BY HeapAssumption
    <2>. QED
      BY <1>3, <2>1 DEF StoreInv, NoStore
  <1>. HIDE DEF K
  <1>5. \A p \in Proc : Taken(p)' => Holds(p)' \subseteq K
    BY <1>1, <1>2, <1>3 DEF K
  <1>6. barrier'[Main] = "ASYNC" => groots' \subseteq K
    BY <1>1, <1>2, <1>3 DEF K
  <1>7. \A o \in Live' : color'[o] = Black(CycleEpoch') /\ o \notin GrayNow' => field'[o] \in K \cup {Null}
    <2>. SUFFICES ASSUME NEW o \in Live', color'[o] = Black(CycleEpoch'), o \notin GrayNow',
                         o \in Live, color[o] = Black(CycleEpoch), o \notin GrayNow, field'[o] = field[o]
                  PROVE  field'[o] \in K \cup {Null}
      BY DEF K
    <2>1. field[o] \in Kept \cup {Null} /\ field[o] \in Live \cup {Null}
      BY <1>2, <1>3
    <2>. QED
      BY <1>1, <2>1
  <1>8. \A o \in Obj : ~Steady(o)' => field'[o] \in K \cup {Null}
    <2>. SUFFICES ASSUME NEW o \in Obj, ~Steady(o), field'[o] = field[o]
                  PROVE  field'[o] \in K \cup {Null}
      BY DEF K
    <2>1. field[o] \in Kept \cup {Null} /\ field[o] \in Live \cup {Null}
      BY <1>2, <1>3, <1>4
    <2>. QED
      BY <1>1, <2>1
  <1>. QED
    BY <1>5, <1>6, <1>7, <1>8 DEF KeptInv, K

(* The same for steps that allocate nothing.                               *)
LEMMA KeptStays ==
  ASSUME TypeOK, TypeOK', KeptInv, StoreInv, phase = "ASYNC", Kept \subseteq Kept',
         \A p \in Proc : Taken(p)' => \/ Holds(p)' \subseteq Kept'
                                      \/ Taken(p) /\ Holds(p)' \subseteq Holds(p),
         barrier'[Main] = "ASYNC" => \/ groots' \subseteq Kept'
                                     \/ barrier[Main] = "ASYNC" /\ groots' \subseteq groots,
         \A o \in Live' : color'[o] = Black(CycleEpoch') /\ o \notin GrayNow' =>
           \/ field'[o] \in Kept' \cup {Null}
           \/ o \in Live /\ color[o] = Black(CycleEpoch) /\ o \notin GrayNow /\ field'[o] = field[o],
         \A o \in Obj : ~Steady(o)' => \/ field'[o] \in Kept' \cup {Null}
                                       \/ ~Steady(o) /\ field'[o] = field[o]
  PROVE  KeptInv'
  <1>. DEFINE D == {}
  <1>1. D \in SUBSET Obj /\ D \cap Live = {} /\ Kept \subseteq Kept' \cup D
    OBVIOUS
  <1>. HIDE DEF D
  <1>. QED
    BY <1>1, KeptCarry

-----------------------------------------------------------------------------
(* Steps that leave the heap alone.                                        *)

(* All that is invariant.                                                  *)
Safe == Base /\ EpochInv /\ CleanEnd /\ HeapInv

(* The gray objects may change hands.                                      *)
Regrouped ==
  LET Owner == Unit \cup {Global}
  IN  /\ \A u, v \in Owner : u # v => gray'[u] \cap gray'[v] = {}
      /\ \A u \in Owner : \A o \in gray'[u] : \E v \in Owner : o \in gray[v]
      /\ \A u \in Owner : \A o \in gray[u] : \E v \in Owner : o \in gray'[v]

(* Vectors that are joined, in part or as a whole, still are disjoint.     *)
LEMMA RegroupMove ==
  ASSUME TypeOK, GrayInv, NEW a \in Unit \cup {Global}, NEW b \in Unit \cup {Global}, a # b,
         NEW B, B \subseteq gray[b],
         gray' = [gray EXCEPT ![a] = @ \cup B, ![b] = @ \ B]
  PROVE  Regrouped
  <1>1. /\ gray'[a] = gray[a] \cup B /\ gray'[b] = gray[b] \ B
        /\ \A u \in Unit \cup {Global} : u # a /\ u # b => gray'[u] = gray[u]
    BY DEF TypeOK
  <1>2. \A u, v \in Unit \cup {Global} : u # v => gray[u] \cap gray[v] = {}
    BY DEF GrayInv
  <1>3. \A u, v \in Unit \cup {Global} : u # v => gray'[u] \cap gray'[v] = {}
    <2>. SUFFICES ASSUME NEW u \in Unit \cup {Global}, NEW v \in Unit \cup {Global}, u # v,
                         NEW o, o \in gray'[u], o \in gray'[v]
                  PROVE  FALSE
      OBVIOUS
    <2>1. CASE o \in B
      BY <1>1, <1>2, <2>1
    <2>2. CASE o \notin B
      BY <1>1, <1>2, <2>2
    <2>. QED
      BY <2>1, <2>2
  <1>4. \A u \in Unit \cup {Global} : \A o \in gray'[u] : \E v \in Unit \cup {Global} : o \in gray[v]
    BY <1>1
  <1>5. \A u \in Unit \cup {Global} : \A o \in gray[u] : \E v \in Unit \cup {Global} : o \in gray'[v]
    BY <1>1
  <1>. QED
    BY <1>3, <1>4, <1>5 DEF Regrouped

(* Nobody is taken out of a write, or into a mark or an epoch at the wrong *)
(* time.                                                                   *)
PlacesOK ==
  /\ \A p \in Proc :
       /\ pc[p] \in {"barrier", "write"} \/ pc'[p] \in {"barrier", "write"} =>
            pc'[p] = pc[p] /\ lphase'[p] = lphase[p] /\ barrier'[p] = barrier[p] /\ roots'[p] = roots[p]
       /\ pc'[p] \in {"off", "unlist"} => roots'[p] = {}
       /\ pc'[p] = "setEpoch" => (pc[p] = "setEpoch" /\ gray'[p] = gray[p]) \/ phase = "IDLE"
  /\ \A u \in Unit : /\ scan[u] # Null => pc'[u] = pc[u]
                     /\ pc'[u] = "mark" => pc[u] = "mark" \/ phase = "ASYNC"

(* HeapInv goes on to hold when the roots that are new are alive, and, in  *)
(* the mark phase, kept.                                                   *)
LEMMA HeapFrame ==
  ASSUME Safe, TypeOK', UNCHANGED <<color, field, store, scan, phase>>, CycleEpoch' = CycleEpoch,
         gray' = gray \/ Regrouped, PlacesOK, AllocInv',
         groots' \subseteq Live, \A p \in Proc : roots'[p] \subseteq Live,
         phase = "ASYNC" => /\ barrier'[Main] = barrier[Main]
                            /\ groots' # groots => barrier[Main] = "ASYNC"
                            /\ barrier[Main] = "ASYNC" => groots' \subseteq Kept
                            /\ \A p \in Proc : Taken(p)' => Holds(p)' \subseteq Kept
  PROVE  HeapInv'
  <1>0. /\ TypeOK /\ ColorsInv /\ GrayInv /\ StoreInv /\ OverwriteInv /\ KeptInv
        /\ Main \in Unit /\ UNCHANGED <<color, field, store, scan, phase>> /\ CycleEpoch' = CycleEpoch
    BY ProcAssumption DEF Safe, Base, HeapInv, Unit
  <1>1. \A p \in Proc : Holds(p)' \subseteq roots'[p] \cup Holds(p)
    BY <1>0 DEF Holds
  <1>2. Live' \subseteq Live
    <2>1. \A p \in Proc : Holds(p)' \subseteq Live
      BY <1>0, <1>1, LiveClosed
    <2>. QED
      BY <1>0, <2>1, LiveKept
  <1>3. ColorsInv'
    BY <1>0, <1>2 DEF ColorsInv, LiveColors
  <1>4. Regrouped
    BY <1>0 DEF Regrouped, GrayInv
  <1>5. GrayNow' = GrayNow
    BY <1>0, <1>4 DEF GrayNow, Regrouped
  <1>6. GrayInv'
    <2>1. \A u \in Unit \cup {Global} : \A o \in gray'[u] : color[o] = Gray(CycleEpoch)
      BY <1>0, <1>4 DEF Regrouped, GrayInv
    <2>2. \A o \in Obj : color[o] # Free /\ color[o].shaded => \E u \in Unit \cup {Global} : o \in gray'[u]
      BY <1>0, <1>4 DEF Regrouped, GrayInv
    <2>3. phase = "IDLE" => \A u \in Unit \cup {Global} : gray'[u] = {}
      BY <1>0, <1>4 DEF Regrouped, GrayInv
    <2>4. \A p \in Proc : pc'[p] = "setEpoch" => gray'[p] = {}
      BY <1>0, <2>3 DEF GrayInv, Unit, PlacesOK
    <2>5. \A u \in Unit : scan[u] # Null => pc'[u] = "mark" /\ color[scan[u]] = Black(CycleEpoch)
      BY <1>0 DEF GrayInv, PlacesOK
    <2>6. \A u \in Unit : pc'[u] = "mark" => phase = "ASYNC"
      BY <1>0 DEF GrayInv, PlacesOK
    <2>7. \A u, v \in Unit \cup {Global} : u # v => gray'[u] \cap gray'[v] = {}
      BY <1>4 DEF Regrouped
    <2>. QED
      BY <1>0, <2>1, <2>2, <2>3, <2>4, <2>5, <2>6, <2>7 DEF GrayInv
  <1>8. StoreInv'
    BY <1>0 DEF StoreInv, Marked, PlacesOK
  <1>9. OverwriteInv'
    <2>. SUFFICES ASSUME phase = "SYNC2", NEW p \in Proc, store[p].obj # Null, lphase'[p] = "SYNC2",
                         store[p].old # field[store[p].obj]
                  PROVE  Marked(field[store[p].obj])
      BY <1>0 DEF OverwriteInv, Marked
    <2>1. lphase[p] = "SYNC2"
      BY <1>0 DEF StoreInv, NoStore, PlacesOK
    <2>. QED
      BY <1>0, <2>1 DEF OverwriteInv
  <1>10. KeptInv'
    <2>. SUFFICES ASSUME phase = "ASYNC" PROVE KeptInv'
      BY <1>0 DEF KeptInv
    <2>1. \A o \in Obj : Steady(o)' <=> Steady(o)
      BY <1>0 DEF Steady
    <2>2. Awaited' = Awaited
      BY <1>0 DEF Awaited
    <2>3. Kept \subseteq Kept' \cup {}
      BY <1>0, <1>5, <2>1, <2>2, KeptGrows
    <2>4. \A p \in Proc : Taken(p)' => Holds(p)' \subseteq Kept'
      BY <2>3
    <2>5. barrier'[Main] = "ASYNC" => groots' \subseteq Kept'
      BY <2>3
    <2>6. \A o \in Live' : color'[o] = Black(CycleEpoch') /\ o \notin GrayNow' =>
            o \in Live /\ color[o] = Black(CycleEpoch) /\ o \notin GrayNow /\ field'[o] = field[o]
      BY <1>0, <1>2, <1>5
    <2>7. \A o \in Obj : ~Steady(o)' => ~Steady(o) /\ field'[o] = field[o]
      BY <1>0, <2>1
    <2>. QED
      BY <1>0, <2>3, <2>4, <2>5, <2>6, <2>7, KeptStays
  <1>. QED
    BY <1>3, <1>6, <1>8, <1>9, <1>10 DEF HeapInv

(* Allocation colours are left alone.                                      *)
LEMMA AllocSame ==
  ASSUME AllocInv, UNCHANGED <<allocColor, arg, phase>>, CycleEpoch' = CycleEpoch,
         Member' \subseteq Member, \A p \in Proc : Starting(p)' => Starting(p),
         phase = "ASYNC" => barrier' = barrier
  PROVE  AllocInv'
  <1>1. \A p \in Member' :
          allocColor[p] = IF phase = "ASYNC" /\ barrier'[p] = "ASYNC" THEN Black(CycleEpoch)
                          ELSE White(CycleEpoch)
    BY DEF AllocInv
  <1>. QED
    BY <1>1 DEF AllocInv

(* What does not change at all in most of the service routine.             *)
HeapSame ==
  /\ UNCHANGED <<color, field, groots, roots, store, scan, allocColor, phase, arg>>
  /\ CycleEpoch' = CycleEpoch
  /\ listed' \subseteq listed

(* Steps of one processor or collector thread in the service routine.      *)
LEMMA HeapMove ==
  ASSUME Safe, TypeOK', HeapSame, gray' = gray \/ Regrouped,
         NEW u \in Unit, NEW l, Goto(u, l),
         pc[u] \notin {"barrier", "write", "off", "init", "inherit"},
         l \notin {"barrier", "write", "init", "inherit", "unlist"},
         l = "off" => pc[u] = "unlist",
         l = "setEpoch" => phase = "IDLE",
         l = "mark" => phase = "ASYNC",
         pc[u] = "mark" => scan[u] = Null,
         \A x \in Proc \ {u} : lphase'[x] = lphase[x] /\ barrier'[x] = barrier[x],
         \A x \in Proc \ {u} : pc[x] = "setEpoch" => gray'[x] = gray[x],
         phase = "ASYNC" => barrier' = barrier
  PROVE  HeapInv'
  <1>0. /\ TypeOK /\ GrayInv /\ AllocInv /\ StoreInv /\ KeptInv /\ Main \in Proc
        /\ UNCHANGED <<color, field, groots, roots, store, scan, allocColor, phase, arg>>
        /\ CycleEpoch' = CycleEpoch /\ listed' \subseteq listed
    BY ProcAssumption DEF Safe, Base, HeapInv, HeapSame
  <1>1. pc'[u] = l /\ \A x \in Unit \ {u} : pc'[x] = pc[x]
    BY <1>0 DEF Goto, TypeOK
  <1>2. \A p \in Proc : pc'[p] = "inherit" <=> pc[p] = "inherit"
    BY <1>1 DEF Unit
  <1>3. Member' \subseteq Member
    BY <1>0, <1>2 DEF Member, TypeOK
  <1>4. \A p \in Proc : Starting(p)' <=> Starting(p)
    BY <1>1 DEF Starting, Unit
  <1>5. AllocInv'
    BY <1>0, <1>3, <1>4, AllocSame
  <1>6. PlacesOK
    <2>1. \A p \in Proc :
            pc[p] \in {"barrier", "write"} \/ pc'[p] \in {"barrier", "write"} =>
              pc'[p] = pc[p] /\ lphase'[p] = lphase[p] /\ barrier'[p] = barrier[p] /\ roots'[p] = roots[p]
      BY <1>0, <1>1 DEF Unit
    <2>2. \A p \in Proc : pc'[p] \in {"off", "unlist"} => roots'[p] = {}
      <3>1. \A p \in Proc : pc'[p] \in {"off", "unlist"} => pc[p] \in {"off", "unlist"}
        BY <1>1 DEF Unit
      <3>. QED
        BY <1>0, <3>1 DEF StoreInv
    <2>3. \A p \in Proc : pc'[p] = "setEpoch" => (pc[p] = "setEpoch" /\ gray'[p] = gray[p]) \/ phase = "IDLE"
      BY <1>1 DEF Unit
    <2>4. \A x \in Unit : scan[x] # Null => pc'[x] = pc[x]
      BY <1>0, <1>1 DEF GrayInv
    <2>5. \A x \in Unit : pc'[x] = "mark" => pc[x] = "mark" \/ phase = "ASYNC"
      BY <1>1
    <2>. QED
      BY <2>1, <2>2, <2>3, <2>4, <2>5 DEF PlacesOK
  <1>7. groots' \subseteq Live /\ \A p \in Proc : roots'[p] \subseteq Live
    BY <1>0, LiveClosed
  <1>8. ASSUME phase = "ASYNC"
        PROVE  /\ barrier'[Main] = barrier[Main]
               /\ groots' # groots => barrier[Main] = "ASYNC"
               /\ barrier[Main] = "ASYNC" => groots' \subseteq Kept
               /\ \A p \in Proc : Taken(p)' => Holds(p)' \subseteq Kept
    <2>1. \A p \in Proc : (Taken(p)' <=> Taken(p)) /\ Holds(p)' = Holds(p)
      BY <1>0, <1>4, <1>8 DEF Taken, Holds
    <2>. QED
      BY <1>0, <1>8, <2>1 DEF KeptInv
  <1>. QED
    BY <1>0, <1>5, <1>6, <1>7, <1>8, HeapFrame

(* Steps that change nothing HeapInv speaks of.                            *)
LEMMA HeapStill ==
  ASSUME HeapInv, UNCHANGED <<color, field, groots, roots, store, scan, allocColor, phase, arg,
                              pc, gray, barrier, lphase, epoch, listed>>
  PROVE  HeapInv'
  <1>0. CycleEpoch' = CycleEpoch /\ Member' = Member /\ GrayNow' = GrayNow /\ Awaited' = Awaited
    BY DEF CycleEpoch, Due, Member, GrayNow, Awaited
  <1>1. /\ \A p \in Proc : Holds(p)' = Holds(p) /\ (Starting(p)' <=> Starting(p)) /\ (Taken(p)' <=> Taken(p))
        /\ \A o \in Obj : Steady(o)' <=> Steady(o)
    BY DEF Holds, Starting, Taken, Steady
  <1>2. Held' = Held
    BY <1>1 DEF Held
  <1>3. Live' = Live
    BY <1>2 DEF Live, ReachableFrom, Closed
  <1>4. Kept' = Kept
    BY <1>0, <1>1 DEF Kept, KeptClosed
  <1>5. ColorsInv'
    BY <1>0, <1>3 DEF HeapInv, ColorsInv, LiveColors
  <1>6. GrayInv' /\ StoreInv'
    BY <1>0 DEF HeapInv, GrayInv, StoreInv, Marked
  <1>7. AllocInv'
    BY <1>0, <1>1 DEF HeapInv, AllocInv
  <1>8. OverwriteInv'
    BY <1>0 DEF HeapInv, OverwriteInv, Marked
  <1>9. KeptInv'
    BY <1>0, <1>1, <1>3, <1>4 DEF HeapInv, KeptInv
  <1>. QED
    BY <1>5, <1>6, <1>7, <1>8, <1>9 DEF HeapInv

-----------------------------------------------------------------------------
(* The service routine.                                                    *)

(* Requests, chiProcessorService and chiGCControl, while it does not       *)
(* change the phase.                                                       *)
LEMMA HeapControl ==
  ASSUME Safe, TypeOK', NEW p \in Proc,
         \/ Request(p) \/ Service(p)
         \/ Control \/ (\E q \in Proc : MarkDoneProc(q) \/ Poll(q)) \/ MarkDoneWorkers \/ MarkDoneGlobal
         \/ SweepAcquire
  PROVE  HeapInv'
  <1>0. Base /\ EpochInv /\ HeapInv /\ Main \in Proc /\ Main \in Unit /\ p \in Unit
    BY ProcAssumption DEF Safe, Unit
  <1>1. CASE Request(p)
    BY <1>0, <1>1, HeapStill DEF Request, GCTrigger, TimerTick, ScavengeRequest,
      slicevars, cyclevars, rtvars, heapvars, workvars
  <1>2. CASE Service(p)
    <2>1. CycleEpoch' = CycleEpoch
      BY <1>0, <1>2, EpochControl DEF SameCycle
    <2>2. PICK l \in {"control", "slice"} : Goto(p, l)
      BY <1>2 DEF Service
    <2>3. HeapSame /\ gray' = gray /\ pc[p] = "run" /\ UNCHANGED <<lphase, barrier>>
      BY <1>2, <2>1 DEF Service, HeapSame, slicevars, cyclevars, rtvars, heapvars, workvars
    <2>. QED
      BY <1>0, <2>2, <2>3, HeapMove
  <1>3. CASE Control
    <2>1. CycleEpoch' = CycleEpoch
      BY <1>0, <1>3, EpochControl DEF SameCycle
    <2>2. PICK l \in {"markProcs", "slice", "poll"} : Goto(Main, l)
      BY <1>3 DEF Control
    <2>3. HeapSame /\ gray' = gray /\ pc[Main] = "control" /\ UNCHANGED <<lphase, barrier>>
      BY <1>3, <2>1 DEF Control, HeapSame, slicevars, cyclevars, rtvars, heapvars, workvars
    <2>. QED
      BY <1>0, <2>2, <2>3, HeapMove
  <1>4. ASSUME NEW q \in Proc, MarkDoneProc(q)
        PROVE  HeapInv'
    <2>1. CycleEpoch' = CycleEpoch
      BY <1>0, <1>4, EpochControl DEF SameCycle
    <2>2. PICK l \in {"slice", "markWorkers", "markProcs"} : Goto(Main, l)
      BY <1>4 DEF MarkDoneProc
    <2>3. HeapSame /\ gray' = gray /\ pc[Main] = "markProcs" /\ UNCHANGED <<lphase, barrier>>
      BY <1>4, <2>1 DEF MarkDoneProc, HeapSame, slicevars, cyclevars, rtvars, heapvars, workvars
    <2>. QED
      BY <1>0, <2>2, <2>3, HeapMove
  <1>5. ASSUME NEW q \in Proc, Poll(q)
        PROVE  HeapInv'
    <2>1. CycleEpoch' = CycleEpoch
      BY <1>0, <1>5, EpochControl DEF SameCycle
    <2>2. PICK l \in {"slice", "poll", "advance"} : Goto(Main, l)
      BY <1>5 DEF Poll
    <2>3. HeapSame /\ gray' = gray /\ pc[Main] = "poll" /\ UNCHANGED <<lphase, barrier>>
      BY <1>5, <2>1 DEF Poll, HeapSame, slicevars, cyclevars, rtvars, heapvars, workvars
    <2>. QED
      BY <1>0, <2>2, <2>3, HeapMove
  <1>6. CASE MarkDoneWorkers \/ MarkDoneGlobal
    <2>1. CycleEpoch' = CycleEpoch
      BY <1>0, <1>6, EpochControl DEF SameCycle
    <2>2. PICK l \in {"slice", "markGlobal", "poll"} : Goto(Main, l)
      BY <1>6 DEF MarkDoneWorkers, MarkDoneGlobal
    <2>3. /\ HeapSame /\ gray' = gray /\ pc[Main] \in {"markWorkers", "markGlobal"}
          /\ UNCHANGED <<lphase, barrier>>
      BY <1>6, <2>1 DEF MarkDoneWorkers, MarkDoneGlobal, HeapSame,
        slicevars, cyclevars, rtvars, heapvars, workvars
    <2>. QED
      BY <1>0, <2>2, <2>3, HeapMove
  <1>7. CASE SweepAcquire
    <2>1. CycleEpoch' = CycleEpoch
      BY <1>0, <1>7, EpochSweepAcquire DEF SameCycle, Safe
    <2>2. Goto(Main, "slice")
      BY <1>7 DEF SweepAcquire
    <2>3. HeapSame /\ gray' = gray /\ pc[Main] = "sweepAcquire" /\ UNCHANGED <<lphase, barrier>>
      BY <1>7, <2>1 DEF SweepAcquire, HeapSame, slicevars, rtvars, heapvars
    <2>. QED
      BY <1>0, <2>2, <2>3, HeapMove
  <1>. QED
    BY <1>1, <1>2, <1>3, <1>4, <1>5, <1>6, <1>7

(* chiGCSlice, but for the snapshot.                                       *)
LEMMA HeapSlice ==
  ASSUME Safe, TypeOK', NEW p \in Proc,
         \/ SliceRead(p) \/ SliceLocal(p) \/ SetBarrier(p) \/ SetEpoch(p)
         \/ SnapshotDone(p) \/ Scavenge(p) \/ IncSlice(p) \/ Join(p)
  PROVE  HeapInv'
  <1>0. /\ Base /\ EpochInv /\ HeapInv /\ GrayInv /\ TypeOK /\ Main \in Proc /\ p \in Unit
        /\ Global \notin Proc
    BY ProcAssumption, UnitAssumption DEF Safe, Unit, HeapInv, Base
  <1>1. GCSlice(p)
    BY DEF GCSlice
  <1>2. CycleEpoch' = CycleEpoch
    BY <1>0, <1>1, EpochSlice DEF SameCycle
  <1>3. CASE SliceRead(p)
    <2>1. Goto(p, "local")
      BY <1>3 DEF SliceRead
    <2>2. HeapSame /\ gray' = gray /\ pc[p] = "slice" /\ UNCHANGED <<lphase, barrier>>
      BY <1>2, <1>3 DEF SliceRead, HeapSame, cyclevars, rtvars, heapvars, workvars
    <2>. QED
      BY <1>0, <2>1, <2>2, HeapMove
  <1>4. CASE SliceLocal(p)
    <2>1. p \in Member
      BY <1>0, <1>4, ListedMember DEF SliceLocal
    <2>2. PICK l \in {"setBarrier", "setEpoch", "scavenge", "join"} :
            Goto(p, l) /\ (l = "setEpoch" => seen[p] = "IDLE" /\ lphase[p] = "ASYNC")
      BY <1>0, <1>4 DEF SliceLocal, AfterPhase, TypeOK, Phase, Pred
    <2>3. l = "setEpoch" => phase = "IDLE"
      BY <1>0, <1>4, <2>1, <2>2 DEF SliceLocal, Base, LockstepInv, Following
    <2>4. /\ HeapSame /\ gray' = gray /\ pc[p] = "local" /\ barrier' = barrier
          /\ \A x \in Proc \ {p} : lphase'[x] = lphase[x]
      BY <1>0, <1>2, <1>4 DEF SliceLocal, TypeOK, HeapSame, cyclevars, rtvars, heapvars, workvars
    <2>. QED
      BY <1>0, <2>2, <2>3, <2>4, HeapMove
  <1>5. CASE SetBarrier(p) \/ SetEpoch(p)
    <2>1. p \in Member
      BY <1>0, <1>5, ListedMember DEF SetBarrier, SetEpoch
    <2>2. PICK l \in {"scavenge", "join"} : Goto(p, l)
      BY <1>5 DEF SetBarrier, SetEpoch, AfterPhase
    <2>3. /\ HeapSame /\ gray' = gray /\ pc[p] \in {"setBarrier", "setEpoch"} /\ lphase' = lphase
          /\ \A x \in Proc \ {p} : barrier'[x] = barrier[x]
      BY <1>0, <1>2, <1>5
      DEF SetBarrier, SetEpoch, TypeOK, HeapSame, cyclevars, rtvars, heapvars, workvars
    <2>4. phase # "ASYNC"
      BY <1>0, <2>1, <2>3 DEF Base, BarrierInv, LockstepInv, Following, Pred
    <2>. QED
      BY <1>0, <2>2, <2>3, <2>4, HeapMove
  <1>6. CASE SnapshotDone(p)
    <2>1. PICK l \in {"inc", "join"} : Goto(p, l)
      BY <1>6 DEF SnapshotDone, AfterScavenge
    <2>2. /\ HeapSame /\ gray' = gray /\ pc[p] = "snapshot" /\ barrier' = barrier
          /\ \A x \in Proc \ {p} : lphase'[x] = lphase[x]
      BY <1>0, <1>2, <1>6 DEF SnapshotDone, TypeOK, HeapSame, cyclevars, rtvars, heapvars, workvars
    <2>. QED
      BY <1>0, <2>1, <2>2, HeapMove
  <1>7. CASE Scavenge(p)
    <2>1. PICK l \in {"inc", "join"} : Goto(p, l)
      BY <1>7 DEF Scavenge, AfterScavenge
    <2>2. HeapSame /\ gray' = gray /\ pc[p] = "scavenge" /\ UNCHANGED <<lphase, barrier>>
      BY <1>2, <1>7 DEF Scavenge, HeapSame, slicevars, cyclevars, rtvars, heapvars, workvars
    <2>. QED
      BY <1>0, <2>1, <2>2, HeapMove
  <1>8. CASE IncSlice(p)
    <2>1. HeapSame /\ pc[p] = "inc" /\ UNCHANGED <<lphase, barrier>> /\ Goto(p, "sweep")
      BY <1>2, <1>8 DEF IncSlice, HeapSame, slicevars, cyclevars, rtvars, heapvars, workvars
    <2>2. gray' = gray \/ gray' = [gray EXCEPT ![p] = @ \cup gray[Global], ![Global] = @ \ gray[Global]]
      BY <1>8 DEF IncSlice
    <2>3. gray' = gray \/ Regrouped
      BY <1>0, <2>2, RegroupMove
    <2>4. \A x \in Proc \ {p} : gray'[x] = gray[x]
      BY <1>0, <2>2 DEF TypeOK, Unit
    <2>. QED
      BY <1>0, <2>1, <2>3, <2>4, HeapMove
  <1>9. CASE Join(p)
    <2>1. HeapSame /\ pc[p] = "join" /\ UNCHANGED <<lphase, barrier>> /\ Goto(p, "run")
      BY <1>2, <1>9 DEF Join, HeapSame, slicevars, cyclevars, rtvars, heapvars
    <2>2. gray' = gray \/ gray' = [gray EXCEPT ![Global] = @ \cup gray[p], ![p] = @ \ gray[p]]
      BY <1>9 DEF Join
    <2>3. gray' = gray \/ Regrouped
      BY <1>0, <2>2, RegroupMove
    <2>4. \A x \in Proc \ {p} : gray'[x] = gray[x]
      BY <1>0, <2>2 DEF TypeOK, Unit
    <2>. QED
      BY <1>0, <2>1, <2>3, <2>4, HeapMove
  <1>. QED
    BY <1>3, <1>4, <1>5, <1>6, <1>7, <1>8, <1>9

(* The end of a sweep or mark slice, and gcWorkerSync.                     *)
LEMMA HeapSweepDone ==
  ASSUME Safe, TypeOK', NEW u \in Unit, SweepDone(u) \/ MarkDone(u)
  PROVE  HeapInv'
  <1>0. Base /\ EpochInv
    BY DEF Safe
  <1>1. MarkSweep(u)
    BY DEF MarkSweep
  <1>2. CycleEpoch' = CycleEpoch
    BY <1>0, <1>1, EpochMarkSweep DEF SameCycle
  <1>3. PICK l \in {"mark", "sync", "join"} : Goto(u, l) /\ (l = "mark" => phase = "ASYNC")
    BY DEF SweepDone, MarkDone
  <1>4. /\ HeapSame /\ gray' = gray /\ pc[u] \in {"sweep", "mark"} /\ UNCHANGED <<lphase, barrier>>
        /\ pc[u] = "mark" => scan[u] = Null
    BY <1>2 DEF SweepDone, MarkDone, HeapSame, slicevars, cyclevars, rtvars, heapvars, workvars
  <1>. QED
    BY <1>3, <1>4, HeapMove

(* A collector thread looks for work.                                      *)
LEMMA HeapWorkerSync ==
  ASSUME Safe, TypeOK', NEW w \in Worker, NEW B \in SUBSET Obj, WorkerSync(w, B)
  PROVE  HeapInv'
  <1>0. Base /\ EpochInv /\ CleanEnd /\ TypeOK /\ GrayInv /\ w \in Unit /\ w # Global /\ w \notin Proc
    BY UnitAssumption DEF Safe, Base, HeapInv, Unit
  <1>1. CycleEpoch' = CycleEpoch
    BY <1>0, EpochWorkerSync DEF SameCycle
  <1>2. PICK l \in {"sweep", "sync"} : Goto(w, l)
    BY DEF WorkerSync
  <1>3. /\ HeapSame /\ pc[w] = "sync" /\ UNCHANGED <<lphase, barrier>>
        /\ B \subseteq gray[Global]
        /\ gray' = [gray EXCEPT ![w] = @ \cup B, ![Global] = @ \ B]
    BY <1>1 DEF WorkerSync, HeapSame, slicevars, cyclevars, rtvars, heapvars
  <1>4. Regrouped
    BY <1>0, <1>3, RegroupMove
  <1>5. \A x \in Proc : gray'[x] = gray[x]
    BY <1>0, <1>3, UnitAssumption DEF TypeOK, Unit
  <1>. QED
    BY <1>0, <1>2, <1>3, <1>4, <1>5, HeapMove

(* gcWorkerStart: threads that did not exist wait.                         *)
LEMMA HeapWorkerStart ==
  ASSUME Safe, TypeOK', NEW W \in SUBSET Worker, WorkerStart(W)
  PROVE  HeapInv'
  <1>0. /\ Base /\ EpochInv /\ TypeOK /\ GrayInv /\ AllocInv /\ KeptInv /\ StoreInv /\ Main \in Proc
        /\ Main \in Unit
    BY ProcAssumption DEF Safe, Base, HeapInv, Unit
  <1>1. CycleEpoch' = CycleEpoch
    BY <1>0, EpochWorkerStart DEF SameCycle
  <1>2. /\ pc[Main] = "workerStart"
        /\ UNCHANGED <<color, field, groots, roots, store, scan, allocColor, phase, arg, listed,
                       lphase, barrier, gray>>
        /\ pc' = [u \in Unit |-> IF u \in W THEN "sync" ELSE IF u = Main THEN "slice" ELSE pc[u]]
        /\ W = {} \/ Started = {}
    BY DEF WorkerStart, slicevars, cyclevars, rtvars, heapvars
  <1>3. \A w \in W : pc[w] = "none" /\ w \notin Proc
    BY <1>0, <1>2, UnitAssumption DEF Started, EpochInv, WorkersFollow
  <1>4. \A p \in Proc : pc'[p] = pc[p] \/ (p = Main /\ pc'[p] = "slice")
    BY <1>2, <1>3 DEF Unit
  <1>5. \A p \in Proc : (Starting(p)' <=> Starting(p)) /\ (pc'[p] = "inherit" <=> pc[p] = "inherit")
    BY <1>2, <1>4 DEF Starting
  <1>6. Member' \subseteq Member
    BY <1>0, <1>2, <1>5 DEF Member, TypeOK
  <1>7. AllocInv'
    BY <1>0, <1>1, <1>2, <1>5, <1>6, AllocSame
  <1>8. \A u \in Unit : (pc'[u] = "mark" => pc[u] = "mark") /\ (scan[u] # Null => pc'[u] = pc[u])
    BY <1>0, <1>2, <1>3 DEF GrayInv
  <1>9. PlacesOK
    BY <1>0, <1>2, <1>4, <1>8 DEF PlacesOK, StoreInv
  <1>10. groots' \subseteq Live /\ \A p \in Proc : roots'[p] \subseteq Live
    BY <1>0, <1>2, LiveClosed
  <1>11. ASSUME phase = "ASYNC"
         PROVE  /\ barrier[Main] = "ASYNC" => groots' \subseteq Kept
                /\ \A p \in Proc : Taken(p)' => Holds(p)' \subseteq Kept
    <2>1. \A p \in Proc : (Taken(p)' <=> Taken(p)) /\ Holds(p)' = Holds(p)
      BY <1>2, <1>5 DEF Taken, Holds
    <2>. QED
      BY <1>0, <1>2, <1>11, <2>1 DEF KeptInv
  <1>. QED
    BY <1>1, <1>2, <1>7, <1>9, <1>10, <1>11, HeapFrame

-----------------------------------------------------------------------------
(* Roots come and go.                                                      *)

(* Steps that change only the roots of one processor or the global roots.  *)
LEMMA HeapRoots ==
  ASSUME Safe, TypeOK', NEW p \in Proc, pc[p] = "run",
         UNCHANGED <<color, field, store, scan, allocColor, phase, arg, listed, pc, gray, barrier,
                     lphase, epoch>>,
         \A x \in Proc \ {p} : roots'[x] = roots[x],
         groots' \subseteq Live, roots'[p] \subseteq Live,
         phase = "ASYNC" => /\ groots' # groots => barrier[Main] = "ASYNC"
                            /\ barrier[Main] = "ASYNC" => groots' \subseteq Kept
                            /\ Taken(p) => roots'[p] \subseteq Kept
  PROVE  HeapInv'
  <1>0. TypeOK /\ GrayInv /\ AllocInv /\ StoreInv /\ KeptInv /\ p \in Unit
    BY DEF Safe, Base, HeapInv, Unit
  <1>1. CycleEpoch' = CycleEpoch /\ Member' = Member
    BY DEF CycleEpoch, Due, Member
  <1>2. \A x \in Proc : (Starting(x)' <=> Starting(x)) /\ (Taken(x)' <=> Taken(x))
    BY DEF Starting, Taken
  <1>3. AllocInv'
    BY <1>0, <1>1, <1>2, AllocSame
  <1>4. PlacesOK
    BY <1>0 DEF PlacesOK, StoreInv
  <1>5. \A x \in Proc : roots'[x] \subseteq Live
    BY <1>0, LiveClosed
  <1>6. ASSUME phase = "ASYNC", NEW x \in Proc, Taken(x)'
        PROVE  Holds(x)' \subseteq Kept
    <2>1. Holds(x) \subseteq Kept /\ Holds(x)' \subseteq roots'[x] \cup Holds(x)
      BY <1>0, <1>2, <1>6 DEF KeptInv, Holds
    <2>2. roots'[x] \subseteq Kept
      BY <1>2, <1>6, <2>1 DEF Holds
    <2>. QED
      BY <2>1, <2>2
  <1>. QED
    BY <1>1, <1>3, <1>4, <1>5, <1>6, HeapFrame

(* Loads, and what becomes of roots.                                       *)
LEMMA HeapLoad ==
  ASSUME Safe, TypeOK', SteadyRoots, NEW p \in Proc, NEW o \in Obj,
         Load(p, o) \/ LoadRoot(p, o) \/ Drop(p, o) \/ GCRoot(p, o) \/ GCUnroot(p, o)
  PROVE  HeapInv'
  <1>0. /\ Base /\ TypeOK /\ ColorsInv /\ GrayInv /\ KeptInv /\ pc[p] = "run" /\ Main \in Proc
        /\ UNCHANGED <<color, field, store, scan, allocColor, phase, arg, listed, pc, gray, barrier,
                       lphase, epoch>>
    BY ProcAssumption DEF Safe, Base, HeapInv, Load, LoadRoot, Drop, GCRoot, GCUnroot,
      slicevars, cyclevars, rtvars, workvars
  <1>1. p \in Member /\ Main \in Member
    BY <1>0, ListedMember DEF Base, LockstepInv, Listing
  <1>2. Taken(p) <=> barrier[p] = "ASYNC"
    BY <1>0 DEF Taken, Starting
  <1>3. /\ groots \subseteq Live /\ roots[p] \subseteq Live
        /\ \A x \in Live : field[x] \in Live \cup {Null}
    BY <1>0, LiveClosed
  <1>4. phase = "ASYNC" => /\ barrier[Main] = "ASYNC" => groots \subseteq Kept
                           /\ Taken(p) => roots[p] \subseteq Kept
    BY <1>0 DEF KeptInv, Holds
  <1>5. CASE Load(p, o)
    <2>1. /\ o \in roots[p] /\ field[o] # Null /\ groots' = groots
          /\ roots'[p] = roots[p] \cup {field[o]} /\ \A x \in Proc \ {p} : roots'[x] = roots[x]
      BY <1>0, <1>5 DEF Load, TypeOK
    <2>2. phase = "ASYNC" /\ Taken(p) => field[o] \in Kept
      BY <1>0, <1>3, <1>4, <2>1, KeptLoad
    <2>3. roots'[p] \subseteq Live
      BY <1>3, <2>1
    <2>. QED
      BY <1>0, <1>3, <1>4, <2>1, <2>2, <2>3, HeapRoots
  <1>6. CASE LoadRoot(p, o)
    <2>1. /\ o \in groots /\ groots' = groots
          /\ roots'[p] = roots[p] \cup {o} /\ \A x \in Proc \ {p} : roots'[x] = roots[x]
      BY <1>0, <1>6 DEF LoadRoot, TypeOK
    <2>2. ASSUME phase = "ASYNC", Taken(p)
          PROVE  o \in Kept
      <3>1. CASE barrier[Main] = "ASYNC"
        BY <1>4, <2>1, <2>2, <3>1
      <3>2. CASE barrier[Main] # "ASYNC"
        <4>1. Awaited = groots
          BY <1>2, <2>2, <3>2 DEF Awaited
        <4>. QED
          BY <1>0, <2>1, <4>1, KeptIsClosed DEF KeptClosed
      <3>. QED
        BY <3>1, <3>2
    <2>3. roots'[p] \subseteq Live
      BY <1>3, <2>1
    <2>. QED
      BY <1>0, <1>3, <1>4, <2>1, <2>2, <2>3, HeapRoots
  <1>7. CASE Drop(p, o)
    <2>1. /\ groots' = groots
          /\ roots'[p] = roots[p] \ {o} /\ \A x \in Proc \ {p} : roots'[x] = roots[x]
      BY <1>0, <1>7 DEF Drop, TypeOK
    <2>2. roots'[p] \subseteq roots[p]
      BY <2>1
    <2>. QED
      BY <1>0, <1>3, <1>4, <2>1, <2>2, HeapRoots
  <1>8. CASE GCRoot(p, o) \/ GCUnroot(p, o)
    <2>1. roots' = roots /\ groots' \subseteq groots \cup roots[p]
      BY <1>0, <1>8 DEF GCRoot, GCUnroot
    <2>2. phase = "ASYNC" /\ groots' # groots => barrier[p] = "ASYNC" /\ barrier[Main] = "ASYNC"
      BY <1>1 DEF SteadyRoots
    <2>3. phase = "ASYNC" /\ barrier[Main] = "ASYNC" => groots' \subseteq Kept
      BY <1>2, <1>4, <2>1, <2>2
    <2>. QED
      BY <1>0, <1>3, <1>4, <2>1, <2>2, <2>3, HeapRoots
  <1>. QED
    BY <1>5, <1>6, <1>7, <1>8

-----------------------------------------------------------------------------
(* Processors come and go.                                                 *)

(* chiProcessorTryStart: the new processor holds what its starter does.    *)
LEMMA HeapTryStart ==
  ASSUME Safe, TypeOK', NEW q \in Proc, NEW p \in Proc, NEW T, T \subseteq roots[q], TryStart(q, p, T),
         CycleEpoch' = CycleEpoch
  PROVE  HeapInv'
  <1>0. /\ Base /\ TypeOK /\ GrayInv /\ AllocInv /\ StoreInv /\ KeptInv /\ p \in Unit /\ q \in Unit
        /\ pc[q] = "run" /\ pc[p] = "off" /\ p # q
        /\ UNCHANGED <<color, field, groots, store, scan, allocColor, phase, listed, barrier, lphase, gray>>
    BY DEF Safe, Base, HeapInv, Unit, TryStart, slicevars, cyclevars, workvars
  <1>1. /\ pc'[q] = "starting" /\ pc'[p] = "init" /\ \A u \in Unit \ {p, q} : pc'[u] = pc[u]
        /\ arg'[p].from = q /\ arg'[p].alloc = allocColor[q] /\ arg'[p].barrier = barrier[q]
        /\ \A x \in Proc \ {p} : arg'[x] = arg[x]
        /\ roots'[p] = T /\ \A x \in Proc \ {p} : roots'[x] = roots[x]
    BY <1>0 DEF TryStart, TypeOK
  <1>2. \A x \in Proc \ {p} : Starting(x)' <=> Starting(x)
    BY <1>0, <1>1 DEF Starting, Unit
  <1>3. Member' = Member
    BY <1>0, <1>1 DEF Member, TypeOK, Unit, Base, LockstepInv, Listing
  <1>4. AllocInv'
    BY <1>0, <1>1, <1>2, <1>3 DEF AllocInv
  <1>5. PlacesOK
    <2>1. \A x \in Proc :
            /\ pc[x] \in {"barrier", "write"} \/ pc'[x] \in {"barrier", "write"} =>
                 pc'[x] = pc[x] /\ roots'[x] = roots[x]
            /\ pc'[x] \in {"off", "unlist"} => roots'[x] = {}
            /\ pc'[x] = "setEpoch" => pc[x] = "setEpoch"
      BY <1>0, <1>1 DEF StoreInv, Unit
    <2>2. \A u \in Unit : (scan[u] # Null => pc'[u] = pc[u]) /\ (pc'[u] = "mark" => pc[u] = "mark")
      BY <1>0, <1>1 DEF GrayInv
    <2>. QED
      BY <1>0, <2>1, <2>2 DEF PlacesOK
  <1>6. /\ groots' \subseteq Live /\ \A x \in Proc : roots'[x] \subseteq Live
    BY <1>0, <1>1, LiveClosed
  <1>7. ASSUME phase = "ASYNC"
        PROVE  /\ barrier[Main] = "ASYNC" => groots' \subseteq Kept
               /\ \A x \in Proc : Taken(x)' => Holds(x)' \subseteq Kept
    <2>1. \A x \in Proc \ {p} : (Taken(x)' <=> Taken(x)) /\ Holds(x)' = Holds(x)
      BY <1>0, <1>1, <1>2 DEF Taken, Holds
    <2>2. Taken(p)' => Taken(q)
      BY <1>0, <1>1 DEF Taken, Starting
    <2>3. Holds(p)' = T /\ T \subseteq Holds(q)
      BY <1>0, <1>1 DEF Holds, StoreInv, NoStore
    <2>. QED
      BY <1>0, <1>7, <2>1, <2>2, <2>3 DEF KeptInv
  <1>. QED
    BY <1>0, <1>4, <1>5, <1>6, <1>7, HeapFrame

(* initProcessor: what is zeroed is not looked at before it is inherited.  *)
LEMMA HeapInitProcessor ==
  ASSUME Safe, TypeOK', NEW p \in Proc, InitProcessor(p), CycleEpoch' = CycleEpoch
  PROVE  HeapInv'
  <1>0. /\ Base /\ TypeOK /\ GrayInv /\ AllocInv /\ StoreInv /\ KeptInv /\ p \in Unit /\ pc[p] = "init"
        /\ p # Main /\ Main \in Proc
        /\ UNCHANGED <<color, field, groots, roots, store, scan, phase, arg, gray>>
    BY ProcAssumption
    DEF Safe, Base, HeapInv, Unit, InitProcessor, cyclevars, heapvars, workvars, LockstepInv, Listing
  <1>1. /\ pc'[p] = "inherit" /\ \A u \in Unit \ {p} : pc'[u] = pc[u]
        /\ \A x \in Proc \ {p} : lphase'[x] = lphase[x] /\ barrier'[x] = barrier[x]
                                 /\ allocColor'[x] = allocColor[x]
        /\ listed' = listed \cup {p}
    BY <1>0 DEF InitProcessor, Goto, TypeOK
  <1>2. \A x \in Proc : Starting(x)' <=> Starting(x)
    BY <1>0, <1>1 DEF Starting, Unit
  <1>3. Member' = Member /\ p \notin Member
    BY <1>0, <1>1 DEF Member, TypeOK, Unit, Base, LockstepInv, Listing
  <1>4. \A x \in Proc : Starting(x) => arg[x].from \in Proc \ {p}
    BY <1>0 DEF Base, LockstepInv, Handover, Starting
  <1>5. AllocInv'
    <2>1. Member \subseteq Proc
      BY <1>0 DEF Member, TypeOK
    <2>2. \A x \in Proc : Starting(x) => arg[x].alloc = allocColor'[arg[x].from]
      BY <1>0, <1>1, <1>4 DEF AllocInv
    <2>3. \A x \in Member :
            allocColor'[x] = IF phase = "ASYNC" /\ barrier'[x] = "ASYNC" THEN Black(CycleEpoch)
                             ELSE White(CycleEpoch)
      BY <1>0, <1>1, <1>3, <2>1 DEF AllocInv
    <2>. QED
      BY <1>0, <1>2, <1>3, <2>2, <2>3 DEF AllocInv
  <1>6. PlacesOK
    <2>1. \A x \in Proc :
            /\ pc[x] \in {"barrier", "write"} \/ pc'[x] \in {"barrier", "write"} =>
                 pc'[x] = pc[x] /\ lphase'[x] = lphase[x] /\ barrier'[x] = barrier[x]
            /\ pc'[x] \in {"off", "unlist"} => roots[x] = {}
            /\ pc'[x] = "setEpoch" => pc[x] = "setEpoch"
      BY <1>0, <1>1 DEF StoreInv, Unit
    <2>2. \A u \in Unit : (scan[u] # Null => pc'[u] = pc[u]) /\ (pc'[u] = "mark" => pc[u] = "mark")
      BY <1>0, <1>1 DEF GrayInv
    <2>. QED
      BY <1>0, <2>1, <2>2 DEF PlacesOK
  <1>7. /\ groots' \subseteq Live /\ \A x \in Proc : roots'[x] \subseteq Live
    BY <1>0, LiveClosed
  <1>8. ASSUME phase = "ASYNC"
        PROVE  /\ barrier'[Main] = barrier[Main]
               /\ barrier[Main] = "ASYNC" => groots' \subseteq Kept
               /\ \A x \in Proc : Taken(x)' => Holds(x)' \subseteq Kept
    <2>1. \A x \in Proc : (Taken(x)' <=> Taken(x)) /\ Holds(x)' = Holds(x)
      BY <1>0, <1>1, <1>2 DEF Taken, Holds, Starting
    <2>. QED
      BY <1>0, <1>1, <1>8, <2>1 DEF KeptInv
  <1>. QED
    BY <1>0, <1>5, <1>6, <1>7, <1>8, HeapFrame

(* inheritGCState: the new processor goes on where its starter is.         *)
LEMMA HeapInherit ==
  ASSUME Safe, TypeOK', NEW p \in Proc, Inherit(p), CycleEpoch' = CycleEpoch
  PROVE  HeapInv'
  <1>. DEFINE q == arg[p].from
  <1>0. /\ Base /\ TypeOK /\ GrayInv /\ AllocInv /\ StoreInv /\ KeptInv /\ p \in Unit /\ pc[p] = "inherit"
        /\ p # Main /\ Main \in Proc
        /\ UNCHANGED <<color, field, groots, roots, store, scan, phase, listed, gray>>
    BY ProcAssumption
    DEF Safe, Base, HeapInv, Unit, Inherit, cyclevars, heapvars, workvars, LockstepInv, Listing
  <1>1. q \in Proc /\ pc[q] = "starting" /\ q # p /\ q \in Unit
    BY <1>0 DEF Base, LockstepInv, Handover, Unit
  <1>2. /\ pc'[p] = "run" /\ pc'[q] = "run" /\ \A u \in Unit \ {p, q} : pc'[u] = pc[u]
        /\ \A x \in Proc \ {p} : lphase'[x] = lphase[x] /\ barrier'[x] = barrier[x]
                                 /\ allocColor'[x] = allocColor[x] /\ arg'[x] = arg[x]
        /\ barrier'[p] = arg[p].barrier /\ allocColor'[p] = arg[p].alloc
    BY <1>0, <1>1 DEF Inherit, TypeOK
  <1>3. arg[p].barrier = barrier[q] /\ arg[p].alloc = allocColor[q] /\ q \in Member
    BY <1>0, <1>1, ListedMember DEF Base, BarrierInv, AllocInv, Starting
  <1>. HIDE DEF q
  <1>4. /\ \A x \in Proc \ {p} : Starting(x)' <=> Starting(x)
        /\ Starting(p) /\ ~Starting(p)'
    BY <1>0, <1>1, <1>2 DEF Starting, Unit
  <1>5. Member' \subseteq Member \cup {p} /\ Member \subseteq Proc
    BY <1>0, <1>1, <1>2 DEF Member, TypeOK, Unit
  <1>6. \A x \in Proc : Starting(x) => arg[x].from \in Proc \ {p}
    BY <1>0 DEF Base, LockstepInv, Handover, Starting
  <1>7. AllocInv'
    <2>1. \A x \in Proc : Starting(x)' => arg'[x].alloc = allocColor'[arg'[x].from]
      BY <1>0, <1>2, <1>4, <1>6 DEF AllocInv
    <2>2. \A x \in Member' :
            allocColor'[x] = IF phase = "ASYNC" /\ barrier'[x] = "ASYNC" THEN Black(CycleEpoch)
                             ELSE White(CycleEpoch)
      BY <1>0, <1>2, <1>3, <1>5 DEF AllocInv
    <2>. QED
      BY <1>0, <2>1, <2>2 DEF AllocInv
  <1>8. PlacesOK
    <2>1. \A x \in Proc :
            /\ pc[x] \in {"barrier", "write"} \/ pc'[x] \in {"barrier", "write"} =>
                 pc'[x] = pc[x] /\ lphase'[x] = lphase[x] /\ barrier'[x] = barrier[x]
            /\ pc'[x] \in {"off", "unlist"} => roots[x] = {}
            /\ pc'[x] = "setEpoch" => pc[x] = "setEpoch"
      BY <1>0, <1>1, <1>2 DEF StoreInv, Unit
    <2>2. \A u \in Unit : (scan[u] # Null => pc'[u] = pc[u]) /\ (pc'[u] = "mark" => pc[u] = "mark")
      BY <1>0, <1>1, <1>2 DEF GrayInv
    <2>. QED
      BY <1>0, <2>1, <2>2 DEF PlacesOK
  <1>9. /\ groots' \subseteq Live /\ \A x \in Proc : roots'[x] \subseteq Live
    BY <1>0, LiveClosed
  <1>10. ASSUME phase = "ASYNC"
         PROVE  /\ barrier'[Main] = barrier[Main]
                /\ barrier[Main] = "ASYNC" => groots' \subseteq Kept
                /\ \A x \in Proc : Taken(x)' => Holds(x)' \subseteq Kept
    <2>1. \A x \in Proc : (Taken(x)' <=> Taken(x)) /\ Holds(x)' = Holds(x)
      BY <1>0, <1>2, <1>4 DEF Taken, Holds
    <2>. QED
      BY <1>0, <1>2, <1>10, <2>1 DEF KeptInv
  <1>. QED
    BY <1>0, <1>7, <1>8, <1>9, <1>10, HeapFrame

(* Starting and stopping processors.                                       *)
LEMMA HeapLifecycle ==
  ASSUME Safe, TypeOK', NEW p \in Proc, Lifecycle(p)
  PROVE  HeapInv'
  <1>0. Base /\ EpochInv /\ TypeOK /\ GrayInv /\ AllocInv /\ KeptInv /\ StoreInv /\ p \in Unit /\ p # Global
    BY UnitAssumption DEF Safe, Base, HeapInv, Unit
  <1>1. CycleEpoch' = CycleEpoch
    BY <1>0, EpochLifecycle DEF SameCycle
  <1>2. ASSUME NEW q \in Proc, NEW T \in {{}} \cup {{o} : o \in roots[q]}, TryStart(q, p, T)
        PROVE  HeapInv'
    <2>1. T \subseteq roots[q]
      OBVIOUS
    <2>. QED
      BY <1>1, <1>2, <2>1, HeapTryStart
  <1>3. CASE InitProcessor(p)
    BY <1>1, <1>3, HeapInitProcessor
  <1>4. CASE Inherit(p)
    BY <1>1, <1>4, HeapInherit
  <1>5. CASE Stop(p)
    <2>1. Goto(p, "destroy") /\ pc[p] = "run" /\ HeapSame /\ UNCHANGED <<gray, lphase, barrier>>
      BY <1>1, <1>5 DEF Stop, HeapSame, slicevars, cyclevars, rtvars, heapvars, workvars
    <2>. QED
      BY <1>0, <2>1, HeapMove
  <1>6. CASE Unlist(p)
    <2>1. Goto(p, "off") /\ pc[p] = "unlist" /\ HeapSame /\ UNCHANGED <<gray, lphase, barrier>>
      BY <1>1, <1>6 DEF Unlist, HeapSame, slicevars, cyclevars, heapvars, workvars
    <2>. QED
      BY <1>0, <2>1, HeapMove
  <1>7. CASE LocalGCDestroy(p)
    <2>1. /\ pc[p] = "destroy"
          /\ gray' = [gray EXCEPT ![Global] = @ \cup gray[p], ![p] = @ \ gray[p]]
          /\ UNCHANGED <<color, field, groots, store, scan, allocColor, phase, arg, listed, barrier, lphase>>
      BY <1>7 DEF LocalGCDestroy, slicevars, cyclevars, rtvars, workvars
    <2>2. /\ pc'[p] = "unlist" /\ \A u \in Unit \ {p} : pc'[u] = pc[u]
          /\ roots'[p] = {} /\ \A x \in Proc \ {p} : roots'[x] = roots[x]
      BY <1>0, <1>7 DEF LocalGCDestroy, Goto, TypeOK
    <2>3. Regrouped
      BY <1>0, <2>1, RegroupMove
    <2>4. \A x \in Proc \ {p} : gray'[x] = gray[x]
      BY <1>0, <2>1, UnitAssumption DEF TypeOK, Unit
    <2>5. \A x \in Proc : Starting(x)' <=> Starting(x)
      BY <2>1, <2>2 DEF Starting, Unit
    <2>6. Member' = Member
      BY <1>0, <2>1, <2>2 DEF Member, TypeOK, Unit
    <2>7. AllocInv'
      BY <1>0, <1>1, <2>1, <2>5, <2>6, AllocSame
    <2>8. PlacesOK
      <3>1. \A x \in Proc :
              /\ pc[x] \in {"barrier", "write"} \/ pc'[x] \in {"barrier", "write"} =>
                   pc'[x] = pc[x] /\ roots'[x] = roots[x]
              /\ pc'[x] \in {"off", "unlist"} => roots'[x] = {}
              /\ pc'[x] = "setEpoch" => pc[x] = "setEpoch" /\ gray'[x] = gray[x]
        BY <1>0, <2>1, <2>2, <2>4 DEF StoreInv, Unit
      <3>2. \A u \in Unit : (scan[u] # Null => pc'[u] = pc[u]) /\ (pc'[u] = "mark" => pc[u] = "mark")
        BY <1>0, <2>1, <2>2 DEF GrayInv
      <3>. QED
        BY <2>1, <3>1, <3>2 DEF PlacesOK
    <2>9. groots' \subseteq Live /\ \A x \in Proc : roots'[x] \subseteq Live
      BY <1>0, <2>1, <2>2, LiveClosed
    <2>10. ASSUME phase = "ASYNC"
           PROVE  /\ barrier[Main] = "ASYNC" => groots' \subseteq Kept
                  /\ \A x \in Proc : Taken(x)' => Holds(x)' \subseteq Kept
      <3>1. \A x \in Proc : (Taken(x)' <=> Taken(x)) /\ Holds(x)' \subseteq Holds(x)
        BY <2>1, <2>2, <2>5 DEF Taken, Holds
      <3>. QED
        BY <1>0, <2>1, <2>10, <3>1 DEF KeptInv
    <2>. QED
      BY <1>1, <2>1, <2>3, <2>7, <2>8, <2>9, <2>10, HeapFrame
  <1>. QED
    BY <1>2, <1>3, <1>4, <1>5, <1>6, <1>7 DEF Lifecycle

-----------------------------------------------------------------------------
(* The mutator.                                                            *)

(* A processor in a field write has a barrier, that of its phase, and      *)
(* holds the object it writes to.                                          *)
LEMMA Writing ==
  ASSUME Safe, NEW p \in Proc, store[p].obj # Null \/ pc[p] \in {"barrier", "write"}
  PROVE  /\ pc[p] \in {"barrier", "write"} /\ p \in Member /\ ~Starting(p)
         /\ store[p].obj \in roots[p] /\ store[p].val \in roots[p] \cup {Null}
         /\ barrier[p] = BarrierOf[lphase[p]] /\ barrier[p] # "NONE"
         /\ lphase[p] \in {phase, Pred[phase]} /\ phase \in Phase
  <1>1. pc[p] \in {"barrier", "write"}
    BY DEF Safe, HeapInv, StoreInv, NoStore
  <1>2. p \in Member
    BY <1>1, ListedMember DEF Safe
  <1>3. barrier[p] = BarrierOf[lphase[p]] /\ lphase[p] \in {phase, Pred[phase]} /\ phase \in Phase
    BY <1>1, <1>2, MemberEpoch DEF Safe
  <1>. QED
    BY <1>1, <1>2, <1>3 DEF Safe, HeapInv, StoreInv, Starting

(* What its registers hold is alive.                                       *)
LEMMA RegistersLive ==
  ASSUME TypeOK
  PROVE  \A p \in Proc : /\ store[p].obj \in Live \cup {Null}
                         /\ store[p].old \in Live \cup {Null}
                         /\ store[p].val \in Live \cup {Null}
  BY LiveClosed DEF Holds

(* Free cells are not alive, not gray and not being scanned.               *)
LEMMA FreeDead ==
  ASSUME Safe, NEW o \in Obj, color[o] = Free
  PROVE  /\ o \notin Live /\ o \notin GrayNow
         /\ \A u \in Unit \cup {Global} : o \notin gray[u]
         /\ \A u \in Unit : scan[u] # o
         /\ color[o] # White(CycleEpoch)
  <1>1. /\ TypeOK /\ ColorsInv /\ GrayInv /\ CycleEpoch \in Epoch
        /\ o # Null
    BY CycleEpochType, HeapAssumption DEF Safe, Base, HeapInv
  <1>2. Free \notin {White(CycleEpoch), Gray(CycleEpoch), Black(CycleEpoch)}
    BY <1>1, ColorsDiffer
  <1>3. o \notin Live
    BY <1>1, <1>2 DEF ColorsInv, LiveColors
  <1>4. \A u \in Unit \cup {Global} : o \notin gray[u]
    BY <1>1, <1>2 DEF GrayInv
  <1>5. \A u \in Unit : scan[u] # o
    BY <1>1, <1>2 DEF GrayInv
  <1>6. o \notin GrayNow
    <2>1. o \notin UNION {gray[u] : u \in Unit \cup {Global}}
      BY <1>4
    <2>2. o \notin {scan[u] : u \in Unit}
      BY <1>5
    <2>. QED
      BY <2>1, <2>2 DEF GrayNow
  <1>. QED
    BY <1>1, <1>2, <1>3, <1>4, <1>5, <1>6

(* A new object is not lost: it is black after the snapshot, and before    *)
(* that it is marked with the roots.                                       *)
LEMMA HeapAlloc ==
  ASSUME Safe, TypeOK', NEW p \in Proc, NEW o \in Obj, NEW v \in roots[p] \cup {Null}, Alloc(p, o, v)
  PROVE  HeapInv'
  <1>0. /\ Base /\ TypeOK /\ ColorsInv /\ GrayInv /\ AllocInv /\ StoreInv /\ OverwriteInv /\ KeptInv
        /\ Main \in Proc /\ pc[p] = "run" /\ color[o] = Free /\ o # Null
        /\ UNCHANGED <<groots, store, scan, allocColor, phase, arg, listed, pc, gray, barrier, lphase, epoch>>
    BY ProcAssumption, HeapAssumption
    DEF Safe, Base, HeapInv, Alloc, slicevars, cyclevars, rtvars, workvars
  <1>1. /\ color'[o] = allocColor[p] /\ \A x \in Obj \ {o} : color'[x] = color[x]
        /\ field'[o] = v /\ \A x \in Obj \ {o} : field'[x] = field[x]
        /\ roots'[p] = roots[p] \cup {o} /\ \A q \in Proc \ {p} : roots'[q] = roots[q]
    BY <1>0 DEF Alloc, TypeOK
  <1>2. /\ CycleEpoch' = CycleEpoch /\ Member' = Member /\ GrayNow' = GrayNow /\ Awaited' = Awaited
        /\ CycleEpoch \in Epoch
    BY <1>0, CycleEpochType DEF CycleEpoch, Due, Member, GrayNow, Awaited
  <1>3. \A q \in Proc : (Starting(q)' <=> Starting(q)) /\ (Taken(q)' <=> Taken(q))
    BY <1>0 DEF Starting, Taken
  <1>4. p \in Member /\ (Taken(p) <=> barrier[p] = "ASYNC")
    BY <1>0, ListedMember DEF Taken, Starting
  <1>5. allocColor[p] = IF phase = "ASYNC" /\ barrier[p] = "ASYNC" THEN Black(CycleEpoch)
                        ELSE White(CycleEpoch)
    BY <1>0, <1>4 DEF AllocInv
  <1>6. /\ o \notin Live /\ o \notin GrayNow /\ color[o] # White(CycleEpoch)
        /\ \A u \in Unit \cup {Global} : o \notin gray[u]
        /\ \A u \in Unit : scan[u] # o
    BY <1>0, FreeDead
  <1>7. /\ groots \subseteq Live /\ Live \subseteq Obj
        /\ \A q \in Proc : roots[q] \subseteq Holds(q) /\ Holds(q) \subseteq Live
        /\ \A x \in Live : field[x] \in Live \cup {Null}
    BY <1>0, LiveClosed
  <1>8. Holds(p)' = Holds(p) \cup {o} /\ \A q \in Proc \ {p} : Holds(q)' = Holds(q)
    BY <1>0, <1>1 DEF Holds
  <1>9. Live' \subseteq Live \cup {o}
    <2>1. groots' \subseteq Live \cup {o} /\ \A q \in Proc : Holds(q)' \subseteq Live \cup {o}
      BY <1>0, <1>7, <1>8
    <2>2. \A x \in Live \cup {o} : field'[x] \in (Live \cup {o}) \cup {Null}
      BY <1>1, <1>7
    <2>. DEFINE T == Live \cup {o}
    <2>3. T \in SUBSET Obj
      BY <1>7
    <2>4. /\ groots' \subseteq T /\ (\A q \in Proc : Holds(q)' \subseteq T)
          /\ \A x \in T : field'[x] \in T \cup {Null}
      BY <2>1, <2>2
    <2>. HIDE DEF T
    <2>5. Live' \subseteq T
      BY <2>3, <2>4, LiveWithin
    <2>. QED
      BY <2>5 DEF T
  <1>10. \A x : Marked(x) /\ x \in Live \cup {Null} => Marked(x)'
    BY <1>1, <1>2, <1>6, <1>7 DEF Marked
  <1>11. ColorsInv'
    <2>1. LiveColors' = LiveColors /\ allocColor[p] \in LiveColors
      BY <1>0, <1>2, <1>5 DEF LiveColors
    <2>. QED
      BY <1>0, <1>1, <1>7, <1>9, <2>1 DEF ColorsInv
  <1>12. GrayInv'
    <2>1. \A u \in Unit \cup {Global} : \A x \in gray[u] : color'[x] = Gray(CycleEpoch)
      BY <1>0, <1>1, <1>6 DEF GrayInv, TypeOK
    <2>2. ~color'[o].shaded
      BY <1>1, <1>2, <1>5, ColorsDiffer
    <2>3. \A x \in Obj : color'[x] # Free /\ color'[x].shaded => \E u \in Unit \cup {Global} : x \in gray[u]
      BY <1>0, <1>1, <2>2 DEF GrayInv
    <2>4. \A u \in Unit : scan[u] # Null => color'[scan[u]] = Black(CycleEpoch)
      BY <1>0, <1>1, <1>6 DEF GrayInv, TypeOK
    <2>. QED
      BY <1>0, <1>2, <2>1, <2>3, <2>4 DEF GrayInv
  <1>13. AllocInv'
    BY <1>0, <1>2, <1>3, AllocSame
  <1>14. StoreInv'
    <2>1. \A q \in Proc : Marked(store[q].old) => Marked(store[q].old)'
      BY <1>0, <1>10, RegistersLive
    <2>2. \A q \in Proc : Marked(store[q].val) => Marked(store[q].val)'
      BY <1>0, <1>10, RegistersLive
    <2>3. \A q \in Proc : roots[q] \subseteq roots'[q] /\ (roots[q] = {} => roots'[q] = {} \/ q = p)
      BY <1>1
    <2>. QED
      BY <1>0, <2>1, <2>2, <2>3 DEF StoreInv
  <1>15. OverwriteInv'
    <2>. SUFFICES ASSUME phase = "SYNC2", NEW q \in Proc, store[q].obj # Null, lphase[q] = "SYNC2",
                         store[q].old # field'[store[q].obj]
                  PROVE  Marked(field[store[q].obj])'
      BY <1>0 DEF OverwriteInv
    <2>1. store[q].obj \in Live
      BY <1>0, RegistersLive
    <2>2. field'[store[q].obj] = field[store[q].obj] /\ field[store[q].obj] \in Live \cup {Null}
      BY <1>1, <1>6, <1>7, <2>1
    <2>3. Marked(field[store[q].obj])
      BY <1>0, <2>2 DEF OverwriteInv
    <2>. QED
      BY <1>0, <1>2, <1>10, <2>2, <2>3 DEF Marked
  <1>16. KeptInv'
    <2>. SUFFICES ASSUME phase = "ASYNC" PROVE KeptInv'
      BY <1>0 DEF KeptInv
    <2>1. \A q \in Proc : store[q].obj # o
      BY <1>0, <1>6, RegistersLive
    <2>2. \A x \in Obj : (Steady(x)' <=> Steady(x)) /\ (x = o => Steady(x)')
      BY <1>0, <1>1, <2>1 DEF Steady
    <2>3. Kept \subseteq Kept' \cup {o}
      <3>1. \A x \in Obj : color[x] # White(CycleEpoch) => color'[x] # White(CycleEpoch) \/ x \in {o}
        BY <1>1
      <3>2. \A x \in {o} : color[x] # White(CycleEpoch) /\ x \notin GrayNow
        BY <1>6
      <3>3. \A x \in Obj : color[x] = White(CycleEpoch) /\ color'[x] # White(CycleEpoch) => x \in GrayNow'
        BY <1>1, <1>6
      <3>4. \A x \in Obj : /\ x \in GrayNow \/ color[x] = White(CycleEpoch)
                           /\ Steady(x) /\ field[x] # Null /\ color'[field[x]] = White(CycleEpoch)
                           => Steady(x)' /\ field'[x] = field[x] /\ (x \in GrayNow => x \in GrayNow')
        BY <1>1, <1>2, <1>6, <2>2
      <3>. DEFINE D == {o}
      <3>5. /\ D \in SUBSET Obj
            /\ \A x \in Obj : color[x] # White(CycleEpoch) => color'[x] # White(CycleEpoch) \/ x \in D
            /\ \A x \in D : color[x] # White(CycleEpoch) /\ x \notin GrayNow
        BY <3>1, <3>2
      <3>6. \A x \in Awaited : x \in Awaited'
        BY <1>2
      <3>. HIDE DEF D
      <3>7. Kept \subseteq Kept' \cup D
        BY <1>0, <1>2, <3>3, <3>4, <3>5, <3>6, KeptGrows
      <3>. QED
        BY <3>7 DEF D
    <2>4. ASSUME Taken(p)
          PROVE  Holds(p)' \subseteq Kept' /\ v \in Kept' \cup {Null}
      <3>1. color'[o] # White(CycleEpoch)
        BY <1>1, <1>2, <1>4, <1>5, <2>4, ColorsDiffer
      <3>2. o \in Kept'
        BY <1>2, <3>1, KeptIsClosedNext
      <3>3. Holds(p) \subseteq Kept
        BY <1>0, <2>4 DEF KeptInv
      <3>. QED
        BY <1>6, <1>7, <1>8, <2>3, <3>2, <3>3
    <2>5. \A q \in Proc : Taken(q)' => \/ Holds(q)' \subseteq Kept'
                                       \/ Taken(q) /\ Holds(q)' \subseteq Holds(q)
      BY <1>3, <1>8, <2>4
    <2>6. \A x \in Live' : color'[x] = Black(CycleEpoch') /\ x \notin GrayNow' =>
            \/ field'[x] \in Kept' \cup {Null}
            \/ x \in Live /\ color[x] = Black(CycleEpoch) /\ x \notin GrayNow /\ field'[x] = field[x]
      <3>. SUFFICES ASSUME NEW x \in Live', color'[x] = Black(CycleEpoch'), x \notin GrayNow'
                    PROVE  \/ field'[x] \in Kept' \cup {Null}
                           \/ x \in Live /\ color[x] = Black(CycleEpoch) /\ x \notin GrayNow
                              /\ field'[x] = field[x]
        OBVIOUS
      <3>1. CASE x = o
        <4>1. Taken(p)
          BY <1>1, <1>2, <1>4, <1>5, <3>1, ColorsDiffer
        <4>. QED
          BY <1>1, <2>4, <3>1, <4>1
      <3>2. CASE x # o
        BY <1>1, <1>2, <1>7, <1>9, <3>2
      <3>. QED
        BY <3>1, <3>2
    <2>7. \A x \in Obj : ~Steady(x)' => ~Steady(x) /\ field'[x] = field[x]
      BY <1>1, <2>2
    <2>8. {o} \in SUBSET Obj /\ {o} \cap Live = {}
      BY <1>6
    <2>9. barrier'[Main] = "ASYNC" => barrier[Main] = "ASYNC" /\ groots' \subseteq groots
      BY <1>0
    <2>. QED
      BY <1>0, <2>3, <2>5, <2>6, <2>7, <2>8, <2>9, KeptCarry
  <1>. QED
    BY <1>11, <1>12, <1>13, <1>14, <1>15, <1>16 DEF HeapInv

(* A write without a barrier happens before anybody marks.                 *)
LEMMA HeapStorePlain ==
  ASSUME Safe, TypeOK', NEW p \in Proc, NEW o \in Obj, NEW v \in roots[p] \cup {Null}, StorePlain(p, o, v)
  PROVE  HeapInv'
  <1>0. /\ Base /\ EpochInv /\ TypeOK /\ ColorsInv /\ GrayInv /\ AllocInv /\ StoreInv
        /\ pc[p] = "run" /\ barrier[p] = "NONE" /\ o \in roots[p]
        /\ UNCHANGED <<color, roots, groots, store, scan, allocColor, phase, arg, listed, pc, gray, barrier,
                       lphase, epoch>>
    BY DEF Safe, Base, HeapInv, StorePlain, slicevars, cyclevars, rtvars, workvars
  <1>1. field'[o] = v /\ \A x \in Obj \ {o} : field'[x] = field[x]
    BY <1>0 DEF StorePlain, TypeOK
  <1>2. p \in Member
    BY <1>0, ListedMember
  <1>3. phase \in {"IDLE", "SYNC1"}
    <2>1. /\ barrier[p] = BarrierOf[lphase[p]] /\ lphase[p] \in {phase, Pred[phase]}
          /\ phase \in Phase
      BY <1>0, <1>2, MemberEpoch
    <2>. QED
      BY <1>0, <2>1 DEF BarrierOf, Pred, Phase
  <1>4. /\ CycleEpoch' = CycleEpoch /\ Member' = Member
        /\ \A q \in Proc : (Starting(q)' <=> Starting(q)) /\ Holds(q)' = Holds(q)
    BY <1>0 DEF CycleEpoch, Due, Member, Starting, Holds
  <1>5. Live' \subseteq Live
    <2>1. groots' \subseteq Live /\ (\A q \in Proc : Holds(q)' \subseteq Live) /\ Live \subseteq Obj
      BY <1>0, <1>4, LiveClosed
    <2>2. roots[p] \subseteq Live /\ \A x \in Live : field[x] \in Live \cup {Null}
      BY <1>0, LiveClosed
    <2>3. \A x \in Live : field'[x] \in Live \cup {Null}
      BY <1>1, <2>1, <2>2
    <2>. QED
      BY <2>1, <2>3, LiveWithin
  <1>6. ColorsInv'
    BY <1>0, <1>4, <1>5 DEF ColorsInv, LiveColors
  <1>7. GrayInv' /\ StoreInv'
    BY <1>0, <1>4 DEF GrayInv, StoreInv, Marked
  <1>8. AllocInv'
    BY <1>0, <1>4, AllocSame
  <1>9. OverwriteInv' /\ KeptInv'
    BY <1>0, <1>3 DEF OverwriteInv, KeptInv
  <1>. QED
    BY <1>6, <1>7, <1>8, <1>9 DEF HeapInv

(* A write begins with the value that is about to be overwritten.          *)
LEMMA HeapStoreBegin ==
  ASSUME Safe, TypeOK', NEW p \in Proc, NEW o \in Obj, NEW v \in roots[p] \cup {Null}, StoreBegin(p, o, v),
         CycleEpoch' = CycleEpoch
  PROVE  HeapInv'
  <1>0. /\ Base /\ EpochInv /\ TypeOK /\ ColorsInv /\ GrayInv /\ AllocInv /\ StoreInv /\ OverwriteInv
        /\ KeptInv /\ Main \in Proc /\ p \in Unit
        /\ pc[p] = "run" /\ barrier[p] # "NONE" /\ o \in roots[p]
        /\ UNCHANGED <<color, field, roots, groots, scan, allocColor, phase, arg, listed, gray, barrier,
                       lphase, epoch>>
    BY ProcAssumption
    DEF Safe, Base, HeapInv, StoreBegin, slicevars, cyclevars, rtvars, heapvars, workvars, Unit
  <1>1. /\ pc'[p] = "barrier" /\ \A u \in Unit \ {p} : pc'[u] = pc[u]
        /\ store'[p] = [obj |-> o, old |-> field[o], val |-> v]
        /\ \A q \in Proc \ {p} : store'[q] = store[q]
    BY <1>0 DEF StoreBegin, Goto, TypeOK
  <1>2. store[p] = NoStore
    BY <1>0 DEF StoreInv
  <1>3. \A q \in Proc : Starting(q)' <=> Starting(q)
    BY <1>0, <1>1 DEF Starting, Unit
  <1>4. Member' = Member
    BY <1>0, <1>1 DEF Member, TypeOK, Unit
  <1>5. /\ groots \subseteq Live /\ roots[p] \subseteq Live
        /\ \A q \in Proc : roots[q] \subseteq Holds(q) /\ Holds(q) \subseteq Live
        /\ \A x \in Live : field[x] \in Live \cup {Null}
    BY <1>0, LiveClosed
  <1>6. /\ Holds(p)' = roots[p] \cup ({o, field[o], v} \ {Null})
        /\ \A q \in Proc \ {p} : Holds(q)' = Holds(q)
    BY <1>0, <1>1 DEF Holds
  <1>7. Live' \subseteq Live
    <2>1. field[o] \in Live \cup {Null}
      BY <1>0, <1>5
    <2>2. \A q \in Proc : Holds(q)' \subseteq Live
      BY <1>0, <1>5, <1>6, <2>1
    <2>. QED
      BY <1>0, <1>5, <2>2, LiveKept
  <1>8. GrayNow' = GrayNow /\ Awaited' = Awaited
    BY <1>0 DEF GrayNow, Awaited
  <1>9. ColorsInv'
    BY <1>0, <1>7 DEF ColorsInv, LiveColors
  <1>10. GrayInv'
    <2>1. \A u \in Unit : /\ scan[u] # Null => pc'[u] = "mark"
                          /\ pc'[u] = "mark" => phase = "ASYNC"
      BY <1>0, <1>1 DEF GrayInv
    <2>2. \A q \in Proc : pc'[q] = "setEpoch" => gray[q] = {}
      BY <1>0, <1>1 DEF GrayInv, Unit
    <2>. QED
      BY <1>0, <2>1, <2>2 DEF GrayInv
  <1>11. AllocInv'
    BY <1>0, <1>3, <1>4, AllocSame
  <1>12. StoreInv'
    <2>. SUFFICES ASSUME NEW q \in Proc
                  PROVE  /\ pc'[q] \notin {"barrier", "write"} => store'[q] = NoStore
                         /\ pc'[q] \in {"barrier", "write"} =>
                              /\ store'[q].obj \in roots[q] /\ store'[q].val \in roots[q] \cup {Null}
                              /\ barrier[q] # "NONE"
                         /\ pc'[q] = "write" /\ phase # "IDLE" =>
                              /\ Marked(store[q].old)'
                              /\ barrier[q] = "SYNC" => Marked(store[q].val)'
                         /\ pc'[q] \in {"off", "unlist"} => roots[q] = {}
      BY <1>0 DEF StoreInv
    <2>1. CASE q = p
      BY <1>0, <1>1, <2>1
    <2>2. CASE q # p
      <3>1. pc'[q] = pc[q] /\ store'[q] = store[q]
        BY <1>1, <2>2 DEF Unit
      <3>. QED
        BY <1>0, <3>1 DEF StoreInv, Marked
    <2>. QED
      BY <2>1, <2>2
  <1>13. OverwriteInv'
    BY <1>0, <1>1 DEF OverwriteInv, Marked
  <1>14. KeptInv'
    <2>. SUFFICES ASSUME phase = "ASYNC" PROVE KeptInv'
      BY <1>0 DEF KeptInv
    <2>1. \A x \in Obj : Steady(x)' <=> Steady(x)
      BY <1>0, <1>1, <1>2, HeapAssumption DEF Steady, NoStore
    <2>2. Kept \subseteq Kept'
      <3>1. Kept \subseteq Kept' \cup {}
        BY <1>0, <1>8, <2>1, KeptGrows
      <3>. QED
        BY <3>1
    <2>3. \A q \in Proc : Taken(q)' <=> Taken(q)
      BY <1>0, <1>3 DEF Taken
    <2>4. Taken(p) => Holds(p)' \subseteq Kept'
      <3>. SUFFICES ASSUME Taken(p) PROVE Holds(p)' \subseteq Kept
        BY <2>2
      <3>1. roots[p] \subseteq Kept
        BY <1>0, <1>5 DEF KeptInv
      <3>2. field[o] \in Kept \cup {Null}
        BY <1>0, <1>5, <3>1, KeptLoad
      <3>. QED
        BY <1>0, <1>6, <3>1, <3>2
    <2>5. \A q \in Proc : Taken(q)' => \/ Holds(q)' \subseteq Kept'
                                       \/ Taken(q) /\ Holds(q)' \subseteq Holds(q)
      BY <1>6, <2>3, <2>4
    <2>6. \A x \in Live' : color'[x] = Black(CycleEpoch') /\ x \notin GrayNow' =>
            x \in Live /\ color[x] = Black(CycleEpoch) /\ x \notin GrayNow /\ field'[x] = field[x]
      BY <1>0, <1>7, <1>8
    <2>7. \A x \in Obj : ~Steady(x)' => ~Steady(x) /\ field'[x] = field[x]
      BY <1>0, <2>1
    <2>8. barrier'[Main] = "ASYNC" => barrier[Main] = "ASYNC" /\ groots' \subseteq groots
      BY <1>0
    <2>. QED
      BY <1>0, <2>2, <2>5, <2>6, <2>7, <2>8, KeptStays
  <1>. QED
    BY <1>9, <1>10, <1>11, <1>12, <1>13, <1>14 DEF HeapInv

(* The write itself.  Until all processors have taken their snapshots the  *)
(* new value is marked too, as the object may have been scanned, or        *)
(* another write to it be in progress.                                     *)
LEMMA HeapStoreWrite ==
  ASSUME Safe, TypeOK', NEW p \in Proc, StoreWrite(p), CycleEpoch' = CycleEpoch
  PROVE  HeapInv'
  <1>. DEFINE o == store[p].obj
  <1>. DEFINE v == store[p].val
  <1>0. /\ Base /\ EpochInv /\ TypeOK /\ ColorsInv /\ GrayInv /\ AllocInv /\ StoreInv /\ OverwriteInv
        /\ KeptInv /\ Main \in Proc /\ p \in Unit /\ pc[p] = "write"
        /\ UNCHANGED <<color, roots, groots, scan, allocColor, phase, arg, listed, gray, barrier,
                       lphase, epoch>>
    BY ProcAssumption
    DEF Safe, Base, HeapInv, StoreWrite, slicevars, cyclevars, rtvars, workvars, Unit
  <1>1. /\ o \in roots[p] /\ v \in roots[p] \cup {Null} /\ barrier[p] # "NONE" /\ ~Starting(p)
        /\ barrier[p] = BarrierOf[lphase[p]] /\ lphase[p] \in {phase, Pred[phase]} /\ phase \in Phase
        /\ p \in Member
    BY <1>0, Writing
  <1>2. o \in Obj /\ v \in Obj \cup {Null} /\ o # Null
    BY <1>0, <1>1, HeapAssumption DEF TypeOK
  <1>3. /\ pc'[p] = "run" /\ \A u \in Unit \ {p} : pc'[u] = pc[u]
        /\ store'[p] = NoStore /\ \A q \in Proc \ {p} : store'[q] = store[q]
        /\ field'[o] = v /\ \A x \in Obj \ {o} : field'[x] = field[x]
    BY <1>0, <1>2 DEF StoreWrite, Goto, TypeOK
  <1>4. phase # "IDLE" => Marked(store[p].old) /\ (barrier[p] = "SYNC" => Marked(v))
    BY <1>0 DEF StoreInv
  <1>5. Holds(p)' \subseteq Holds(p) /\ \A q \in Proc \ {p} : Holds(q)' = Holds(q)
    BY <1>0, <1>3 DEF Holds, NoStore
  <1>6. \A q \in Proc \ {p} : store[q].obj # Null => pc[q] \in {"barrier", "write"}
    BY <1>0 DEF StoreInv, NoStore
  <1>. HIDE DEF o, v
  <1>7. \A q \in Proc : (Starting(q)' <=> Starting(q)) /\ (Taken(q)' <=> Taken(q))
    <2>1. \A q \in Proc : Starting(q)' <=> Starting(q)
      BY <1>0, <1>3 DEF Starting, Unit
    <2>. QED
      BY <1>0, <2>1 DEF Taken
  <1>8. Member' = Member /\ GrayNow' = GrayNow /\ Awaited' = Awaited
    BY <1>0, <1>3 DEF Member, TypeOK, Unit, GrayNow, Awaited
  <1>9. /\ groots \subseteq Live /\ Live \subseteq Obj /\ roots[p] \subseteq Live
        /\ \A q \in Proc : Holds(q) \subseteq Live
        /\ \A x \in Live : field[x] \in Live \cup {Null}
    BY <1>0, LiveClosed
  <1>10. Live' \subseteq Live
    <2>1. \A x \in Live : field'[x] \in Live \cup {Null}
      BY <1>1, <1>3, <1>9
    <2>2. \A q \in Proc : Holds(q)' \subseteq Live
      BY <1>5, <1>9
    <2>. QED
      BY <1>0, <1>9, <2>1, <2>2, LiveWithin
  <1>11. ColorsInv'
    BY <1>0, <1>10 DEF ColorsInv, LiveColors
  <1>12. GrayInv'
    <2>1. \A u \in Unit : /\ scan[u] # Null => pc'[u] = "mark"
                          /\ pc'[u] = "mark" => phase = "ASYNC"
      BY <1>0, <1>3 DEF GrayInv
    <2>2. \A q \in Proc : pc'[q] = "setEpoch" => gray[q] = {}
      BY <1>0, <1>3 DEF GrayInv, Unit
    <2>. QED
      BY <1>0, <2>1, <2>2 DEF GrayInv
  <1>13. AllocInv'
    BY <1>0, <1>7, <1>8, AllocSame
  <1>14. StoreInv'
    <2>. SUFFICES ASSUME NEW q \in Proc
                  PROVE  /\ pc'[q] \notin {"barrier", "write"} => store'[q] = NoStore
                         /\ pc'[q] \in {"barrier", "write"} =>
                              /\ store'[q].obj \in roots[q] /\ store'[q].val \in roots[q] \cup {Null}
                              /\ barrier[q] # "NONE"
                         /\ pc'[q] = "write" /\ phase # "IDLE" =>
                              /\ Marked(store[q].old)'
                              /\ barrier[q] = "SYNC" => Marked(store[q].val)'
                         /\ pc'[q] \in {"off", "unlist"} => roots[q] = {}
      BY <1>0 DEF StoreInv
    <2>1. CASE q = p
      BY <1>3, <2>1
    <2>2. CASE q # p
      <3>1. pc'[q] = pc[q] /\ store'[q] = store[q]
        BY <1>3, <2>2 DEF Unit
      <3>. QED
        BY <1>0, <3>1 DEF StoreInv, Marked
    <2>. QED
      BY <2>1, <2>2
  <1>15. ASSUME phase = "SYNC2" \/ (phase = "ASYNC" /\ ~Taken(p))
         PROVE  Marked(v)
    <2>1. barrier[p] = "SYNC"
      BY <1>1, <1>15 DEF Taken, BarrierOf, Pred, Phase
    <2>. QED
      BY <1>4, <1>15, <2>1
  <1>16. OverwriteInv'
    <2>. SUFFICES ASSUME phase = "SYNC2", NEW q \in Proc, store'[q].obj # Null, lphase[q] = "SYNC2",
                         store'[q].old # field'[store'[q].obj]
                  PROVE  field'[store'[q].obj] = Null \/ color[field'[store'[q].obj]] # White(CycleEpoch)
      BY <1>0 DEF OverwriteInv, Marked
    <2>1. q # p /\ store'[q] = store[q]
      BY <1>3 DEF NoStore
    <2>2. store[q].obj \in Obj
      BY <1>0, <2>1 DEF TypeOK
    <2>3. CASE store[q].obj = o
      BY <1>3, <1>15, <2>1, <2>3 DEF Marked
    <2>4. CASE store[q].obj # o
      <3>1. field'[store[q].obj] = field[store[q].obj]
        BY <1>3, <2>2, <2>4
      <3>2. Marked(field[store[q].obj])
        BY <1>0, <2>1, <3>1 DEF OverwriteInv
      <3>. QED
        BY <2>1, <3>1, <3>2 DEF Marked
    <2>. QED
      BY <2>3, <2>4
  <1>17. KeptInv'
    <2>. SUFFICES ASSUME phase = "ASYNC" PROVE KeptInv'
      BY <1>0 DEF KeptInv
    <2>1. \A x \in Obj \ {o} : Steady(x)' <=> Steady(x)
      <3>. SUFFICES ASSUME NEW x \in Obj, x # o
                    PROVE  Steady(x)' <=> Steady(x)
        OBVIOUS
      <3>1. x # Null /\ field'[x] = field[x]
        BY <1>3, HeapAssumption
      <3>2. store'[p].obj # x /\ store[p].obj # x
        BY <1>3, <3>1 DEF NoStore, o
      <3>. QED
        BY <1>3, <3>1, <3>2 DEF Steady
    <2>2. Steady(o) => field[o] = store[p].old
      BY <1>2 DEF Steady, o
    <2>3. Kept \subseteq Kept'
      <3>1. ASSUME NEW x \in Obj, Steady(x), field[x] # Null, color'[field[x]] = White(CycleEpoch)
            PROVE  Steady(x)' /\ field'[x] = field[x]
        <4>1. x # o
          BY <1>0, <1>4, <2>2, <3>1 DEF Marked
        <4>. QED
          BY <1>3, <2>1, <3>1, <4>1
      <3>2. Kept \subseteq Kept' \cup {}
        BY <1>0, <1>8, <3>1, KeptGrows
      <3>. QED
        BY <3>2
    <2>4. v \in Kept' \cup {Null}
      <3>1. CASE Taken(p)
        <4>1. roots[p] \subseteq Kept
          BY <1>0, <3>1 DEF KeptInv, Holds
        <4>. QED
          BY <1>1, <2>3, <4>1
      <3>2. CASE ~Taken(p)
        <4>1. Marked(v)
          BY <1>15, <3>2
        <4>2. v = Null \/ (v \in Obj /\ color'[v] # White(CycleEpoch'))
          BY <1>0, <1>2, <4>1 DEF Marked
        <4>. QED
          BY <4>2, KeptIsClosedNext
      <3>. QED
        BY <3>1, <3>2
    <2>5. \A q \in Proc : Taken(q)' => Taken(q) /\ Holds(q)' \subseteq Holds(q)
      BY <1>5, <1>7
    <2>6. \A x \in Live' : color'[x] = Black(CycleEpoch') /\ x \notin GrayNow' =>
            \/ field'[x] \in Kept' \cup {Null}
            \/ x \in Live /\ color[x] = Black(CycleEpoch) /\ x \notin GrayNow /\ field'[x] = field[x]
      BY <1>0, <1>3, <1>8, <1>9, <1>10, <2>4
    <2>7. \A x \in Obj : ~Steady(x)' => \/ field'[x] \in Kept' \cup {Null}
                                        \/ ~Steady(x) /\ field'[x] = field[x]
      BY <1>3, <2>1, <2>4
    <2>8. barrier'[Main] = "ASYNC" => barrier[Main] = "ASYNC" /\ groots' \subseteq groots
      BY <1>0
    <2>. QED
      BY <1>0, <2>3, <2>5, <2>6, <2>7, <2>8, KeptStays
  <1>. QED
    BY <1>11, <1>12, <1>13, <1>14, <1>16, <1>17 DEF HeapInv

-----------------------------------------------------------------------------
(* Shading.                                                                *)

(* chiMark makes white objects gray, and changes no others; what it is     *)
(* given is marked.                                                        *)
LEMMA ShadeFacts ==
  ASSUME TypeOK, NEW u \in Unit, NEW S \in SUBSET Obj, Shade(u, S), epoch[u] = CycleEpoch
  PROVE  /\ \A o \in Obj : color[o] # White(CycleEpoch) => color'[o] = color[o]
         /\ \A o \in Obj : color[o] = White(CycleEpoch) =>
              \/ color'[o] = White(CycleEpoch) /\ o \notin S
              \/ color'[o] = Gray(CycleEpoch) /\ o \in gray'[u]
         /\ \A v \in Unit \cup {Global} : v # u => gray'[v] = gray[v]
         /\ gray[u] \subseteq gray'[u]
         /\ \A o \in gray'[u] : o \in gray[u] \/ (o \in Obj /\ color[o] = White(CycleEpoch) /\ color'[o] = Gray(CycleEpoch))
  <1>. DEFINE W == White2Gray(S, epoch[u])
  <1>1. W \subseteq Obj /\ \A o \in Obj : o \in W <=> o \in S /\ color[o] = White(CycleEpoch)
    BY DEF White2Gray
  <1>2. \A o \in Obj : color'[o] = IF o \in W THEN Gray(CycleEpoch) ELSE color[o]
    BY DEF Shade
  <1>3. /\ gray'[u] = gray[u] \cup W
        /\ \A v \in Unit \cup {Global} : v # u => gray'[v] = gray[v]
    BY DEF Shade, TypeOK
  <1>. HIDE DEF W
  <1>. QED
    BY <1>1, <1>2, <1>3

(* A step that shades, outside the idle phase, by somebody who is not      *)
(* about to leave the cycle.  The field of a scanned object may be what it *)
(* shades, and a snapshot may be taken.                                    *)
LEMMA HeapShade ==
  ASSUME Safe, TypeOK', NEW u \in Unit, NEW S \in SUBSET Obj, Shade(u, S), epoch[u] = CycleEpoch,
         CycleEpoch' = CycleEpoch, phase # "IDLE",
         UNCHANGED <<field, roots, groots, store, phase, arg, lphase, listed>>,
         \A x \in Unit : /\ scan'[x] = scan[x] \/ (x = u /\ scan'[x] = Null)
                         /\ scan'[x] # Null => pc'[x] = pc[x]
                         /\ pc'[x] = "mark" => pc[x] = "mark",
         scan'[u] # scan[u] => field[scan[u]] \in S \cup {Null},
         \A p \in Proc : /\ pc'[p] = "setEpoch" => pc[p] = "setEpoch" /\ p # u
                         /\ Starting(p)' <=> Starting(p)
                         /\ pc'[p] \in {"barrier", "write"} <=> pc[p] \in {"barrier", "write"}
                         /\ pc'[p] = "write" /\ pc[p] # "write" =>
                              /\ store[p].old \in S \cup {Null}
                              /\ barrier[p] = "SYNC" => store[p].val \in S \cup {Null}
                         /\ pc'[p] \in {"off", "unlist"} => pc[p] \in {"off", "unlist"}
                         /\ \/ barrier'[p] = barrier[p]
                            \/ phase = "ASYNC" /\ p = u /\ pc[p] = "local" /\ roots[p] \subseteq S
                               /\ (p = Main => groots \subseteq S),
         AllocInv'
  PROVE  HeapInv'
  <1>0. /\ Base /\ EpochInv /\ TypeOK /\ ColorsInv /\ GrayInv /\ StoreInv /\ OverwriteInv
        /\ KeptInv /\ Main \in Proc /\ CycleEpoch \in Epoch
        /\ UNCHANGED <<field, roots, groots, store, phase, arg, lphase, listed>>
    BY ProcAssumption, CycleEpochType DEF Safe, Base, HeapInv
  <1>1. /\ \A o \in Obj : color[o] # White(CycleEpoch) => color'[o] = color[o]
        /\ \A o \in Obj : color[o] = White(CycleEpoch) =>
              \/ color'[o] = White(CycleEpoch) /\ o \notin S
              \/ color'[o] = Gray(CycleEpoch) /\ o \in gray'[u]
        /\ \A v \in Unit \cup {Global} : v # u => gray'[v] = gray[v]
        /\ gray[u] \subseteq gray'[u]
        /\ \A o \in gray'[u] : o \in gray[u] \/ (o \in Obj /\ color[o] = White(CycleEpoch) /\ color'[o] = Gray(CycleEpoch))
    BY <1>0, ShadeFacts
  <1>2. /\ White(CycleEpoch) # Gray(CycleEpoch) /\ White(CycleEpoch) # Black(CycleEpoch)
        /\ Gray(CycleEpoch) # Black(CycleEpoch) /\ ~White(CycleEpoch).shaded
    BY <1>0, ColorsDiffer
  <1>4. \A p \in Proc : Holds(p)' = Holds(p)
    BY <1>0 DEF Holds
  <1>5. Live' \subseteq Live /\ Live \subseteq Obj
    BY <1>0, <1>4, LiveKept, LiveClosed
  <1>6. ColorsInv'
    <2>1. LiveColors' = LiveColors /\ Gray(CycleEpoch) \in LiveColors
      BY <1>0 DEF LiveColors
    <2>. QED
      BY <1>0, <1>1, <1>5, <2>1 DEF ColorsInv
  <1>7. GrayInv'
    <2>1. \A v, w \in Unit \cup {Global} : v # w => gray'[v] \cap gray'[w] = {}
      <3>1. \A v \in Unit \cup {Global} : \A o \in gray[v] : o \in Obj /\ color[o] = Gray(CycleEpoch)
        BY <1>0 DEF GrayInv, TypeOK
      <3>2. \A v \in Unit \cup {Global} : v # u => gray'[u] \cap gray[v] = {}
        BY <1>0, <1>1, <1>2, <3>1 DEF GrayInv
      <3>. QED
        BY <1>0, <1>1, <3>2 DEF GrayInv
    <2>2. \A v \in Unit \cup {Global} : \A o \in gray'[v] : color'[o] = Gray(CycleEpoch)
      <3>1. \A v \in Unit \cup {Global} : \A o \in gray[v] : o \in Obj /\ color[o] = Gray(CycleEpoch)
        BY <1>0 DEF GrayInv, TypeOK
      <3>. QED
        BY <1>1, <1>2, <3>1
    <2>3. \A o \in Obj : color'[o] # Free /\ color'[o].shaded => \E v \in Unit \cup {Global} : o \in gray'[v]
      <3>1. \A o \in Obj : color[o] # Free /\ color[o].shaded => \E v \in Unit \cup {Global} : o \in gray[v]
        BY <1>0 DEF GrayInv
      <3>2. \A v \in Unit \cup {Global} : gray[v] \subseteq gray'[v]
        BY <1>1
      <3>. QED
        BY <1>1, <1>2, <3>1, <3>2
    <2>4. \A x \in Unit : scan'[x] # Null => pc'[x] = "mark" /\ color'[scan'[x]] = Black(CycleEpoch)
      <3>1. \A x \in Unit : scan[x] # Null => scan[x] \in Obj /\ color[scan[x]] = Black(CycleEpoch)
        BY <1>0 DEF GrayInv, TypeOK
      <3>2. \A x \in Unit : scan'[x] # Null => scan'[x] = scan[x] /\ pc'[x] = pc[x]
        OBVIOUS
      <3>. QED
        BY <1>0, <1>1, <1>2, <3>1, <3>2 DEF GrayInv
    <2>5. \A x \in Unit : pc'[x] = "mark" => phase = "ASYNC"
      BY <1>0 DEF GrayInv
    <2>6. \A p \in Proc : pc'[p] = "setEpoch" => gray'[p] = {}
      BY <1>0, <1>1 DEF GrayInv, Unit
    <2>. QED
      BY <1>0, <2>1, <2>2, <2>3, <2>4, <2>5, <2>6 DEF GrayInv
  <1>8. StoreInv'
    <2>. SUFFICES ASSUME NEW p \in Proc
                  PROVE  /\ pc'[p] \notin {"barrier", "write"} => store[p] = NoStore
                         /\ pc'[p] \in {"barrier", "write"} =>
                              /\ store[p].obj \in roots[p] /\ store[p].val \in roots[p] \cup {Null}
                              /\ barrier'[p] # "NONE"
                         /\ pc'[p] = "write" =>
                              /\ Marked(store[p].old)'
                              /\ barrier'[p] = "SYNC" => Marked(store[p].val)'
                         /\ pc'[p] \in {"off", "unlist"} => roots[p] = {}
      BY <1>0 DEF StoreInv
    <2>1. /\ pc'[p] \notin {"barrier", "write"} => store[p] = NoStore
          /\ pc'[p] \in {"off", "unlist"} => roots[p] = {}
      BY <1>0 DEF StoreInv
    <2>2. ASSUME pc'[p] \in {"barrier", "write"}
          PROVE  /\ store[p].obj \in roots[p] /\ store[p].val \in roots[p] \cup {Null}
                 /\ barrier[p] # "NONE" /\ barrier'[p] = barrier[p]
      BY <1>0, <2>2 DEF StoreInv
    <2>3. ASSUME pc'[p] = "write"
          PROVE  /\ Marked(store[p].old)'
                 /\ barrier[p] = "SYNC" => Marked(store[p].val)'
      <3>1. CASE pc[p] = "write"
        <4>1. store[p].old \in Obj \cup {Null} /\ store[p].val \in Obj \cup {Null}
          BY <1>0 DEF TypeOK
        <4>2. Marked(store[p].old) /\ (barrier[p] = "SYNC" => Marked(store[p].val))
          BY <1>0, <3>1 DEF StoreInv
        <4>3. Marked(store[p].old)'
          BY <1>0, <1>1, <1>2, <4>1, <4>2 DEF Marked
        <4>4. Marked(store[p].val) => Marked(store[p].val)'
          BY <1>0, <1>1, <1>2, <4>1 DEF Marked
        <4>. QED
          BY <4>2, <4>3, <4>4
      <3>2. CASE pc[p] # "write"
        <4>1. /\ store[p].old \in S \cup {Null}
              /\ barrier[p] = "SYNC" => store[p].val \in S \cup {Null}
          BY <2>3, <3>2
        <4>. QED
          BY <1>0, <1>1, <1>2, <4>1 DEF Marked
      <3>. QED
        BY <3>1, <3>2
    <2>. QED
      BY <2>1, <2>2, <2>3
  <1>9. OverwriteInv'
    <2>. SUFFICES ASSUME phase = "SYNC2", NEW p \in Proc, store[p].obj # Null, lphase[p] = "SYNC2",
                         store[p].old # field[store[p].obj]
                  PROVE  Marked(field[store[p].obj])'
      BY <1>0 DEF OverwriteInv
    <2>1. Marked(field[store[p].obj])
      BY <1>0 DEF OverwriteInv
    <2>2. field[store[p].obj] \in Obj \cup {Null}
      BY <1>0 DEF TypeOK
    <2>. QED
      BY <1>0, <1>1, <1>2, <2>1, <2>2 DEF Marked
  <1>10. KeptInv'
    <2>. SUFFICES ASSUME phase = "ASYNC" PROVE KeptInv'
      BY <1>0 DEF KeptInv
    <2>1. \A x \in Obj : Steady(x)' <=> Steady(x)
      BY <1>0 DEF Steady
    <2>2. \A x \in GrayNow : x \in GrayNow' \/ (x = scan[u] /\ scan'[u] # scan[u])
      <3>1. \A v \in Unit \cup {Global} : gray[v] \subseteq gray'[v]
        BY <1>1
      <3>. QED
        BY <3>1 DEF GrayNow
    <2>3. \A x \in Obj : color'[x] # White(CycleEpoch) => x \in Kept'
      BY <1>0, KeptIsClosedNext
    <2>4. \A x \in S : x \in Kept'
      BY <1>1, <1>2, <2>3
    <2>5. Kept \subseteq Kept'
      <3>1. \A x \in Obj : color[x] # White(CycleEpoch) => color'[x] # White(CycleEpoch)
        BY <1>1
      <3>2. \A x \in Awaited : x \in Awaited' \/ color'[x] # White(CycleEpoch)
        <4>1. CASE barrier'[Main] = barrier[Main]
          BY <1>0, <4>1 DEF Awaited
        <4>2. CASE groots \subseteq S
          BY <1>1, <1>2, <4>2 DEF Awaited
        <4>. QED
          BY <1>0, <4>1, <4>2
      <3>3. \A x \in Obj : color[x] = White(CycleEpoch) /\ color'[x] # White(CycleEpoch) => x \in GrayNow'
        BY <1>1 DEF GrayNow
      <3>4. ASSUME NEW x \in Obj, x \in GrayNow, field[x] # Null, color'[field[x]] = White(CycleEpoch)
            PROVE  x \in GrayNow'
        BY <1>1, <1>2, <2>2, <3>4
      <3>5. Kept \subseteq Kept' \cup {}
        BY <1>0, <2>1, <3>1, <3>2, <3>3, <3>4, KeptGrows
      <3>. QED
        BY <3>5
    <2>6. ASSUME NEW p \in Proc, Taken(p)'
          PROVE  \/ Holds(p)' \subseteq Kept'
                 \/ Taken(p) /\ Holds(p)' \subseteq Holds(p)
      <3>1. CASE barrier'[p] = barrier[p]
        BY <1>0, <1>4, <2>6, <3>1 DEF Taken
      <3>2. CASE pc[p] = "local" /\ roots[p] \subseteq S
        <4>1. Holds(p) = roots[p]
          BY <1>0, <3>2 DEF StoreInv, Holds, NoStore
        <4>. QED
          BY <1>4, <2>4, <3>2, <4>1
      <3>. QED
        BY <3>1, <3>2
    <2>7. barrier'[Main] = "ASYNC" => \/ groots' \subseteq Kept'
                                      \/ barrier[Main] = "ASYNC" /\ groots' \subseteq groots
      <3>1. barrier'[Main] = barrier[Main] \/ groots \subseteq S
        BY <1>0
      <3>. QED
        BY <1>0, <2>4, <3>1
    <2>8. ASSUME NEW x \in Live', color'[x] = Black(CycleEpoch'), x \notin GrayNow'
          PROVE  \/ field'[x] \in Kept' \cup {Null}
                 \/ x \in Live /\ color[x] = Black(CycleEpoch) /\ x \notin GrayNow /\ field'[x] = field[x]
      <3>1. x \in Live /\ color[x] = Black(CycleEpoch)
        BY <1>0, <1>1, <1>2, <1>5, <2>8
      <3>2. x \in GrayNow => field[x] \in S \cup {Null}
        BY <2>2, <2>8
      <3>. QED
        BY <1>0, <2>4, <3>1, <3>2
    <2>9. \A x \in Obj : ~Steady(x)' => ~Steady(x) /\ field'[x] = field[x]
      BY <1>0, <2>1
    <2>. QED
      BY <1>0, <2>5, <2>6, <2>7, <2>8, <2>9, KeptStays
  <1>. QED
    BY <1>6, <1>7, <1>8, <1>9, <1>10 DEF HeapInv

(* chiMarkBarrier.  A processor that has not yet noticed the end of the    *)
(* cycle shades nothing: what is alive has the colour it takes for black.  *)
LEMMA HeapMarkBarrier ==
  ASSUME Safe, TypeOK', NEW p \in Proc, MarkBarrier(p), CycleEpoch' = CycleEpoch
  PROVE  HeapInv'
  <1>. DEFINE S == BarrierSet(p) \ {Null}
  <1>0. /\ Base /\ EpochInv /\ TypeOK /\ ColorsInv /\ GrayInv /\ AllocInv /\ StoreInv /\ KeptInv
        /\ Main \in Proc /\ p \in Unit /\ pc[p] = "barrier" /\ Goto(p, "write") /\ Shade(p, S)
        /\ UNCHANGED <<field, roots, groots, store, scan, allocColor, phase, arg, listed, barrier,
                       lphase, epoch>>
    BY ProcAssumption
    DEF Safe, Base, HeapInv, MarkBarrier, slicevars, cyclevars, rtvars, workvars, Unit
  <1>1. /\ barrier[p] = BarrierOf[lphase[p]] /\ barrier[p] # "NONE"
        /\ lphase[p] \in {phase, Pred[phase]} /\ phase \in Phase /\ p \in Member
    BY <1>0, Writing
  <1>2. /\ pc'[p] = "write" /\ \A u \in Unit \ {p} : pc'[u] = pc[u]
    BY <1>0 DEF Goto, TypeOK
  <1>3. \A q \in Proc : Starting(q)' <=> Starting(q)
    BY <1>0, <1>2 DEF Starting, Unit
  <1>4. Member' = Member
    BY <1>0, <1>2 DEF Member, TypeOK, Unit
  <1>5. AllocInv'
    BY <1>0, <1>3, <1>4, AllocSame
  <1>6. S \in SUBSET Obj /\ S \subseteq Live
    <2>1. /\ store[p].old \in Live \cup {Null} /\ store[p].val \in Live \cup {Null}
          /\ store[p].old \in Obj \cup {Null} /\ store[p].val \in Obj \cup {Null}
      BY <1>0, RegistersLive DEF TypeOK
    <2>. QED
      BY <2>1 DEF BarrierSet
  <1>7. /\ store[p].old \in S \cup {Null}
        /\ barrier[p] = "SYNC" => store[p].val \in S \cup {Null}
    BY DEF BarrierSet
  <1>. HIDE DEF S
  <1>8. CASE phase # "IDLE"
    <2>1. epoch[p] = CycleEpoch
      BY <1>0, <1>1, <1>8, MemberEpoch
    <2>2. \A x \in Unit : /\ scan'[x] = scan[x]
                          /\ scan'[x] # Null => pc'[x] = pc[x]
                          /\ pc'[x] = "mark" => pc[x] = "mark"
      BY <1>0, <1>2 DEF GrayInv
    <2>3. \A q \in Proc : /\ pc'[q] = "setEpoch" => pc[q] = "setEpoch" /\ q # p
                          /\ pc'[q] \in {"barrier", "write"} <=> pc[q] \in {"barrier", "write"}
                          /\ pc'[q] = "write" /\ pc[q] # "write" => q = p
                          /\ pc'[q] \in {"off", "unlist"} => pc[q] \in {"off", "unlist"}
      BY <1>0, <1>2 DEF Unit
    <2>. QED
      BY <1>0, <1>3, <1>5, <1>6, <1>7, <1>8, <2>1, <2>2, <2>3, HeapShade
  <1>9. CASE phase = "IDLE"
    <2>1. NextEpoch(epoch[p]) = CycleEpoch /\ epoch[p] \in Epoch
      BY <1>0, <1>1, <1>9, MemberEpoch DEF BarrierOf, Pred
    <2>2. \A o \in S : color[o] # White(epoch[p])
      <3>1. \A o \in S : color[o] = White(CycleEpoch)
        BY <1>0, <1>6, <1>9 DEF ColorsInv, LiveColors
      <3>. QED
        BY <2>1, <3>1, ColorsDiffer
    <2>3. White2Gray(S, epoch[p]) = {}
      BY <2>2 DEF White2Gray
    <2>4. color' = color /\ gray' = gray
      BY <1>0, <2>3 DEF Shade, TypeOK
    <2>5. \A q \in Proc : Holds(q)' = Holds(q)
      BY <1>0 DEF Holds
    <2>6. Live' \subseteq Live
      BY <1>0, <2>5, LiveKept, LiveClosed
    <2>7. ColorsInv'
      BY <1>0, <2>4, <2>6 DEF ColorsInv, LiveColors
    <2>8. GrayInv'
      <3>1. \A u \in Unit : /\ scan[u] # Null => pc'[u] = "mark"
                            /\ pc'[u] = "mark" => phase = "ASYNC"
        BY <1>0, <1>2 DEF GrayInv
      <3>2. \A q \in Proc : pc'[q] = "setEpoch" => gray[q] = {}
        BY <1>0, <1>2 DEF GrayInv, Unit
      <3>. QED
        BY <1>0, <2>4, <3>1, <3>2 DEF GrayInv
    <2>9. StoreInv'
      <3>1. \A q \in Proc : /\ pc'[q] \in {"barrier", "write"} <=> pc[q] \in {"barrier", "write"}
                            /\ pc'[q] \in {"off", "unlist"} => pc[q] \in {"off", "unlist"}
        BY <1>0, <1>2 DEF Unit
      <3>. QED
        BY <1>0, <1>9, <3>1 DEF StoreInv
    <2>10. OverwriteInv' /\ KeptInv'
      BY <1>0, <1>9 DEF OverwriteInv, KeptInv
    <2>. QED
      BY <1>5, <2>7, <2>8, <2>9, <2>10 DEF HeapInv
  <1>. QED
    BY <1>8, <1>9

(* The snapshot: from now on everything the processor holds is kept.       *)
LEMMA HeapSnapshot ==
  ASSUME Safe, TypeOK', NEW p \in Proc, Snapshot(p), CycleEpoch' = CycleEpoch
  PROVE  HeapInv'
  <1>. DEFINE S == MarkedRoots(p)
  <1>0. /\ Base /\ EpochInv /\ TypeOK /\ ColorsInv /\ GrayInv /\ AllocInv /\ StoreInv /\ KeptInv
        /\ Main \in Proc /\ p \in Unit /\ pc[p] = "local" /\ Goto(p, "snapshot") /\ Shade(p, S)
        /\ seen[p] = "ASYNC" /\ lphase[p] = "SYNC2"
        /\ UNCHANGED <<field, roots, groots, store, scan, phase, arg, listed, lphase, epoch>>
    BY ProcAssumption
    DEF Safe, Base, HeapInv, Snapshot, slicevars, cyclevars, rtvars, workvars, Unit
  <1>1. p \in Member /\ phase = "ASYNC" /\ epoch[p] = CycleEpoch
    <2>1. p \in Member
      BY <1>0, ListedMember
    <2>2. phase = "ASYNC"
      BY <1>0, <2>1 DEF Base, LockstepInv, Following
    <2>. QED
      BY <1>0, <2>1, <2>2, MemberEpoch
  <1>2. /\ pc'[p] = "snapshot" /\ \A u \in Unit \ {p} : pc'[u] = pc[u]
        /\ barrier'[p] = "ASYNC" /\ allocColor'[p] = Black(CycleEpoch)
        /\ \A q \in Proc \ {p} : barrier'[q] = barrier[q] /\ allocColor'[q] = allocColor[q]
    BY <1>0, <1>1 DEF Goto, TypeOK, Snapshot
  <1>3. \A q \in Proc : Starting(q)' <=> Starting(q)
    BY <1>0, <1>2 DEF Starting, Unit
  <1>4. Member' = Member /\ Member \subseteq Proc
    BY <1>0, <1>2 DEF Member, TypeOK, Unit
  <1>5. \A q \in Proc : Starting(q) => arg[q].from \in Proc \ {p}
    BY <1>0 DEF Base, LockstepInv, Handover, Starting
  <1>6. AllocInv'
    <2>1. \A q \in Proc : Starting(q)' => arg'[q].alloc = allocColor'[arg'[q].from]
      BY <1>0, <1>2, <1>3, <1>5 DEF AllocInv
    <2>2. \A q \in Member' :
            allocColor'[q] = IF phase = "ASYNC" /\ barrier'[q] = "ASYNC" THEN Black(CycleEpoch)
                             ELSE White(CycleEpoch)
      BY <1>0, <1>1, <1>2, <1>4 DEF AllocInv
    <2>. QED
      BY <1>0, <2>1, <2>2 DEF AllocInv
  <1>7. /\ S \in SUBSET Obj /\ roots[p] \subseteq S /\ (p = Main => groots \subseteq S)
    BY <1>0 DEF MarkedRoots, TypeOK
  <1>. HIDE DEF S
  <1>8. \A x \in Unit : /\ scan'[x] = scan[x]
                        /\ scan'[x] # Null => pc'[x] = pc[x]
                        /\ pc'[x] = "mark" => pc[x] = "mark"
    BY <1>0, <1>2 DEF GrayInv
  <1>9. \A q \in Proc : /\ pc'[q] = "setEpoch" => pc[q] = "setEpoch" /\ q # p
                        /\ pc'[q] \in {"barrier", "write"} <=> pc[q] \in {"barrier", "write"}
                        /\ pc'[q] = "write" => pc[q] = "write"
                        /\ pc'[q] \in {"off", "unlist"} => pc[q] \in {"off", "unlist"}
    BY <1>0, <1>2 DEF Unit
  <1>10. \A q \in Proc : \/ barrier'[q] = barrier[q]
                         \/ phase = "ASYNC" /\ q = p /\ pc[q] = "local" /\ roots[q] \subseteq S
                            /\ (q = Main => groots \subseteq S)
    BY <1>0, <1>1, <1>2, <1>7
  <1>. QED
    BY <1>0, <1>1, <1>3, <1>6, <1>7, <1>8, <1>9, <1>10, HeapShade

-----------------------------------------------------------------------------
(* Marking and sweeping.                                                   *)

(* What a scanned object refers to is shaded.                              *)
LEMMA HeapMarkField ==
  ASSUME Safe, TypeOK', NEW u \in Unit, MarkField(u), CycleEpoch' = CycleEpoch
  PROVE  HeapInv'
  <1>. DEFINE S == {field[scan[u]]} \ {Null}
  <1>0. /\ Base /\ EpochInv /\ CleanEnd /\ TypeOK /\ GrayInv /\ AllocInv
        /\ pc[u] = "mark" /\ scan[u] # Null /\ Shade(u, S)
        /\ UNCHANGED <<field, roots, groots, store, phase, arg, listed, lphase, epoch, barrier, allocColor, pc>>
    BY DEF Safe, Base, HeapInv, MarkField, slicevars, cyclevars, rtvars
  <1>1. epoch[u] = CycleEpoch /\ phase = "ASYNC"
    BY <1>0, MarkerEpoch
  <1>2. S \in SUBSET Obj
    BY <1>0 DEF TypeOK
  <1>3. scan'[u] = Null /\ \A x \in Unit \ {u} : scan'[x] = scan[x]
    BY <1>0 DEF MarkField, TypeOK
  <1>4. \A q \in Proc : Starting(q)' <=> Starting(q)
    BY <1>0 DEF Starting
  <1>5. Member' = Member
    BY <1>0 DEF Member
  <1>6. AllocInv'
    BY <1>0, <1>4, <1>5, AllocSame
  <1>7. \A q \in Proc : pc[q] = "setEpoch" => q # u
    BY <1>0
  <1>8. field[scan[u]] \in S \cup {Null}
    OBVIOUS
  <1>. HIDE DEF S
  <1>. QED
    BY <1>0, <1>1, <1>2, <1>3, <1>4, <1>6, <1>7, <1>8, HeapShade

(* A gray object becomes black and is scanned.                             *)
LEMMA HeapMarkPop ==
  ASSUME Safe, TypeOK', NEW u \in Unit, NEW o \in Obj, MarkPop(u, o), CycleEpoch' = CycleEpoch
  PROVE  HeapInv'
  <1>0. /\ Base /\ EpochInv /\ CleanEnd /\ TypeOK /\ ColorsInv /\ GrayInv /\ AllocInv /\ StoreInv
        /\ OverwriteInv /\ KeptInv /\ Main \in Proc
        /\ pc[u] = "mark" /\ scan[u] = Null /\ o \in gray[u] /\ o # Null
        /\ UNCHANGED <<field, roots, groots, store, phase, arg, listed, lphase, epoch, barrier, allocColor, pc>>
    BY ProcAssumption, HeapAssumption
    DEF Safe, Base, HeapInv, MarkPop, slicevars, cyclevars, rtvars
  <1>1. epoch[u] = CycleEpoch /\ phase = "ASYNC" /\ CycleEpoch \in Epoch
    BY <1>0, MarkerEpoch, CycleEpochType
  <1>2. /\ White(CycleEpoch) # Gray(CycleEpoch) /\ White(CycleEpoch) # Black(CycleEpoch)
        /\ Gray(CycleEpoch) # Black(CycleEpoch) /\ ~Black(CycleEpoch).shaded
    BY <1>1, ColorsDiffer
  <1>3. color[o] = Gray(CycleEpoch)
    BY <1>0 DEF GrayInv
  <1>4. /\ color'[o] = Black(CycleEpoch) /\ \A x \in Obj \ {o} : color'[x] = color[x]
        /\ gray'[u] = gray[u] \ {o} /\ \A v \in Unit \cup {Global} : v # u => gray'[v] = gray[v]
        /\ scan'[u] = o /\ \A x \in Unit \ {u} : scan'[x] = scan[x]
    BY <1>0, <1>1, <1>2, <1>3 DEF MarkPop, TypeOK
  <1>5. \A v \in Unit \cup {Global} : o \notin gray'[v]
    BY <1>0, <1>4 DEF GrayInv
  <1>6. \A p \in Proc : Holds(p)' = Holds(p) /\ (Starting(p)' <=> Starting(p)) /\ (Taken(p)' <=> Taken(p))
    BY <1>0 DEF Holds, Starting, Taken
  <1>7. Member' = Member /\ Awaited' = Awaited
    BY <1>0 DEF Member, Awaited
  <1>8. Live' \subseteq Live /\ Live \subseteq Obj
    BY <1>0, <1>6, LiveKept, LiveClosed
  <1>9. \A x \in Obj : Steady(x)' <=> Steady(x)
    BY <1>0 DEF Steady
  <1>10. GrayNow' = GrayNow
    <2>1. GrayNow \subseteq GrayNow'
      <3>1. \A v \in Unit \cup {Global} : \A x \in gray[v] : x \in gray'[v] \/ x = scan'[u]
        BY <1>4
      <3>2. \A v \in Unit : scan[v] # Null => scan'[v] = scan[v]
        BY <1>0, <1>4
      <3>. QED
        BY <1>0, <1>4, <3>1, <3>2 DEF GrayNow
    <2>2. GrayNow' \subseteq GrayNow
      <3>1. \A v \in Unit \cup {Global} : gray'[v] \subseteq gray[v]
        BY <1>4
      <3>2. \A v \in Unit : scan'[v] = scan[v] \/ scan'[v] \in gray[u]
        BY <1>0, <1>4
      <3>. QED
        BY <3>1, <3>2 DEF GrayNow
    <2>. QED
      BY <2>1, <2>2
  <1>11. ColorsInv'
    <2>1. LiveColors' = LiveColors /\ Black(CycleEpoch) \in LiveColors
      BY <1>0, <1>1 DEF LiveColors
    <2>. QED
      BY <1>0, <1>4, <1>8, <2>1 DEF ColorsInv
  <1>12. GrayInv'
    <2>1. \A v, w \in Unit \cup {Global} : v # w => gray'[v] \cap gray'[w] = {}
      BY <1>0, <1>4 DEF GrayInv
    <2>2. \A v \in Unit \cup {Global} : \A x \in gray'[v] : color'[x] = Gray(CycleEpoch)
      <3>1. \A v \in Unit \cup {Global} : gray'[v] \subseteq gray[v] /\ gray[v] \subseteq Obj
        BY <1>0, <1>4 DEF TypeOK
      <3>. QED
        BY <1>0, <1>4, <1>5, <3>1 DEF GrayInv
    <2>3. \A x \in Obj : color'[x] # Free /\ color'[x].shaded => \E v \in Unit \cup {Global} : x \in gray'[v]
      <3>. SUFFICES ASSUME NEW x \in Obj, color'[x] # Free, color'[x].shaded
                    PROVE  \E v \in Unit \cup {Global} : x \in gray'[v]
        OBVIOUS
      <3>1. x # o /\ color'[x] = color[x]
        BY <1>2, <1>4
      <3>2. PICK v \in Unit \cup {Global} : x \in gray[v]
        BY <1>0, <3>1 DEF GrayInv
      <3>3. x \in gray'[v]
        BY <1>4, <3>1, <3>2
      <3>. QED
        BY <3>3
    <2>4. \A x \in Unit : scan'[x] # Null => pc[x] = "mark" /\ color'[scan'[x]] = Black(CycleEpoch)
      <3>1. \A x \in Unit : scan[x] # Null => scan[x] \in Obj /\ color[scan[x]] = Black(CycleEpoch) /\ pc[x] = "mark"
        BY <1>0 DEF GrayInv, TypeOK
      <3>. QED
        BY <1>0, <1>2, <1>3, <1>4, <3>1
    <2>5. \A p \in Proc : pc[p] = "setEpoch" => gray'[p] = {}
      BY <1>0, <1>4 DEF GrayInv, Unit
    <2>. QED
      BY <1>0, <1>1, <2>1, <2>2, <2>3, <2>4, <2>5 DEF GrayInv
  <1>13. AllocInv'
    BY <1>0, <1>6, <1>7, AllocSame
  <1>14. \A x \in Obj : color'[x] = White(CycleEpoch) <=> color[x] = White(CycleEpoch)
    BY <1>2, <1>3, <1>4
  <1>15. StoreInv' /\ OverwriteInv'
    <2>1. \A p \in Proc : /\ store[p].old \in Obj \cup {Null} /\ store[p].val \in Obj \cup {Null}
                          /\ store[p].obj # Null => field[store[p].obj] \in Obj \cup {Null}
      BY <1>0 DEF TypeOK
    <2>2. StoreInv'
      BY <1>0, <1>14, <2>1 DEF StoreInv, Marked
    <2>3. OverwriteInv'
      BY <1>0, <1>1 DEF OverwriteInv
    <2>. QED
      BY <2>2, <2>3
  <1>16. KeptInv'
    <2>1. Kept \subseteq Kept'
      <3>1. Kept \subseteq Kept' \cup {}
        BY <1>0, <1>7, <1>9, <1>10, <1>14, KeptGrows
      <3>. QED
        BY <3>1
    <2>2. \A p \in Proc : Taken(p)' => Taken(p) /\ Holds(p)' \subseteq Holds(p)
      BY <1>6
    <2>3. barrier'[Main] = "ASYNC" => barrier[Main] = "ASYNC" /\ groots' \subseteq groots
      BY <1>0
    <2>4. o \in GrayNow
      BY <1>0 DEF GrayNow
    <2>5. \A x \in Live' : color'[x] = Black(CycleEpoch') /\ x \notin GrayNow' =>
            x \in Live /\ color[x] = Black(CycleEpoch) /\ x \notin GrayNow /\ field'[x] = field[x]
      BY <1>0, <1>4, <1>8, <1>10, <2>4
    <2>6. \A x \in Obj : ~Steady(x)' => ~Steady(x) /\ field'[x] = field[x]
      BY <1>0, <1>9
    <2>. QED
      BY <1>0, <1>1, <2>1, <2>2, <2>3, <2>5, <2>6, KeptStays
  <1>. QED
    BY <1>11, <1>12, <1>13, <1>15, <1>16 DEF HeapInv

(* What is swept is neither alive nor white.                               *)
LEMMA HeapSweep ==
  ASSUME Safe, TypeOK', NEW u \in Unit, NEW o \in Obj, Sweep(u, o), CycleEpoch' = CycleEpoch
  PROVE  HeapInv'
  <1>0. /\ Base /\ EpochInv /\ CleanEnd /\ TypeOK /\ ColorsInv /\ GrayInv /\ AllocInv /\ StoreInv
        /\ OverwriteInv /\ KeptInv /\ Main \in Proc /\ CycleEpoch \in Epoch
        /\ pc[u] = "sweep" /\ o # Null
        /\ UNCHANGED <<roots, groots, store, phase, arg, listed, lphase, epoch, barrier, allocColor,
                       pc, scan, gray>>
    BY ProcAssumption, HeapAssumption, CycleEpochType
    DEF Safe, Base, HeapInv, Sweep, slicevars, rtvars, workvars
  <1>1. CASE ~Garbage(color[o], epoch[u])
    BY <1>0, <1>1, HeapStill DEF Safe, Sweep
  <1>2. CASE Garbage(color[o], epoch[u])
    <2>1. /\ epoch[u] \in Epoch
          /\ epoch[u] = CycleEpoch \/ (phase = "IDLE" /\ NextEpoch(epoch[u]) = CycleEpoch)
      BY <1>0, MarkerEpoch
    <2>2. /\ color[o] # White(CycleEpoch)
          /\ phase # "IDLE" => color[o] # Gray(CycleEpoch) /\ color[o] # Black(CycleEpoch)
      <3>1. /\ ~Garbage(White(epoch[u]), epoch[u]) /\ ~Garbage(Gray(epoch[u]), epoch[u])
            /\ ~Garbage(Black(epoch[u]), epoch[u]) /\ ~Garbage(White(NextEpoch(epoch[u])), epoch[u])
        BY <2>1, NoGarbage
      <3>. QED
        BY <1>2, <2>1, <3>1
    <2>3. o \notin Live
      BY <1>0, <2>2 DEF ColorsInv, LiveColors
    <2>4. \A v \in Unit \cup {Global} : o \notin gray[v]
      BY <1>0, <2>2 DEF GrayInv
    <2>5. \A v \in Unit : scan[v] # o
      BY <1>0, <2>2 DEF GrayInv
    <2>6. /\ color'[o] = Free /\ field'[o] = Null
          /\ \A x \in Obj \ {o} : color'[x] = color[x] /\ field'[x] = field[x]
      BY <1>0, <1>2 DEF Sweep, TypeOK
    <2>7. Free # White(CycleEpoch)
      BY <1>0, ColorsDiffer
    <2>8. \A p \in Proc : Holds(p)' = Holds(p) /\ (Starting(p)' <=> Starting(p)) /\ (Taken(p)' <=> Taken(p))
      BY <1>0 DEF Holds, Starting, Taken
    <2>9. Member' = Member /\ Awaited' = Awaited /\ GrayNow' = GrayNow
      BY <1>0 DEF Member, Awaited, GrayNow
    <2>10. o \notin GrayNow
      <3>1. o \notin UNION {gray[v] : v \in Unit \cup {Global}}
        BY <2>4
      <3>2. o \notin {scan[v] : v \in Unit}
        BY <2>5
      <3>. QED
        BY <3>1, <3>2 DEF GrayNow
    <2>11. /\ groots \subseteq Live /\ Live \subseteq Obj
           /\ \A p \in Proc : Holds(p) \subseteq Live
           /\ \A x \in Live : field[x] \in Live \cup {Null}
      BY <1>0, LiveClosed
    <2>12. Live' \subseteq Live
      <3>1. \A x \in Live : field'[x] \in Live \cup {Null}
        BY <2>3, <2>6, <2>11
      <3>2. \A p \in Proc : Holds(p)' \subseteq Live
        BY <2>8, <2>11
      <3>. QED
        BY <1>0, <2>11, <3>1, <3>2, LiveWithin
    <2>13. \A p \in Proc : store[p].obj # o
      BY <1>0, <2>3, RegistersLive
    <2>14. \A x \in Obj : (Steady(x)' <=> Steady(x)) /\ (x = o => Steady(x)')
      BY <1>0, <2>6, <2>13 DEF Steady
    <2>15. \A x \in Obj : color'[x] = White(CycleEpoch) <=> color[x] = White(CycleEpoch)
      BY <2>2, <2>6, <2>7
    <2>16. ColorsInv'
      <3>1. LiveColors' = LiveColors
        BY <1>0 DEF LiveColors
      <3>. QED
        BY <1>0, <2>3, <2>6, <2>11, <2>12, <3>1 DEF ColorsInv
    <2>17. GrayInv'
      <3>1. \A v \in Unit \cup {Global} : \A x \in gray[v] : color'[x] = Gray(CycleEpoch)
        BY <1>0, <2>4, <2>6 DEF GrayInv, TypeOK
      <3>2. \A x \in Obj : color'[x] # Free /\ color'[x].shaded => \E v \in Unit \cup {Global} : x \in gray[v]
        BY <1>0, <2>6 DEF GrayInv
      <3>3. \A v \in Unit : scan[v] # Null => color'[scan[v]] = Black(CycleEpoch)
        BY <1>0, <2>5, <2>6 DEF GrayInv, TypeOK
      <3>. QED
        BY <1>0, <3>1, <3>2, <3>3 DEF GrayInv
    <2>18. AllocInv'
      BY <1>0, <2>8, <2>9, AllocSame
    <2>19. StoreInv'
      <3>1. \A p \in Proc : store[p].old \in Obj \cup {Null} /\ store[p].val \in Obj \cup {Null}
        BY <1>0 DEF TypeOK
      <3>. QED
        BY <1>0, <2>15, <3>1 DEF StoreInv, Marked
    <2>20. OverwriteInv'
      <3>. SUFFICES ASSUME phase = "SYNC2", NEW p \in Proc, store[p].obj # Null, lphase[p] = "SYNC2",
                           store[p].old # field'[store[p].obj]
                    PROVE  field'[store[p].obj] = Null \/ color'[field'[store[p].obj]] # White(CycleEpoch)
        BY <1>0 DEF OverwriteInv, Marked
      <3>1. store[p].obj \in Obj
        BY <1>0 DEF TypeOK
      <3>2. field'[store[p].obj] = field[store[p].obj] /\ field[store[p].obj] \in Obj \cup {Null}
        BY <1>0, <2>6, <2>13, <3>1 DEF TypeOK
      <3>3. Marked(field[store[p].obj])
        BY <1>0, <3>2 DEF OverwriteInv
      <3>. QED
        BY <2>15, <3>2, <3>3 DEF Marked
    <2>21. KeptInv'
      <3>. SUFFICES ASSUME phase = "ASYNC" PROVE KeptInv'
        BY <1>0 DEF KeptInv
      <3>1. Kept \subseteq Kept'
        <4>1. \A x \in Obj : /\ x \in GrayNow \/ color[x] = White(CycleEpoch)
                             /\ Steady(x)
                             => Steady(x)' /\ field'[x] = field[x]
          BY <2>2, <2>6, <2>10, <2>14
        <4>2. Kept \subseteq Kept' \cup {}
          BY <1>0, <2>9, <2>15, <4>1, KeptGrows
        <4>. QED
          BY <4>2
      <3>2. \A p \in Proc : Taken(p)' => Taken(p) /\ Holds(p)' \subseteq Holds(p)
        BY <2>8
      <3>3. barrier'[Main] = "ASYNC" => barrier[Main] = "ASYNC" /\ groots' \subseteq groots
        BY <1>0
      <3>4. \A x \in Live' : color'[x] = Black(CycleEpoch') /\ x \notin GrayNow' =>
              x \in Live /\ color[x] = Black(CycleEpoch) /\ x \notin GrayNow /\ field'[x] = field[x]
        BY <2>3, <2>6, <2>9, <2>11, <2>12
      <3>5. \A x \in Obj : ~Steady(x)' => ~Steady(x) /\ field'[x] = field[x]
        BY <2>6, <2>14
      <3>. QED
        BY <1>0, <3>1, <3>2, <3>3, <3>4, <3>5, KeptStays
    <2>. QED
      BY <2>16, <2>17, <2>18, <2>19, <2>20, <2>21 DEF HeapInv
  <1>. QED
    BY <1>1, <1>2

-----------------------------------------------------------------------------
(* The global phase.                                                       *)

(* gcGlobalPhase changes nothing but the phase, when every processor has   *)
(* followed the last one: the barriers are those of one phase.             *)
LEMMA AdvanceFacts ==
  ASSUME Safe, CleanEnd', Advance
  PROVE  /\ UNCHANGED <<color, field, groots, roots, store, scan, gray, allocColor, barrier, lphase,
                        arg, listed, epoch>>
         /\ Member' = Member /\ Main \in Member
         /\ pc[Main] = "advance" /\ pc'[Main] = AfterAdvance[phase]
         /\ pc'[Main] \in {"slice", "workerStart", "sweepAcquire"}
         /\ \A u \in Unit \ {Main} : pc'[u] = pc[u]
         /\ phase \in Phase /\ phase' = Succ[phase]
         /\ CycleEpoch' = IF phase = "ASYNC" THEN NextEpoch(CycleEpoch) ELSE CycleEpoch
         /\ \A p \in Member : /\ phase = "IDLE" => barrier[p] = "NONE" \/ pc[p] = "setEpoch"
                              /\ phase = "SYNC2" => barrier[p] = "SYNC"
                              /\ phase = "ASYNC" => barrier[p] = "ASYNC" /\ pc[p] # "setEpoch"
  <1>1. /\ UNCHANGED <<color, field, groots, roots, store, scan, gray, allocColor, barrier, lphase,
                       arg, listed, epoch>>
        /\ pc[Main] = "advance" /\ Goto(Main, AfterAdvance[phase])
    BY DEF Advance, slicevars, rtvars, heapvars, workvars
  <1>2. /\ CycleEpoch' = IF phase = "ASYNC" THEN NextEpoch(CycleEpoch) ELSE CycleEpoch
        /\ \A p \in Member : lphase[p] = phase /\ (pc[p] = "setEpoch" => phase = "IDLE")
        /\ phase \in Phase /\ phase' = Succ[phase]
    BY EpochAdvance DEF Safe
  <1>3. Main \in Proc /\ Main \in Unit /\ Main \in Member
    BY <1>1, ProcAssumption, ListedMember DEF Safe, Unit
  <1>4. pc'[Main] = AfterAdvance[phase] /\ \A u \in Unit \ {Main} : pc'[u] = pc[u]
    BY <1>1, <1>3 DEF Goto, Safe, Base, TypeOK
  <1>5. AfterAdvance[phase] \in {"slice", "workerStart", "sweepAcquire"}
    BY <1>2 DEF AfterAdvance, Phase
  <1>6. \A p \in Proc : pc'[p] = "inherit" <=> pc[p] = "inherit"
    BY <1>1, <1>4, <1>5 DEF Unit
  <1>7. Member' = Member
    BY <1>1, <1>6 DEF Member, Safe, Base, TypeOK
  <1>8. ASSUME NEW p \in Member
        PROVE  /\ phase = "IDLE" => barrier[p] = "NONE" \/ pc[p] = "setEpoch"
               /\ phase = "SYNC2" => barrier[p] = "SYNC"
               /\ phase = "ASYNC" => barrier[p] = "ASYNC" /\ pc[p] # "setEpoch"
    <2>1. /\ pc[p] \notin {"setBarrier", "setEpoch", "snapshot"} => barrier[p] = BarrierOf[lphase[p]]
          /\ pc[p] = "setBarrier" => lphase[p] = "SYNC1"
          /\ pc[p] = "setEpoch" => lphase[p] = "IDLE"
          /\ pc[p] = "snapshot" => lphase[p] = "SYNC2" /\ phase = "ASYNC"
      BY DEF Safe, Base, BarrierInv, LockstepInv, Following
    <2>2. lphase[p] = phase
      BY <1>2
    <2>. QED
      BY <2>1, <2>2 DEF BarrierOf
  <1>. QED
    BY <1>1, <1>2, <1>3, <1>4, <1>5, <1>7, <1>8

(* What does not depend on the phase does not change.                      *)
LEMMA AdvanceSame ==
  ASSUME Safe, CleanEnd', Advance
  PROVE  /\ \A p \in Proc : (Starting(p)' <=> Starting(p)) /\ Holds(p)' = Holds(p) /\ (Taken(p)' <=> Taken(p))
         /\ \A o \in Obj : Steady(o)' <=> Steady(o)
         /\ Live' = Live /\ GrayNow' = GrayNow /\ Awaited' = Awaited
  <1>1. /\ UNCHANGED <<field, groots, roots, store, scan, gray, barrier, arg>>
        /\ pc[Main] = "advance" /\ pc'[Main] \in {"slice", "workerStart", "sweepAcquire"}
        /\ \A u \in Unit \ {Main} : pc'[u] = pc[u]
    BY AdvanceFacts
  <1>2. \A p \in Proc : Starting(p)' <=> Starting(p)
    BY <1>1 DEF Starting, Unit
  <1>3. \A p \in Proc : Holds(p)' = Holds(p) /\ (Taken(p)' <=> Taken(p))
    BY <1>1, <1>2 DEF Holds, Taken
  <1>4. Held' = Held
    BY <1>1, <1>3 DEF Held
  <1>5. Live' = Live
    BY <1>1, <1>4 DEF Live, ReachableFrom, Closed
  <1>6. GrayNow' = GrayNow /\ Awaited' = Awaited /\ \A o \in Obj : Steady(o)' <=> Steady(o)
    BY <1>1 DEF GrayNow, Awaited, Steady
  <1>. QED
    BY <1>2, <1>3, <1>5, <1>6

(* Where the cycle begins or goes on to the next handshake, nothing but    *)
(* the colours that may occur depends on the phase, as long as no mark     *)
(* phase begins.                                                           *)
LEMMA HeapAdvanceSync ==
  ASSUME Safe, CleanEnd', Advance, phase \in {"IDLE", "SYNC1"}
  PROVE  HeapInv'
  <1>0. /\ UNCHANGED <<color, field, groots, roots, store, scan, gray, allocColor, barrier, lphase,
                       arg, listed, epoch>>
        /\ Member' = Member
        /\ pc[Main] = "advance" /\ pc'[Main] \in {"slice", "workerStart", "sweepAcquire"}
        /\ \A u \in Unit \ {Main} : pc'[u] = pc[u]
        /\ phase' \in {"SYNC1", "SYNC2"} /\ (phase' = "SYNC1" <=> phase = "IDLE")
        /\ CycleEpoch' = CycleEpoch
    BY AdvanceFacts DEF Succ
  <1>1. ColorsInv'
    BY <1>0, AdvanceSame DEF Safe, HeapInv, ColorsInv, LiveColors
  <1>2. \A u \in Unit : /\ pc'[u] \in {"mark", "setEpoch", "barrier", "write", "off", "unlist"} => pc'[u] = pc[u]
                        /\ pc[u] \in {"mark", "setEpoch", "barrier", "write"} => pc'[u] = pc[u]
    BY <1>0
  <1>3. GrayInv'
    BY <1>0, <1>2 DEF Safe, HeapInv, GrayInv, Unit
  <1>4. AllocInv'
    <2>1. \A p \in Member : allocColor[p] = White(CycleEpoch)
      BY <1>0 DEF Safe, HeapInv, AllocInv
    <2>. QED
      BY <1>0, <2>1, AdvanceSame DEF Safe, HeapInv, AllocInv
  <1>5. StoreInv'
    <2>. SUFFICES ASSUME NEW p \in Proc
                  PROVE  /\ pc'[p] \notin {"barrier", "write"} => store[p] = NoStore
                         /\ pc'[p] \in {"barrier", "write"} =>
                              store[p].obj \in roots[p] /\ store[p].val \in roots[p] \cup {Null} /\ barrier[p] # "NONE"
                         /\ pc'[p] = "write" =>
                              Marked(store[p].old) /\ (barrier[p] = "SYNC" => Marked(store[p].val))
                         /\ pc'[p] \in {"off", "unlist"} => roots[p] = {}
      BY <1>0 DEF StoreInv, Marked
    <2>1. pc'[p] = "write" => phase # "IDLE"
      <3>. SUFFICES ASSUME pc'[p] = "write", phase = "IDLE" PROVE FALSE
        OBVIOUS
      <3>1. pc[p] = "write"
        BY <1>0 DEF Unit
      <3>2. p \in Member /\ barrier[p] # "NONE"
        BY <3>1, Writing
      <3>. QED
        BY <3>1, <3>2, AdvanceFacts
    <2>2. p \in Unit
      BY DEF Unit
    <2>. QED
      BY <1>2, <2>1, <2>2 DEF Safe, HeapInv, StoreInv
  <1>6. OverwriteInv'
    <2>. SUFFICES ASSUME NEW p \in Proc, store[p].obj # Null, lphase[p] = "SYNC2"
                  PROVE  FALSE
      BY <1>0 DEF OverwriteInv
    <2>1. p \in Member
      BY Writing
    <2>2. lphase[p] = phase
      BY <2>1, EpochAdvance DEF Safe
    <2>. QED
      BY <2>2
  <1>7. KeptInv'
    BY <1>0 DEF KeptInv
  <1>. QED
    BY <1>1, <1>3, <1>4, <1>5, <1>6, <1>7 DEF HeapInv

(* The mark phase begins.  Nothing is black yet, nobody has taken a        *)
(* snapshot, and the second handshake has seen to it that a value which    *)
(* may be overwritten unseen is marked.                                    *)
LEMMA HeapAdvanceMark ==
  ASSUME Safe, TypeOK', CleanEnd', Advance, phase = "SYNC2"
  PROVE  HeapInv'
  <1>0. /\ UNCHANGED <<color, field, groots, roots, store, scan, gray, allocColor, barrier, lphase,
                       arg, listed, epoch>>
        /\ Member' = Member /\ Main \in Member
        /\ pc[Main] = "advance" /\ pc'[Main] \in {"slice", "workerStart", "sweepAcquire"}
        /\ \A u \in Unit \ {Main} : pc'[u] = pc[u]
        /\ phase' = "ASYNC" /\ CycleEpoch' = CycleEpoch
        /\ \A p \in Member : barrier[p] = "SYNC"
    BY AdvanceFacts DEF Succ
  <1>1. ColorsInv'
    BY <1>0, AdvanceSame DEF Safe, HeapInv, ColorsInv, LiveColors
  <1>2. \A u \in Unit : /\ pc'[u] \in {"mark", "setEpoch", "barrier", "write", "off", "unlist"} => pc'[u] = pc[u]
                        /\ pc[u] \in {"mark", "setEpoch", "barrier", "write"} => pc'[u] = pc[u]
    BY <1>0
  <1>3. GrayInv'
    BY <1>0, <1>2 DEF Safe, HeapInv, GrayInv, Unit
  <1>4. AllocInv'
    BY <1>0, AdvanceSame DEF Safe, HeapInv, AllocInv
  <1>5. StoreInv'
    BY <1>0, <1>2 DEF Safe, HeapInv, StoreInv, Marked, Unit
  <1>6. OverwriteInv'
    BY <1>0 DEF OverwriteInv
  <1>7. KeptInv'
    <2>1. ASSUME NEW p \in Proc, Taken(p)
          PROVE  Holds(p) = {}
      <3>1. ~Starting(p)
        <4>. SUFFICES ASSUME Starting(p) PROVE FALSE
          OBVIOUS
        <4>1. arg[p].from \in Proc /\ pc[arg[p].from] = "starting" /\ arg[p].barrier = barrier[arg[p].from]
          BY DEF Starting, Safe, Base, LockstepInv, Handover, BarrierInv
        <4>2. arg[p].from \in Member
          BY <4>1, ListedMember DEF Safe
        <4>. QED
          BY <1>0, <2>1, <4>1, <4>2 DEF Taken
      <3>2. p \notin Member
        BY <1>0, <2>1, <3>1 DEF Taken
      <3>3. pc[p] = "off"
        BY <3>1, <3>2, ListedMember DEF Starting, Safe
      <3>. QED
        BY <3>3 DEF Safe, HeapInv, StoreInv, NoStore, Holds
    <2>2. ASSUME NEW o \in Live
          PROVE  color[o] # Black(CycleEpoch)
      <3>1. CycleEpoch \in Epoch
        BY CycleEpochType DEF Safe, Base
      <3>2. color[o] \in {White(CycleEpoch), Gray(CycleEpoch)}
        BY DEF Safe, HeapInv, ColorsInv, LiveColors
      <3>. QED
        BY <3>1, <3>2, ColorsDiffer
    <2>3. ASSUME NEW o \in Obj, ~Steady(o)
          PROVE  field[o] \in Kept' \cup {Null}
      <3>1. PICK p \in Proc : store[p].obj = o /\ store[p].old # field[o]
        BY <2>3 DEF Steady
      <3>2. o # Null
        BY HeapAssumption
      <3>3. p \in Member
        BY <3>1, <3>2, Writing
      <3>4. lphase[p] = "SYNC2"
        BY <3>3, EpochAdvance DEF Safe
      <3>5. Marked(field[o])
        BY <3>1, <3>2, <3>4 DEF Safe, HeapInv, OverwriteInv
      <3>6. field[o] \in Obj \cup {Null}
        BY DEF Safe, Base, TypeOK
      <3>7. \A x \in Obj : color'[x] # White(CycleEpoch') => x \in Kept'
        BY KeptIsClosedNext
      <3>8. field[o] # Null => color'[field[o]] # White(CycleEpoch')
        BY <1>0, <3>5 DEF Marked
      <3>. QED
        BY <3>6, <3>7, <3>8
    <2>. QED
      BY <1>0, <2>1, <2>2, <2>3, AdvanceSame DEF KeptInv
  <1>. QED
    BY <1>1, <1>3, <1>4, <1>5, <1>6, <1>7 DEF HeapInv

(* The mark phase ends.  With no gray object left and no root awaited, the *)
(* marked objects are all that is kept; what is held is among them, and    *)
(* so is what it leads to.  All that is alive is black, which is the white *)
(* of the next cycle.                                                      *)
LEMMA HeapAdvanceEnd ==
  ASSUME Safe, TypeOK', CleanEnd', Advance, phase = "ASYNC"
  PROVE  HeapInv'
  <1>0. /\ UNCHANGED <<color, field, groots, roots, store, scan, gray, allocColor, barrier, lphase,
                       arg, listed, epoch>>
        /\ Member' = Member /\ Main \in Member
        /\ pc[Main] = "advance" /\ pc'[Main] = "sweepAcquire"
        /\ \A u \in Unit \ {Main} : pc'[u] = pc[u]
        /\ phase' = "IDLE" /\ CycleEpoch' = NextEpoch(CycleEpoch)
        /\ \A p \in Member : barrier[p] = "ASYNC" /\ pc[p] # "setEpoch"
    BY AdvanceFacts DEF Succ, AfterAdvance
  <1>1. TypeOK /\ ColorsInv /\ GrayInv /\ AllocInv /\ StoreInv /\ KeptInv /\ CycleEpoch \in Epoch
    BY CycleEpochType DEF Safe, Base, HeapInv
  <1>2. /\ \A u \in Unit : pc[u] # "mark" /\ scan[u] = Null
        /\ \A u \in Unit \cup {Global} : gray[u] = {}
    <2>1. gray'[Global] = {} /\ \A u \in Unit : gray'[u] = {} /\ pc'[u] # "mark"
      BY <1>0 DEF CleanEnd, GrayNull
    <2>2. gray[Global] = {} /\ \A u \in Unit : gray[u] = {}
      BY <1>0, <2>1
    <2>3. \A u \in Unit : pc[u] # "mark"
      BY <1>0, <2>1
    <2>. QED
      BY <1>1, <2>2, <2>3 DEF GrayInv
  <1>3. GrayNow = {}
    <2>1. UNION {gray[u] : u \in Unit \cup {Global}} = {}
      BY <1>2
    <2>2. {scan[u] : u \in Unit} \ {Null} = {}
      BY <1>2
    <2>. QED
      BY <2>1, <2>2 DEF GrayNow
  <1>. DEFINE T == {o \in Obj : color[o] # White(CycleEpoch)}
  <1>4. Kept \subseteq T
    <2>1. T \in SUBSET Obj
      OBVIOUS
    <2>2. KeptClosed(T)
      BY <1>0, <1>3 DEF KeptClosed, Awaited
    <2>. HIDE DEF T
    <2>. QED
      BY <2>1, <2>2, KeptLeast
  <1>5. \A p \in Proc : Holds(p) \subseteq Kept
    <2>. SUFFICES ASSUME NEW p \in Proc
                  PROVE  Holds(p) \subseteq Kept
      OBVIOUS
    <2>1. CASE p \in Member
      <3>1. Taken(p)
        BY <1>0, <2>1 DEF Taken, Starting, Member, Safe, Base, LockstepInv, Listing
      <3>. QED
        BY <1>1, <3>1 DEF KeptInv
    <2>2. CASE Starting(p)
      <3>1. arg[p].from \in Proc /\ pc[arg[p].from] = "starting" /\ arg[p].barrier = barrier[arg[p].from]
        BY <2>2 DEF Starting, Safe, Base, LockstepInv, Handover, BarrierInv
      <3>2. arg[p].from \in Member
        BY <3>1, ListedMember DEF Safe
      <3>3. Taken(p)
        BY <1>0, <2>2, <3>1, <3>2 DEF Taken
      <3>. QED
        BY <1>1, <3>3 DEF KeptInv
    <2>3. CASE p \notin Member /\ ~Starting(p)
      <3>1. pc[p] = "off"
        BY <2>3, ListedMember DEF Starting, Safe
      <3>. QED
        BY <1>1, <3>1 DEF StoreInv, NoStore, Holds
    <2>. QED
      BY <2>1, <2>2, <2>3
  <1>6. groots \subseteq Kept
    BY <1>0, <1>1 DEF KeptInv
  <1>7. Live \subseteq Kept
    <2>. DEFINE L == Live \cap Kept
    <2>1. \A o \in L : field[o] \in L \cup {Null}
      BY <1>1, LiveClosed, KeptLoad
    <2>2. Held \subseteq L
      BY <1>1, <1>5, <1>6, LiveClosed DEF Held
    <2>3. L \in SUBSET Obj
      BY <1>1, LiveClosed
    <2>4. Closed(L)
      BY <2>1 DEF Closed
    <2>. HIDE DEF L
    <2>5. Live \subseteq L
      BY <2>2, <2>3, <2>4 DEF Live, ReachableFrom
    <2>. QED
      BY <2>5 DEF L
  <1>8. \A o \in Live : color[o] = Black(CycleEpoch)
    <2>. SUFFICES ASSUME NEW o \in Live
                  PROVE  color[o] = Black(CycleEpoch)
      OBVIOUS
    <2>1. o \in Obj /\ color[o] # White(CycleEpoch)
      BY <1>4, <1>7
    <2>2. color[o] \in {White(CycleEpoch), Gray(CycleEpoch), Black(CycleEpoch)}
      BY <1>1 DEF ColorsInv, LiveColors
    <2>3. color[o] # Gray(CycleEpoch)
      <3>. SUFFICES ASSUME color[o] = Gray(CycleEpoch) PROVE FALSE
        OBVIOUS
      <3>1. color[o] # Free /\ color[o].shaded
        BY <1>1, ColorsDiffer
      <3>. QED
        BY <1>1, <1>2, <2>1, <3>1 DEF GrayInv
    <2>. QED
      BY <2>1, <2>2, <2>3
  <1>9. Black(CycleEpoch) = White(CycleEpoch')
    BY <1>0, <1>1, ColorsDiffer
  <1>10. ColorsInv'
    BY <1>0, <1>8, <1>9, AdvanceSame DEF ColorsInv, LiveColors
  <1>11. \A u \in Unit : pc'[u] \in {"mark", "setEpoch", "barrier", "write", "off", "unlist"} => pc'[u] = pc[u]
    BY <1>0
  <1>12. GrayInv'
    <2>2. \A o \in Obj : ~(color[o] # Free /\ color[o].shaded)
      BY <1>1, <1>2 DEF GrayInv
    <2>3. \A u \in Unit : pc'[u] # "mark"
      BY <1>2, <1>11
    <2>. QED
      BY <1>0, <1>2, <2>2, <2>3 DEF GrayInv, Unit
  <1>13. AllocInv'
    <2>1. \A p \in Member : allocColor[p] = Black(CycleEpoch)
      BY <1>0, <1>1 DEF AllocInv
    <2>. QED
      BY <1>0, <1>1, <1>9, <2>1, AdvanceSame DEF AllocInv
  <1>14. StoreInv'
    <2>1. \A u \in Unit : pc[u] \in {"barrier", "write"} => pc'[u] = pc[u]
      BY <1>0
    <2>. QED
      BY <1>0, <1>1, <1>11, <2>1 DEF StoreInv, Unit
  <1>15. OverwriteInv' /\ KeptInv'
    BY <1>0 DEF OverwriteInv, KeptInv
  <1>. QED
    BY <1>10, <1>12, <1>13, <1>14, <1>15 DEF HeapInv

-----------------------------------------------------------------------------
(* The invariant.                                                          *)

(* Initially only the registered roots are alive, and they are white.      *)
LEMMA HeapInit == Init => HeapInv
  <1>. SUFFICES ASSUME Init PROVE HeapInv
    OBVIOUS
  <1>1. /\ phase = "IDLE" /\ groots = StartRoot /\ StartRoot \subseteq Obj
        /\ lphase = [p \in Proc |-> "IDLE"] /\ allocColor = [p \in Proc |-> White(0)]
        /\ epoch = [u \in Unit |-> 0]
        /\ pc = [u \in Unit |-> IF u \in Worker THEN "none" ELSE IF u = Main THEN "run" ELSE "off"]
        /\ gray = [u \in Unit \cup {Global} |-> {}] /\ scan = [u \in Unit |-> Null]
        /\ color = [o \in Obj |-> IF o \in StartRoot THEN White(0) ELSE Free]
        /\ field = [o \in Obj |-> Null] /\ roots = [p \in Proc |-> {}]
        /\ store = [p \in Proc |-> NoStore] /\ listed = {Main}
    BY HeapAssumption DEF Init
  <1>2. Main \in Unit /\ \A p \in Proc : p \in Unit /\ p \notin Worker /\ pc[p] \in {"run", "off"}
    BY <1>1, ProcAssumption, UnitAssumption DEF Unit
  <1>3. CycleEpoch = 0
    BY <1>1, <1>2, ProcAssumption DEF CycleEpoch, Due
  <1>4. 0 \in Epoch
    BY EpochModAssumption DEF Epoch
  <1>5. Live \subseteq StartRoot
    <2>1. \A p \in Proc : Holds(p) = {}
      BY <1>1 DEF Holds, NoStore
    <2>2. Held \subseteq StartRoot
      BY <1>1, <2>1 DEF Held
    <2>3. Closed(StartRoot)
      BY <1>1 DEF Closed
    <2>. QED
      BY <1>1, <2>2, <2>3 DEF Live, ReachableFrom
  <1>6. ColorsInv
    BY <1>1, <1>3, <1>5 DEF ColorsInv, LiveColors
  <1>7. \A o \in Obj : ~(color[o] # Free /\ color[o].shaded)
    BY <1>1 DEF White
  <1>8. GrayInv
    <2>1. \A u \in Unit \cup {Global} : gray[u] = {}
      BY <1>1
    <2>2. \A u \in Unit : scan[u] = Null /\ pc[u] \notin {"mark", "setEpoch"}
      BY <1>1
    <2>. QED
      BY <1>2, <1>7, <2>1, <2>2 DEF GrayInv, Unit
  <1>9. AllocInv
    BY <1>1, <1>2, <1>3, ProcAssumption DEF AllocInv, Member, Starting
  <1>10. StoreInv
    BY <1>1, <1>2 DEF StoreInv
  <1>11. OverwriteInv /\ KeptInv
    BY <1>1 DEF OverwriteInv, KeptInv
  <1>. QED
    BY <1>6, <1>8, <1>9, <1>10, <1>11 DEF HeapInv

(* The mutator.                                                            *)
LEMMA HeapMutate ==
  ASSUME Safe, TypeOK', SteadyRoots, NEW p \in Proc, Mutate(p)
  PROVE  HeapInv'
  <1>1. CycleEpoch' = CycleEpoch
    BY EpochMutate DEF Safe, SameCycle
  <1>2. CASE \E o \in Obj : Load(p, o) \/ LoadRoot(p, o) \/ Drop(p, o) \/ GCRoot(p, o) \/ GCUnroot(p, o)
    BY <1>2, HeapLoad
  <1>3. ASSUME NEW o \in Obj, NEW v \in roots[p] \cup {Null},
               Alloc(p, o, v) \/ StorePlain(p, o, v) \/ StoreBegin(p, o, v)
        PROVE  HeapInv'
    BY <1>1, <1>3, HeapAlloc, HeapStorePlain, HeapStoreBegin
  <1>4. CASE MarkBarrier(p) \/ StoreWrite(p)
    BY <1>1, <1>4, HeapMarkBarrier, HeapStoreWrite
  <1>. QED
    BY <1>2, <1>3, <1>4 DEF Mutate

(* Marking and sweeping.                                                   *)
LEMMA HeapMarkSweep ==
  ASSUME Safe, TypeOK', NEW u \in Unit, MarkSweep(u)
  PROVE  HeapInv'
  <1>1. CycleEpoch' = CycleEpoch
    BY EpochMarkSweep DEF Safe, SameCycle
  <1>2. ASSUME NEW o \in Obj, Sweep(u, o) \/ MarkPop(u, o)
        PROVE  HeapInv'
    BY <1>1, <1>2, HeapSweep, HeapMarkPop
  <1>3. CASE SweepDone(u) \/ MarkDone(u)
    BY <1>3, HeapSweepDone
  <1>4. CASE MarkField(u)
    BY <1>1, <1>4, HeapMarkField
  <1>. QED
    BY <1>2, <1>3, <1>4 DEF MarkSweep

(* chiGCControl.                                                           *)
LEMMA HeapGCControl ==
  ASSUME Safe, TypeOK', CleanEnd', GCControl
  PROVE  HeapInv'
  <1>1. CASE Advance
    <2>1. phase \in {"IDLE", "SYNC1"} \/ phase = "SYNC2" \/ phase = "ASYNC"
      BY DEF Safe, Base, TypeOK, Phase
    <2>. QED
      BY <1>1, <2>1, HeapAdvanceSync, HeapAdvanceMark, HeapAdvanceEnd
  <1>2. CASE Control \/ (\E q \in Proc : MarkDoneProc(q) \/ Poll(q)) \/ MarkDoneWorkers \/ MarkDoneGlobal
             \/ SweepAcquire
    BY <1>2, ProcAssumption, HeapControl
  <1>3. ASSUME NEW W \in SUBSET Worker, WorkerStart(W)
        PROVE  HeapInv'
    BY <1>3, HeapWorkerStart
  <1>. QED
    BY <1>1, <1>2, <1>3 DEF GCControl

(* All steps.                                                              *)
LEMMA HeapNext ==
  ASSUME Safe, TypeOK', CleanEnd', SteadyRoots, [Next]_vars
  PROVE  HeapInv'
  <1>1. CASE UNCHANGED vars
    BY <1>1, HeapStill DEF Safe, vars, slicevars, cyclevars, rtvars, heapvars, workvars
  <1>2. ASSUME NEW p \in Proc, Request(p) \/ Service(p)
        PROVE  HeapInv'
    BY <1>2, HeapControl
  <1>3. ASSUME NEW p \in Proc, Mutate(p)
        PROVE  HeapInv'
    BY <1>3, HeapMutate
  <1>4. ASSUME NEW p \in Proc, Lifecycle(p)
        PROVE  HeapInv'
    BY <1>4, HeapLifecycle
  <1>5. ASSUME NEW p \in Proc, GCSlice(p)
        PROVE  HeapInv'
    <2>1. CASE Snapshot(p)
      <3>1. CycleEpoch' = CycleEpoch
        BY <1>5, EpochSlice DEF Safe, SameCycle
      <3>. QED
        BY <2>1, <3>1, HeapSnapshot
    <2>. QED
      BY <1>5, <2>1, HeapSlice DEF GCSlice
  <1>6. ASSUME NEW u \in Unit, MarkSweep(u)
        PROVE  HeapInv'
    BY <1>6, HeapMarkSweep
  <1>7. CASE GCControl
    BY <1>7, HeapGCControl
  <1>8. ASSUME NEW w \in Worker, NEW B \in SUBSET Obj, WorkerSync(w, B)
        PROVE  HeapInv'
    BY <1>8, HeapWorkerSync
  <1>. QED
    BY <1>1, <1>2, <1>3, <1>4, <1>5, <1>6, <1>7, <1>8 DEF Next, Serve, GCWorker, Unit

(* HeapInv holds in every execution in which a mark phase only ends when   *)
(* there is nothing left to mark, and global roots are registered and      *)
(* given up while no snapshot is pending.                                  *)
THEOREM HeapInvariant == Spec /\ []CleanEnd /\ [][SteadyRoots]_vars => []HeapInv
  <1>1. Init => HeapInv
    BY HeapInit
  <1>2. [SteadyRoots]_vars => SteadyRoots
    BY DEF SteadyRoots, vars, heapvars
  <1>3. TypeOK /\ LockstepInv /\ BarrierInv /\ EpochInv /\ CleanEnd /\ HeapInv /\ TypeOK' /\ CleanEnd'
        /\ [SteadyRoots]_vars /\ [Next]_vars => HeapInv'
    BY <1>2, HeapNext DEF Safe, Base
  <1>. QED
    BY <1>1, <1>3, TypeCorrect, LockstepInvariant, BarrierInvariant, EpochInvariant, PTL DEF Spec

(* What can be reached is alive, and what is alive has a colour.           *)
LEMMA LiveColored ==
  ASSUME TypeOK, ColorsInv
  PROVE  Reachable \subseteq Live /\ NoLostObject /\ RootsAlive
  <1>1. CycleEpoch \in Epoch
    BY CycleEpochType
  <1>2. Reachable \subseteq Live
    <2>. DEFINE R == UNION {roots[p] : p \in Proc}
    <2>1. R \subseteq Live /\ Live \subseteq Obj /\ \A o \in Live : field[o] \in Live \cup {Null}
      BY LiveClosed
    <2>2. Closed(Live)
      BY <2>1 DEF Closed
    <2>. HIDE DEF R
    <2>3. ReachableFrom(R) \subseteq Live
      BY <2>1, <2>2 DEF ReachableFrom
    <2>. QED
      BY <2>3 DEF R, Reachable
  <1>3. \A o \in Live : color[o] # Free
    BY <1>1, ColorsDiffer DEF ColorsInv, LiveColors
  <1>. QED
    BY <1>2, <1>3, LiveClosed DEF NoLostObject, RootsAlive

(* The weak tricolor invariant: what a scanned object refers to is kept,   *)
(* and with no root awaited all that is kept and white is protected.       *)
LEMMA KeptProtected ==
  ASSUME Base, EpochInv, HeapInv, Awaited = {}
  PROVE  WeakTricolor
  <1>. SUFFICES ASSUME phase = "ASYNC", NEW o \in Reachable, color[o] = Black(epoch[Main]),
                       field[o] # Null, color[field[o]] = White(epoch[Main])
                PROVE  field[o] \in GrayProtected
    BY DEF WeakTricolor
  <1>1. TypeOK /\ ColorsInv /\ GrayInv /\ KeptInv
    BY DEF Base, HeapInv
  <1>2. epoch[Main] = CycleEpoch
    BY DEF CycleEpoch, Due, EpochInv, MainInPhase
  <1>3. o \in Live /\ o \in Obj /\ field[o] \in Obj
    BY <1>1, LiveColored, LiveClosed DEF TypeOK
  <1>. DEFINE P == GrayProtected
              T == {x \in Obj : color[x] # White(CycleEpoch)} \cup P
  <1>4. P \subseteq Obj /\ \A g \in GrayNow : field[g] \in P \cup {Null}
    <2>1. \A g \in GrayNow : g \in Obj
      BY <1>1 DEF GrayNow, TypeOK
    <2>. QED
      BY <1>1, <2>1 DEF GrayProtected, TypeOK
  <1>5. \A x \in P : color[x] = White(CycleEpoch) => field[x] \in P \cup {Null}
    BY <1>1, <1>2, <1>4 DEF GrayProtected, TypeOK
  <1>6. CASE o \in GrayNow
    BY <1>4, <1>6
  <1>7. CASE o \notin GrayNow
    <2>1. field[o] \in Kept
      BY <1>1, <1>2, <1>3, <1>7 DEF KeptInv
    <2>2. T \in SUBSET Obj
      BY <1>4
    <2>3. KeptClosed(T)
      <3>1. \A x \in Obj : /\ x \in GrayNow \/ (x \in T /\ color[x] = White(CycleEpoch))
                           /\ Steady(x)
                           => field[x] \in T \cup {Null}
        <4>. HIDE DEF P
        <4>. QED
          BY <1>4, <1>5
      <3>. QED
        BY <3>1 DEF KeptClosed
    <2>4. Kept \subseteq T
      <3>. HIDE DEF T
      <3>. QED
        BY <2>2, <2>3, KeptLeast
    <2>. QED
      BY <1>2, <2>1, <2>4
  <1>. QED
    BY <1>6, <1>7

(* chiMajorSweep frees no object that can be reached from the stack, the   *)
(* registers or the minor heap of a processor, however mutators write in   *)
(* the middle of handshakes and marking.                                   *)
THEOREM NothingLost == Spec /\ []CleanEnd /\ [][SteadyRoots]_vars => []NoLostObject
  <1>1. TypeOK /\ HeapInv => NoLostObject
    BY LiveColored DEF HeapInv
  <1>. QED
    BY <1>1, TypeCorrect, HeapInvariant, PTL

(* Nor does it free a registered root (gc.root of gc.h).                   *)
THEOREM RootsStay == Spec /\ []CleanEnd /\ [][SteadyRoots]_vars => []RootsAlive
  <1>1. TypeOK /\ HeapInv => RootsAlive
    BY LiveColored DEF HeapInv
  <1>. QED
    BY <1>1, TypeCorrect, HeapInvariant, PTL

(* The assertion of gcLocalTransition that a processor has no gray object  *)
(* when it follows the end of the mark phase.                              *)
THEOREM NoGrayAtEnd == Spec /\ []CleanEnd /\ [][SteadyRoots]_vars => []GrayNullAtEnd
  <1>1. HeapInv => GrayNullAtEnd
    BY DEF HeapInv, GrayInv, GrayNullAtEnd
  <1>. QED
    BY <1>1, HeapInvariant, PTL

(* The weak tricolor invariant of localheap.h, once the main processor has *)
(* marked the global roots; before, a new object may refer to a white one  *)
(* nothing but the root protects.                                          *)
THEOREM Tricolor ==
  Spec /\ []CleanEnd /\ [][SteadyRoots]_vars => [](barrier[Main] = "ASYNC" => WeakTricolor)
  <1>1. TypeOK /\ LockstepInv /\ BarrierInv /\ EpochInv /\ HeapInv => (barrier[Main] = "ASYNC" => WeakTricolor)
    BY KeptProtected DEF Awaited, Base
  <1>. QED
    BY <1>1, TypeCorrect, LockstepInvariant, BarrierInvariant, EpochInvariant, HeapInvariant, PTL

-----------------------------------------------------------------------------
(* A main processor that is alone with the collector threads.              *)

(* Initially nothing is going on.                                          *)
LEMMA AloneInit == Init => AloneInv
  BY ProcAssumption, UnitAssumption DEF Init, AloneInv, Ending, Started, Unit

(* Steps of the main processor that are not on the way to the end of the   *)
(* phase.                                                                  *)
LEMMA AloneMove ==
  ASSUME TypeOK, AloneInv, NEW l, Goto(Main, l), phase' = phase,
         l \notin {"markProcs", "markWorkers", "markGlobal", "poll", "advance", "sweepAcquire"},
         \A w \in Worker : /\ wstatus'[w] = "none" => wstatus[w] = "none" /\ gray'[w] = gray[w]
                           /\ wstatus'[w] = "WAIT" => wstatus[w] = "WAIT",
         l = "local" => seen'[Main] = phase,
         phase = "ASYNC" /\ lphase'[Main] # "ASYNC" => l \in {"workerStart", "slice", "local", "snapshot"}
  PROVE  AloneInv'
  <1>1. pc'[Main] = l /\ \A w \in Worker : pc'[w] = pc[w]
    BY ProcAssumption, UnitAssumption DEF Goto, TypeOK, Unit
  <1>2. \A w \in Worker : /\ wstatus'[w] = "none" => pc'[w] = "none" /\ gray'[w] = {}
                          /\ wstatus'[w] = "WAIT" => pc'[w] = "sync"
    BY <1>1 DEF AloneInv
  <1>3. ~Ending'
    BY <1>1 DEF Ending
  <1>. QED
    BY <1>1, <1>2, <1>3 DEF AloneInv

(* The mutator, the service routine and requests.                          *)
LEMMA AloneMutate ==
  ASSUME TypeOK, AloneInv, Mutate(Main) \/ Service(Main)
  PROVE  AloneInv'
  <1>0. Main \in Unit /\ Main \notin Worker
    BY ProcAssumption, UnitAssumption DEF Unit
  <1>1. /\ pc[Main] \in {"run", "barrier", "write"} /\ UNCHANGED <<phase, wstatus, lphase>>
        /\ \A w \in Worker : gray'[w] = gray[w]
    BY <1>0 DEF Mutate, Load, LoadRoot, Drop, GCRoot, GCUnroot, Alloc, StorePlain, StoreBegin, MarkBarrier,
      StoreWrite, Shade, Service, slicevars, cyclevars, workvars, TypeOK, Unit
  <1>2. \E l \in {"run", "barrier", "write", "control"} : Goto(Main, l)
    <2>1. ASSUME pc' = pc
          PROVE  Goto(Main, pc[Main])
      BY <2>1 DEF Goto, TypeOK
    <2>. QED
      BY <1>1, <2>1 DEF Mutate, Load, LoadRoot, Drop, GCRoot, GCUnroot, Alloc, StorePlain, StoreBegin,
        MarkBarrier, StoreWrite, Service
  <1>3. PICK l \in {"run", "barrier", "write", "control"} : Goto(Main, l)
    BY <1>2
  <1>4. phase = "ASYNC" => lphase[Main] = "ASYNC"
    BY <1>1 DEF AloneInv
  <1>. QED
    BY <1>1, <1>3, <1>4, AloneMove

(* chiGCSlice: in the mark phase the main processor goes on when it has    *)
(* taken its snapshot.                                                     *)
LEMMA AloneSlice ==
  ASSUME TypeOK, LockstepInv, AloneInv, GCSlice(Main)
  PROVE  AloneInv'
  <1>0. Main \in Proc /\ Main \in Unit /\ Main \notin Worker /\ Global \notin Worker
    BY ProcAssumption, UnitAssumption DEF Unit
  <1>1. phase' = phase
    BY DEF GCSlice, SliceRead, SliceLocal, SetBarrier, SetEpoch, Snapshot, SnapshotDone, Scavenge,
      IncSlice, Join, cyclevars
  <1>2. \A w \in Worker : /\ wstatus'[w] = "none" => wstatus[w] = "none"
                          /\ wstatus'[w] = "WAIT" => wstatus[w] = "WAIT"
    BY DEF GCSlice, SliceRead, SliceLocal, SetBarrier, SetEpoch, Snapshot, SnapshotDone, Scavenge,
      IncSlice, Join, Notified, workvars
  <1>3. \A w \in Worker : gray'[w] = gray[w]
    <2>1. CASE SliceRead(Main) \/ SliceLocal(Main) \/ SetBarrier(Main) \/ SetEpoch(Main)
               \/ SnapshotDone(Main) \/ Scavenge(Main)
      BY <2>1 DEF SliceRead, SliceLocal, SetBarrier, SetEpoch, SnapshotDone, Scavenge
    <2>2. CASE Snapshot(Main)
      BY <1>0, <2>2 DEF Snapshot, Shade, TypeOK, Unit
    <2>3. CASE IncSlice(Main) \/ Join(Main)
      BY <1>0, <2>3 DEF IncSlice, Join, TypeOK, Unit
    <2>. QED
      BY <2>1, <2>2, <2>3 DEF GCSlice
  <1>4. CASE SliceRead(Main)
    <2>1. Goto(Main, "local") /\ seen'[Main] = phase /\ lphase' = lphase /\ pc[Main] = "slice"
      BY <1>0, <1>4 DEF SliceRead, TypeOK
    <2>. QED
      BY <1>1, <1>2, <1>3, <2>1, AloneMove
  <1>5. CASE SliceLocal(Main)
    <2>1. PICK l \in {"setBarrier", "setEpoch", "scavenge", "join"} : Goto(Main, l)
      <3>1. seen[Main] \in Phase
        BY <1>0 DEF TypeOK
      <3>2. CASE seen[Main] # "ASYNC" /\ lphase[Main] = Pred[seen[Main]]
        BY <1>5, <3>1, <3>2 DEF SliceLocal, AfterPhase, Phase
      <3>3. CASE ~(seen[Main] # "ASYNC" /\ lphase[Main] = Pred[seen[Main]])
        BY <1>5, <3>3 DEF SliceLocal, AfterPhase
      <3>. QED
        BY <3>2, <3>3
    <2>2. pc[Main] = "local" /\ seen[Main] = phase
      BY <1>5 DEF SliceLocal, AloneInv
    <2>3. phase = "ASYNC" => lphase'[Main] = "ASYNC"
      <3>. SUFFICES ASSUME phase = "ASYNC" PROVE lphase'[Main] = "ASYNC"
        OBVIOUS
      <3>1. lphase' = lphase /\ lphase[Main] # "SYNC2"
        BY <1>5, <2>2 DEF SliceLocal
      <3>2. Main \in Member
        BY <1>0 DEF LockstepInv, Listing, Member
      <3>3. lphase[Main] \in {"ASYNC", "SYNC2"}
        BY <3>2 DEF LockstepInv, Following, Pred
      <3>. QED
        BY <3>1, <3>3
    <2>. QED
      BY <1>1, <1>2, <1>3, <2>1, <2>3, AloneMove
  <1>6. CASE Snapshot(Main)
    <2>1. Goto(Main, "snapshot")
      BY <1>6 DEF Snapshot
    <2>. QED
      BY <1>1, <1>2, <1>3, <2>1, AloneMove
  <1>7. CASE SnapshotDone(Main)
    <2>1. PICK l \in {"inc", "join"} : Goto(Main, l)
      BY <1>7 DEF SnapshotDone, AfterScavenge
    <2>2. lphase'[Main] = "ASYNC"
      BY <1>0, <1>7 DEF SnapshotDone, TypeOK
    <2>. QED
      BY <1>1, <1>2, <1>3, <2>1, <2>2, AloneMove
  <1>8. CASE SetBarrier(Main) \/ SetEpoch(Main) \/ Scavenge(Main) \/ IncSlice(Main) \/ Join(Main)
    <2>1. PICK l \in {"scavenge", "inc", "join", "sweep", "run"} : Goto(Main, l)
      BY <1>8 DEF SetBarrier, SetEpoch, Scavenge, IncSlice, Join, AfterPhase, AfterScavenge
    <2>2. lphase' = lphase /\ pc[Main] \in {"setBarrier", "setEpoch", "scavenge", "inc", "join"}
      BY <1>8 DEF SetBarrier, SetEpoch, Scavenge, IncSlice, Join, slicevars
    <2>3. phase = "ASYNC" => lphase'[Main] = "ASYNC"
      BY <2>2 DEF AloneInv
    <2>. QED
      BY <1>1, <1>2, <1>3, <2>1, <2>3, AloneMove
  <1>. QED
    BY <1>4, <1>5, <1>6, <1>7, <1>8 DEF GCSlice

(* Marking and sweeping.  A thread that is waiting does neither.           *)
LEMMA AloneMarkSweep ==
  ASSUME TypeOK, AloneInv, NEW u \in Unit, u = Main \/ u \in Worker, MarkSweep(u)
  PROVE  AloneInv'
  <1>0. Main \in Unit /\ Main \notin Worker /\ Global \notin Unit
    BY ProcAssumption, UnitAssumption DEF Unit
  <1>1. /\ UNCHANGED <<phase, wstatus, lphase, seen>> /\ pc[u] \in {"sweep", "mark"}
        /\ \A x \in Unit \cup {Global} : x # u => gray'[x] = gray[x]
    BY <1>0 DEF MarkSweep, Sweep, SweepDone, MarkPop, MarkField, MarkDone, Shade, slicevars, cyclevars,
      workvars, TypeOK
  <1>2. PICK l \in {"sweep", "mark", "sync", "join"} : Goto(u, l) /\ (l = "sync" <=> pc'[u] = "sync")
    <2>1. ASSUME pc' = pc
          PROVE  Goto(u, pc[u])
      BY <2>1 DEF Goto, TypeOK
    <2>2. ASSUME NEW l, Goto(u, l)
          PROVE  pc'[u] = l
      BY <2>2 DEF Goto, TypeOK
    <2>. QED
      BY <1>1, <2>1, <2>2 DEF MarkSweep, Sweep, SweepDone, MarkPop, MarkField, MarkDone
  <1>3. CASE u = Main
    <2>1. \A w \in Worker : gray'[w] = gray[w]
      BY <1>0, <1>1, <1>3 DEF Unit
    <2>2. phase = "ASYNC" => lphase[Main] = "ASYNC"
      BY <1>1, <1>3 DEF AloneInv
    <2>. QED
      BY <1>1, <1>2, <1>3, <2>1, <2>2, AloneMove
  <1>4. CASE u \in Worker
    <2>1. \A x \in Unit : x # u => pc'[x] = pc[x]
      BY <1>2 DEF Goto, TypeOK
    <2>2. pc'[Main] = pc[Main] /\ gray'[Main] = gray[Main] /\ gray'[Global] = gray[Global]
      BY <1>0, <1>1, <1>4, <2>1
    <2>3. wstatus[u] # "none" /\ wstatus[u] # "WAIT"
      BY <1>1, <1>4 DEF AloneInv
    <2>4. \A w \in Worker : /\ wstatus'[w] = "none" => pc'[w] = "none" /\ gray'[w] = {}
                            /\ wstatus'[w] = "WAIT" => pc'[w] = "sync"
      BY <1>1, <2>1, <2>3 DEF AloneInv, Unit
    <2>5. ~(pc[Main] = "markGlobal" \/ Ending)
      BY <1>4, <2>3 DEF AloneInv, Started
    <2>6. ~(pc'[Main] = "markGlobal" \/ Ending')
      BY <1>1, <2>2, <2>5 DEF Ending
    <2>. QED
      BY <1>1, <2>2, <2>4, <2>6 DEF AloneInv
  <1>. QED
    BY <1>3, <1>4

(* gcWorkerSync *)
LEMMA AloneWorkerSync ==
  ASSUME TypeOK, AloneInv, NEW w \in Worker, NEW B, WorkerSync(w, B)
  PROVE  AloneInv'
  <1>0. Main \in Unit /\ w \in Unit /\ Main # w /\ Global # Main /\ Global # w /\ Global \notin Worker
    BY ProcAssumption, UnitAssumption DEF Unit
  <1>1. /\ UNCHANGED <<phase, lphase, seen>> /\ wstatus[w] \in {"EPOCH", "RUN"}
        /\ gray' = [gray EXCEPT ![w] = @ \cup B, ![Global] = @ \ B]
        /\ wstatus'[w] \in {"RUN", "WAIT"} /\ (wstatus'[w] = "WAIT" => pc'[w] = "sync")
        /\ \A x \in Worker : x # w => wstatus'[x] = wstatus[x]
        /\ \A x \in Unit : x # w => pc'[x] = pc[x]
    BY <1>0 DEF WorkerSync, Goto, TypeOK, slicevars, cyclevars
  <1>2. pc'[Main] = pc[Main] /\ \A x \in Unit : x # w => gray'[x] = gray[x]
    BY <1>0, <1>1, UnitAssumption DEF TypeOK, Unit
  <1>3. \A x \in Worker : /\ wstatus'[x] = "none" => pc'[x] = "none" /\ gray'[x] = {}
                          /\ wstatus'[x] = "WAIT" => pc'[x] = "sync"
    BY <1>1, <1>2 DEF AloneInv, Unit
  <1>4. ~(pc[Main] = "markGlobal" \/ Ending)
    BY <1>1 DEF AloneInv, Started
  <1>5. ~(pc'[Main] = "markGlobal" \/ Ending')
    BY <1>1, <1>2, <1>4 DEF Ending
  <1>. QED
    BY <1>0, <1>1, <1>2, <1>3, <1>5 DEF AloneInv

(* chiGCControl: the three parts of markDone look at one another's gray    *)
(* vectors, and none of them changes meanwhile.                            *)
LEMMA AloneControl ==
  ASSUME Proc = {Main}, TypeOK, LockstepInv, AloneInv, GCControl
  PROVE  AloneInv'
  <1>0. Main \in Unit /\ Main \notin Worker
    BY ProcAssumption, UnitAssumption DEF Unit
  <1>1. CASE Control \/ (\E q \in Proc : MarkDoneProc(q) \/ Poll(q)) \/ MarkDoneWorkers \/ MarkDoneGlobal
    <2>1. UNCHANGED <<phase, wstatus, lphase, seen, gray>> /\ Started' = Started
      BY <1>1 DEF Control, MarkDoneProc, Poll, MarkDoneWorkers, MarkDoneGlobal, slicevars, cyclevars, workvars,
        Started
    <2>2. \A w \in Worker : pc'[w] = pc[w]
      BY <1>0, <1>1 DEF Control, MarkDoneProc, Poll, MarkDoneWorkers, MarkDoneGlobal, Goto, TypeOK, Unit
    <2>3. /\ pc[Main] \in {"control", "markProcs", "markWorkers", "markGlobal", "poll"}
          /\ pc'[Main] \in {"slice", "markProcs", "markWorkers", "markGlobal", "poll", "advance"}
      BY <1>0, <1>1 DEF Control, MarkDoneProc, Poll, MarkDoneWorkers, MarkDoneGlobal, Goto, TypeOK
    <2>4. \A w \in Worker : /\ wstatus[w] = "none" => pc'[w] = "none" /\ gray[w] = {}
                            /\ wstatus[w] = "WAIT" => pc'[w] = "sync"
      BY <2>2 DEF AloneInv
    <2>5. phase = "ASYNC" => lphase[Main] = "ASYNC"
      BY <2>3 DEF AloneInv
    <2>6. CASE Control
      <3>1. pc'[Main] \in {"slice", "markProcs", "poll"} /\ (pc'[Main] = "markProcs" <=> phase = "ASYNC")
        BY <1>0, <2>6 DEF Control, Goto, TypeOK
      <3>. QED
        BY <2>1, <2>4, <2>5, <3>1 DEF AloneInv, Ending
    <2>7. ASSUME NEW q \in Proc, MarkDoneProc(q)
          PROVE  AloneInv'
      <3>1. /\ pc[Main] = "markProcs" /\ pc'[Main] \in {"slice", "markProcs", "markWorkers"}
            /\ pc'[Main] = "markWorkers" => gray[q] = {}
        BY <1>0, <2>7 DEF MarkDoneProc, Goto, TypeOK, GrayNull
      <3>. QED
        BY <2>1, <2>4, <2>5, <3>1 DEF AloneInv, Ending
    <2>8. ASSUME NEW q \in Proc, Poll(q)
          PROVE  AloneInv'
      <3>1. pc[Main] = "poll" /\ pc'[Main] \in {"slice", "poll", "advance"}
        BY <1>0, <2>8 DEF Poll, Goto, TypeOK
      <3>. QED
        BY <2>1, <2>4, <2>5, <3>1 DEF AloneInv, Ending
    <2>9. CASE MarkDoneWorkers
      <3>1. /\ pc[Main] = "markWorkers" /\ pc'[Main] \in {"slice", "markGlobal"}
            /\ pc'[Main] = "markGlobal" => \A w \in Started : wstatus[w] = "WAIT" /\ gray[w] = {}
        BY <1>0, <2>9 DEF MarkDoneWorkers, Goto, TypeOK, GrayNull
      <3>. QED
        BY <2>1, <2>4, <2>5, <3>1 DEF AloneInv, Ending
    <2>10. CASE MarkDoneGlobal
      <3>1. /\ pc[Main] = "markGlobal" /\ pc'[Main] \in {"slice", "poll"}
            /\ pc'[Main] = "poll" => gray[Global] = {}
        BY <1>0, <2>10 DEF MarkDoneGlobal, Goto, TypeOK
      <3>. QED
        BY <2>1, <2>4, <2>5, <3>1 DEF AloneInv, Ending
    <2>. QED
      BY <1>1, <2>6, <2>7, <2>8, <2>9, <2>10
  <1>2. CASE Advance
    <2>1. /\ pc[Main] = "advance" /\ phase \in Phase /\ phase' = Succ[phase]
          /\ pc'[Main] = AfterAdvance[phase]
          /\ \A w \in Worker : pc'[w] = pc[w]
          /\ UNCHANGED <<wstatus, lphase, seen, gray>> /\ Started' = Started
      BY <1>0, <1>2 DEF Advance, Goto, TypeOK, slicevars, workvars, Unit, Started
    <2>2. \A w \in Worker : /\ wstatus[w] = "none" => pc'[w] = "none" /\ gray[w] = {}
                            /\ wstatus[w] = "WAIT" => pc'[w] = "sync"
      BY <2>1 DEF AloneInv
    <2>3. /\ phase' = "ASYNC" <=> pc'[Main] = "workerStart"
          /\ phase = "ASYNC" <=> pc'[Main] = "sweepAcquire"
          /\ pc'[Main] \in {"slice", "workerStart", "sweepAcquire"}
      BY <2>1 DEF Phase, Succ, AfterAdvance
    <2>4. Ending' => Ending
      BY <2>1, <2>3 DEF Ending
    <2>. QED
      BY <2>1, <2>2, <2>3, <2>4 DEF AloneInv
  <1>3. ASSUME NEW W \in SUBSET Worker, WorkerStart(W)
        PROVE  AloneInv'
    <2>1. /\ pc[Main] = "workerStart" /\ pc'[Main] = "slice" /\ UNCHANGED <<phase, gray, lphase, seen>>
          /\ \A w \in Worker : pc'[w] = (IF w \in W THEN "sync" ELSE pc[w])
          /\ \A w \in Worker : wstatus'[w] = (IF w \in W THEN "WAIT" ELSE wstatus[w])
      BY <1>0, <1>3 DEF WorkerStart, slicevars, cyclevars, Unit
    <2>2. \A w \in Worker : /\ wstatus'[w] = "none" => pc'[w] = "none" /\ gray[w] = {}
                            /\ wstatus'[w] = "WAIT" => pc'[w] = "sync"
      BY <2>1 DEF AloneInv
    <2>. QED
      BY <2>1, <2>2 DEF AloneInv, Ending
  <1>4. CASE SweepAcquire
    <2>1. Goto(Main, "slice") /\ UNCHANGED <<phase, gray, lphase>> /\ wstatus' = Notified("EPOCH")
          /\ pc[Main] = "sweepAcquire"
      BY <1>4 DEF SweepAcquire, slicevars
    <2>2. \A w \in Worker : /\ wstatus'[w] = "none" => wstatus[w] = "none"
                            /\ wstatus'[w] = "WAIT" => wstatus[w] = "WAIT"
      BY <2>1 DEF Notified
    <2>. QED
      BY <2>1, <2>2, AloneMove
  <1>. QED
    BY <1>1, <1>2, <1>3, <1>4 DEF GCControl

(* All steps.                                                              *)
LEMMA AloneNext ==
  ASSUME Proc = {Main}, TypeOK, LockstepInv, AloneInv, [Next]_vars
  PROVE  AloneInv'
  <1>1. ASSUME UNCHANGED <<phase, pc, wstatus, lphase, seen, gray>>
        PROVE  AloneInv'
    BY <1>1 DEF AloneInv, Ending, Started
  <1>2. CASE UNCHANGED vars
    BY <1>1, <1>2 DEF vars, slicevars, cyclevars, workvars
  <1>3. CASE Request(Main)
    BY <1>1, <1>3 DEF Request, GCTrigger, TimerTick, ScavengeRequest, slicevars, cyclevars, workvars
  <1>4. ~Lifecycle(Main)
    BY DEF Lifecycle, TryStart, InitProcessor, Inherit, Stop, LocalGCDestroy, Unlist, LockstepInv, Listing
  <1>5. CASE Mutate(Main) \/ Service(Main)
    BY <1>5, AloneMutate
  <1>6. CASE GCSlice(Main)
    BY <1>6, AloneSlice
  <1>7. ASSUME NEW u \in Unit, MarkSweep(u)
        PROVE  AloneInv'
    BY <1>7, AloneMarkSweep DEF Unit
  <1>8. CASE GCControl
    BY <1>8, AloneControl
  <1>9. ASSUME NEW w \in Worker, NEW B \in SUBSET Obj, WorkerSync(w, B)
        PROVE  AloneInv'
    BY <1>9, AloneWorkerSync
  <1>10. CASE Next
    <2>1. ASSUME NEW p \in Proc, Request(p) \/ Mutate(p) \/ Lifecycle(p) \/ Serve(p)
          PROVE  AloneInv'
      <3>1. p = Main /\ p \in Unit
        BY DEF Unit
      <3>. QED
        BY <1>3, <1>4, <1>5, <1>6, <1>7, <1>8, <2>1, <3>1 DEF Serve
    <2>2. ASSUME NEW w \in Worker, GCWorker(w)
          PROVE  AloneInv'
      BY <1>7, <1>9, <2>2 DEF GCWorker, Unit
    <2>. QED
      BY <1>10, <2>1, <2>2 DEF Next
  <1>. QED
    BY <1>2, <1>10

(* What markDone has seen is still so at the end of the phase.             *)
LEMMA AloneCleanEnd ==
  ASSUME Proc = {Main}, TypeOK, AloneInv
  PROVE  CleanEnd
  <1>. SUFFICES ASSUME pc[Main] = "sweepAcquire"
                PROVE  /\ gray[Global] = {}
                       /\ \A u \in Unit : GrayNull(u)
                       /\ \A w \in Started : wstatus[w] = "WAIT"
    BY DEF CleanEnd
  <1>1. Ending
    BY DEF Ending
  <1>2. gray[Global] = {} /\ gray[Main] = {} /\ \A w \in Started : wstatus[w] = "WAIT" /\ gray[w] = {}
    BY <1>1 DEF AloneInv
  <1>3. \A w \in Worker : gray[w] = {} /\ pc[w] # "mark"
    BY <1>2 DEF AloneInv, Started
  <1>. QED
    BY <1>2, <1>3 DEF GrayNull, Unit

(* The global roots do not change between the start of the mark phase and  *)
(* the snapshot of the main processor, which runs no compiled code.        *)
LEMMA AloneSteady ==
  ASSUME Proc = {Main}, TypeOK, LockstepInv, BarrierInv, AloneInv, [Next]_vars
  PROVE  SteadyRoots
  <1>. SUFFICES ASSUME phase = "ASYNC", groots' # groots
                PROVE  \A p \in Member : barrier[p] = "ASYNC"
    BY DEF SteadyRoots
  <1>1. ~UNCHANGED groots
    OBVIOUS
  <1>2. Mutate(Main)
    <2>1. \A p \in Proc : ~Request(p) /\ ~Service(p)
      BY <1>1 DEF Request, GCTrigger, TimerTick, ScavengeRequest, Service, heapvars
    <2>2. \A p \in Proc : ~Lifecycle(p)
      BY <1>1 DEF Lifecycle, TryStart, InitProcessor, Inherit, Stop, LocalGCDestroy, Unlist, heapvars
    <2>3. \A p \in Proc : ~GCSlice(p)
      BY <1>1 DEF GCSlice, SliceRead, SliceLocal, SetBarrier, SetEpoch, Snapshot, SnapshotDone, Scavenge,
        IncSlice, Join, heapvars
    <2>4. \A u \in Unit : ~MarkSweep(u)
      BY <1>1 DEF MarkSweep, Sweep, SweepDone, MarkPop, MarkField, MarkDone, heapvars
    <2>5. ~GCControl
      BY <1>1 DEF GCControl, Control, MarkDoneProc, MarkDoneWorkers, MarkDoneGlobal, Poll, Advance,
        WorkerStart, SweepAcquire, heapvars
    <2>6. \A w \in Worker : ~GCWorker(w)
      BY <1>1, <2>4 DEF GCWorker, WorkerSync, heapvars, Unit
    <2>7. Next
      BY <1>1 DEF vars, heapvars
    <2>. QED
      BY <2>1, <2>2, <2>3, <2>4, <2>5, <2>6, <2>7 DEF Next, Serve, Unit
  <1>3. pc[Main] = "run"
    BY <1>1, <1>2 DEF Mutate, Load, LoadRoot, Drop, GCRoot, GCUnroot, Alloc, StorePlain, StoreBegin,
      MarkBarrier, StoreWrite, heapvars
  <1>4. Main \in Member /\ lphase[Main] = "ASYNC"
    BY <1>3, ProcAssumption DEF AloneInv, LockstepInv, Listing, Member
  <1>5. barrier[Main] = "ASYNC"
    BY <1>3, <1>4 DEF BarrierInv, BarrierOf
  <1>. QED
    BY <1>5 DEF Member, TypeOK

(* The premises of the theorems above hold of a program that runs on its   *)
(* main processor only, with any number of collector threads.              *)
LEMMA AlonePremises ==
  ASSUME Proc = {Main}
  PROVE  Spec => []CleanEnd /\ [][SteadyRoots]_vars
  <1>1. Init => AloneInv
    BY AloneInit
  <1>2. TypeOK /\ LockstepInv /\ AloneInv /\ [Next]_vars => AloneInv'
    BY AloneNext
  <1>3. TypeOK /\ AloneInv => CleanEnd
    BY AloneCleanEnd
  <1>4. TypeOK /\ LockstepInv /\ BarrierInv /\ AloneInv /\ [Next]_vars => [SteadyRoots]_vars
    BY AloneSteady
  <1>. QED
    BY <1>1, <1>2, <1>3, <1>4, TypeCorrect, LockstepInvariant, BarrierInvariant, PTL DEF Spec

(* So there the collector is safe in every execution: no object that can   *)
(* be reached and no root is freed, no gray object is left at the end of   *)
(* the mark phase, white objects are protected and colours mean the same   *)
(* to everybody, whatever the collector threads do meanwhile.              *)
THEOREM SafeAlone ==
  ASSUME Proc = {Main}
  PROVE  Spec => [](NoLostObject /\ RootsAlive /\ GrayNullAtEnd /\ WeakTricolor /\ EpochAgreement)
  <1>1. TypeOK /\ LockstepInv /\ BarrierInv /\ EpochInv /\ HeapInv => WeakTricolor
    BY KeptProtected DEF Awaited, Base
  <1>. QED
    BY <1>1, TypeCorrect, LockstepInvariant, BarrierInvariant, EpochInvariant, HeapInvariant, AlonePremises,
       NothingLost, RootsStay, NoGrayAtEnd, EpochsAgree, PTL

-----------------------------------------------------------------------------
(* Gray objects are served by a collector thread.                          *)

(* The initial state is before the first collection.                       *)
LEMMA UnmarkedInit == Init => Unmarked
  BY ProcAssumption, UnitAssumption, HeapAssumption DEF Init, Unmarked, Unit, NoStore

(* Before the first snapshot no thread of the collector takes a step.      *)
LEMMA UnmarkedWorker ==
  ASSUME AloneInv, Started = {}, NEW w \in Worker
  PROVE  ~GCWorker(w)
  <1>1. pc[w] = "none"
    BY DEF AloneInv, Started
  <1>. QED
    BY <1>1 DEF GCWorker, MarkSweep, Sweep, SweepDone, MarkPop, MarkField, MarkDone, WorkerSync

(* The mutator never holds an entry point, so it neither shades nor stores *)
(* one.                                                                    *)
LEMMA UnmarkedMutate ==
  ASSUME TypeOK, Unmarked, Mutate(Main)
  PROVE  Unmarked'
  <1>0. Main \in Proc /\ Main \in Unit /\ Null \notin StartRoot /\ StartRoot \subseteq Obj
    BY ProcAssumption, HeapAssumption DEF Unit
  <1>1. White(epoch[Main]) \in Color
    BY <1>0, ColorType DEF TypeOK
  <1>2. /\ UNCHANGED <<phase, lphase, epoch>> /\ phase # "ASYNC"
        /\ pc'[Main] \in {"run", "barrier", "write"}
    BY <1>0 DEF Mutate, Load, LoadRoot, Drop, GCRoot, GCUnroot, Alloc, StorePlain, StoreBegin, MarkBarrier,
      StoreWrite, slicevars, cyclevars, Goto, TypeOK, Unmarked
  <1>3. CASE \E o \in Obj : Load(Main, o) \/ LoadRoot(Main, o) \/ Drop(Main, o) \/ GCRoot(Main, o) \/ GCUnroot(Main, o)
    <2>1. UNCHANGED <<color, field, store>> /\ StartRoot \subseteq groots'
      BY <1>3 DEF Load, LoadRoot, Drop, GCRoot, GCUnroot, Unmarked
    <2>2. StartRoot \cap roots'[Main] = {}
      BY <1>0, <1>3 DEF Load, LoadRoot, Drop, GCRoot, GCUnroot, Unmarked, TypeOK
    <2>. QED
      BY <1>2, <2>1, <2>2 DEF Unmarked
  <1>4. ASSUME NEW o \in Obj, NEW v \in roots[Main] \cup {Null},
               Alloc(Main, o, v) \/ StorePlain(Main, o, v) \/ StoreBegin(Main, o, v)
        PROVE  Unmarked'
    <2>1. v \notin StartRoot /\ groots' = groots
      BY <1>0, <1>4 DEF Unmarked, Alloc, StorePlain, StoreBegin, heapvars
    <2>2. CASE Alloc(Main, o, v)
      <3>1. o \notin StartRoot
        BY <1>1, <2>2, HeapAssumption DEF Alloc, Unmarked
      <3>. QED
        BY <1>0, <1>2, <2>1, <2>2, <3>1 DEF Alloc, Unmarked, TypeOK
    <2>3. CASE StorePlain(Main, o, v)
      BY <1>0, <1>2, <2>1, <2>3 DEF StorePlain, Unmarked, TypeOK
    <2>4. CASE StoreBegin(Main, o, v)
      BY <1>0, <1>2, <2>1, <2>4 DEF StoreBegin, Unmarked, TypeOK, heapvars
    <2>. QED
      BY <1>4, <2>2, <2>3, <2>4
  <1>5. CASE MarkBarrier(Main)
    <2>1. \A o \in StartRoot : o \notin BarrierSet(Main)
      BY DEF BarrierSet, Unmarked
    <2>2. \A o \in StartRoot : color'[o] = color[o]
      BY <1>0, <1>5, <2>1 DEF MarkBarrier, Shade, White2Gray
    <2>. QED
      BY <1>2, <1>5, <2>2 DEF MarkBarrier, Unmarked
  <1>6. CASE StoreWrite(Main)
    BY <1>0, <1>2, <1>6 DEF StoreWrite, Unmarked, TypeOK, NoStore
  <1>. QED
    BY <1>3, <1>4, <1>5, <1>6 DEF Mutate

(* The steps of the main processor that leave the heap alone.              *)
LEMMA UnmarkedMove ==
  ASSUME TypeOK, Unmarked, UNCHANGED <<epoch, color, field, roots, groots, store>>,
         lphase'[Main] # "ASYNC",
         phase' = "ASYNC" <=> pc'[Main] = "workerStart",
         phase' = "ASYNC" => lphase'[Main] = "SYNC2",
         pc'[Main] \notin {"setEpoch", "snapshot", "scavenge", "inc", "sweep", "mark", "sweepAcquire"}
  PROVE  Unmarked'
  BY DEF Unmarked

(* chiGCSlice: in the first two phases the main processor follows.         *)
LEMMA UnmarkedSlice ==
  ASSUME TypeOK, mode = "CONC", AloneInv, Unmarked, GCSlice(Main)
  PROVE  Unmarked'
  <1>0. Main \in Proc /\ Main \in Unit
    BY ProcAssumption DEF Unit
  <1>1. phase # "ASYNC" /\ phase \in Phase
    BY DEF GCSlice, SliceRead, SliceLocal, SetBarrier, SetEpoch, Snapshot, SnapshotDone, Scavenge,
      IncSlice, Join, Unmarked, TypeOK
  <1>2. SliceRead(Main) \/ SliceLocal(Main) \/ SetBarrier(Main) \/ Join(Main)
    BY <1>1 DEF GCSlice, SetEpoch, Snapshot, SnapshotDone, Scavenge, IncSlice, Unmarked, AloneInv
  <1>3. UNCHANGED <<phase, epoch, color, field, roots, groots, store>>
    BY <1>2 DEF SliceRead, SliceLocal, SetBarrier, Join, cyclevars, heapvars
  <1>4. CASE SliceRead(Main) \/ SetBarrier(Main) \/ Join(Main)
    <2>1. lphase' = lphase /\ pc'[Main] \in {"local", "join", "run"}
      BY <1>0, <1>4 DEF SliceRead, SetBarrier, Join, slicevars, Goto, AfterPhase, TypeOK
    <2>. QED
      BY <1>1, <1>3, <2>1, UnmarkedMove DEF Unmarked
  <1>5. CASE SliceLocal(Main)
    <2>1. seen[Main] = phase
      BY <1>5 DEF SliceLocal, AloneInv
    <2>2. lphase[Main] # "ASYNC"
      BY DEF Unmarked
    <2>3. lphase'[Main] # "ASYNC" /\ pc'[Main] \in {"setBarrier", "join"}
      <3>1. CASE lphase[Main] = Pred[phase]
        <4>1. phase # "IDLE"
          BY <1>1, <2>2, <3>1 DEF Phase, Pred
        <4>2. phase \in {"SYNC1", "SYNC2"}
          BY <1>1, <4>1 DEF Phase
        <4>. QED
          BY <1>0, <1>1, <1>5, <2>1, <3>1, <4>2 DEF SliceLocal, AfterPhase, Goto, TypeOK
      <3>2. CASE lphase[Main] # Pred[phase]
        BY <1>0, <1>5, <2>1, <2>2, <3>2 DEF SliceLocal, AfterPhase, Goto, TypeOK
      <3>. QED
        BY <3>1, <3>2
    <2>. QED
      BY <1>1, <1>3, <2>3, UnmarkedMove
  <1>. QED
    BY <1>2, <1>4, <1>5

(* chiGCControl, until it creates the collector threads.                   *)
LEMMA UnmarkedControl ==
  ASSUME TypeOK, mode = "CONC", Started = {}, LockstepInv, AloneInv, Unmarked, GCControl
  PROVE  Unmarked' \/ Started' # {}
  <1>0. Main \in Proc /\ Main \in Unit /\ phase \in Phase /\ Main \in Member
    BY ProcAssumption DEF Unit, TypeOK, LockstepInv, Listing, Member
  <1>1. CASE Control \/ (\E q \in Proc : MarkDoneProc(q) \/ Poll(q)) \/ MarkDoneWorkers \/ MarkDoneGlobal
    <2>1. /\ UNCHANGED <<phase, lphase, epoch, color, field, roots, groots, store>>
          /\ pc[Main] \in {"control", "markProcs", "markWorkers", "markGlobal", "poll"}
          /\ pc'[Main] \in {"slice", "markProcs", "markWorkers", "markGlobal", "poll", "advance"}
      BY <1>0, <1>1 DEF Control, MarkDoneProc, Poll, MarkDoneWorkers, MarkDoneGlobal, slicevars, cyclevars,
        heapvars, Goto, TypeOK
    <2>. QED
      BY <2>1, UnmarkedMove DEF Unmarked
  <1>2. CASE Advance
    <2>1. /\ UNCHANGED <<lphase, epoch, color, field, roots, groots, store>>
          /\ pc[Main] = "advance" /\ phase' = Succ[phase] /\ pc'[Main] = AfterAdvance[phase]
      BY <1>0, <1>2 DEF Advance, slicevars, heapvars, Goto, TypeOK
    <2>2. lphase[Main] = phase /\ phase # "ASYNC"
      BY <1>0, <2>1 DEF LockstepInv, Walk, Unmarked
    <2>3. /\ phase' = "ASYNC" <=> pc'[Main] = "workerStart"
          /\ phase' = "ASYNC" => lphase[Main] = "SYNC2"
          /\ pc'[Main] \in {"slice", "workerStart"}
      BY <1>0, <2>1, <2>2 DEF Phase, Succ, AfterAdvance
    <2>. QED
      BY <2>1, <2>2, <2>3, UnmarkedMove
  <1>3. ASSUME NEW W \in SUBSET Worker, WorkerStart(W)
        PROVE  Started' # {}
    <2>1. "CONC" \in Modes
      BY DEF TypeOK
    <2>2. Cardinality(W) >= MinWorker /\ MinWorker > 0 /\ MinWorker \in Nat
      BY <1>3, <2>1, WorkerAssumption DEF WorkerStart
    <2>3. W # {}
      BY <2>2, FS_EmptySet
    <2>. QED
      BY <1>3, <2>3 DEF WorkerStart, Started
  <1>4. ~SweepAcquire
    BY DEF SweepAcquire, Unmarked
  <1>. QED
    BY <1>1, <1>2, <1>3, <1>4 DEF GCControl

(* A main processor that is alone steps, or a collector thread, or nobody. *)
LEMMA AloneSteps ==
  ASSUME Proc = {Main}, LockstepInv, [Next]_vars
  PROVE  \/ UNCHANGED vars \/ Request(Main) \/ Mutate(Main) \/ Service(Main) \/ GCSlice(Main)
         \/ MarkSweep(Main) \/ GCControl \/ \E w \in Worker : GCWorker(w)
  <1>1. ~Lifecycle(Main)
    BY DEF Lifecycle, TryStart, InitProcessor, Inherit, Stop, LocalGCDestroy, Unlist, LockstepInv, Listing
  <1>. QED
    BY <1>1 DEF Next, Serve

(* The mode never changes, and no collector thread ends.                   *)
LEMMA StartedStay ==
  ASSUME Proc = {Main}, TypeOK, LockstepInv, [Next]_vars
  PROVE  mode' = mode /\ Started \subseteq Started'
  <1>1. CASE UNCHANGED vars \/ Request(Main) \/ Mutate(Main) \/ Service(Main)
    BY <1>1 DEF vars, rtvars, workvars, Request, GCTrigger, TimerTick, ScavengeRequest, Service, Started,
      Mutate, Load, LoadRoot, Drop, GCRoot, GCUnroot, Alloc, StorePlain, StoreBegin, MarkBarrier, StoreWrite
  <1>2. CASE GCSlice(Main)
    BY <1>2 DEF GCSlice, SliceRead, SliceLocal, SetBarrier, SetEpoch, Snapshot, SnapshotDone, Scavenge,
      IncSlice, Join, rtvars, workvars, Started, Notified
  <1>3. ASSUME NEW u \in Unit, MarkSweep(u)
        PROVE  mode' = mode /\ Started \subseteq Started'
    BY <1>3 DEF MarkSweep, Sweep, SweepDone, MarkPop, MarkField, MarkDone, rtvars, workvars, Started
  <1>4. CASE GCControl
    BY <1>4 DEF GCControl, Control, MarkDoneProc, Poll, MarkDoneWorkers, MarkDoneGlobal, Advance, WorkerStart,
      SweepAcquire, rtvars, workvars, Started, Notified
  <1>5. ASSUME NEW w \in Worker, NEW B, WorkerSync(w, B)
        PROVE  mode' = mode /\ Started \subseteq Started'
    BY <1>5 DEF WorkerSync, rtvars, Started, TypeOK
  <1>. QED
    BY <1>1, <1>2, <1>3, <1>4, <1>5, AloneSteps, ProcAssumption DEF GCWorker, Unit

(* All steps before the collector threads are created.                     *)
LEMMA QuietNext ==
  ASSUME Proc = {Main}, TypeOK, LockstepInv, AloneInv, QuietInv, [Next]_vars
  PROVE  QuietInv'
  <1>. SUFFICES ASSUME mode' = "CONC", Started' = {} PROVE Unmarked'
    BY DEF QuietInv
  <1>1. mode = "CONC" /\ Started = {} /\ Unmarked
    BY StartedStay DEF QuietInv
  <1>2. CASE UNCHANGED vars \/ Request(Main) \/ Service(Main)
    <2>1. /\ UNCHANGED <<phase, lphase, epoch, color, field, roots, groots, store>>
          /\ pc' = pc \/ (pc[Main] = "run" /\ pc'[Main] = "control")
      BY <1>2, ProcAssumption DEF vars, slicevars, cyclevars, heapvars, Request, GCTrigger, TimerTick,
        ScavengeRequest, Service, Goto, TypeOK, Unit
    <2>. QED
      BY <1>1, <2>1, UnmarkedMove DEF Unmarked
  <1>3. ~MarkSweep(Main)
    BY <1>1 DEF Unmarked, MarkSweep, Sweep, SweepDone, MarkPop, MarkField, MarkDone
  <1>4. \A w \in Worker : ~GCWorker(w)
    BY <1>1, UnmarkedWorker
  <1>. QED
    BY <1>1, <1>2, <1>3, <1>4, AloneSteps, UnmarkedMutate, UnmarkedSlice, UnmarkedControl

(* The only slice in which all collector threads may wait although the     *)
(* global gray vector is not empty ends by waking them.                    *)
LEMMA AwakeSlice ==
  ASSUME TypeOK, AloneInv, StartRoot # {}, AwakeInv, GCSlice(Main)
  PROVE  AwakeInv'
  <1>0. Main \in Proc /\ Main \in Unit /\ Global \notin Unit
    BY ProcAssumption, UnitAssumption DEF Unit
  <1>1. CASE SliceRead(Main) \/ SliceLocal(Main) \/ SetBarrier(Main) \/ SetEpoch(Main) \/ SnapshotDone(Main)
             \/ Scavenge(Main)
    <2>1. UNCHANGED <<gray, wstatus, phase, mode, color, groots>> /\ Started' = Started
      BY <1>1 DEF SliceRead, SliceLocal, SetBarrier, SetEpoch, SnapshotDone, Scavenge, workvars, cyclevars,
        rtvars, heapvars, Started
    <2>2. ASSUME FirstSlice
          PROVE  FirstSlice'
      <3>1. pc[Main] \in {"slice", "local", "snapshot", "join"} /\ mode = "CONC" /\ phase = "ASYNC"
        BY <2>2 DEF FirstSlice
      <3>2. CASE SliceRead(Main)
        <4>1. /\ pc'[Main] = "local" /\ seen'[Main] = "ASYNC" /\ UNCHANGED <<lphase, epoch>>
              /\ pc[Main] = "slice"
          BY <1>0, <3>1, <3>2 DEF SliceRead, Goto, TypeOK
        <4>. QED
          BY <2>1, <2>2, <4>1 DEF FirstSlice
      <3>3. ~SliceLocal(Main)
        BY <2>2 DEF SliceLocal, FirstSlice
      <3>4. CASE SnapshotDone(Main)
        <4>1. pc'[Main] = "join" /\ pc[Main] = "snapshot"
          BY <1>0, <3>1, <3>4 DEF SnapshotDone, AfterScavenge, Goto, TypeOK
        <4>. QED
          BY <2>1, <2>2, <4>1 DEF FirstSlice
      <3>. QED
        BY <1>1, <3>1, <3>2, <3>3, <3>4 DEF SetBarrier, SetEpoch, Scavenge
    <2>. QED
      BY <2>1, <2>2 DEF AwakeInv
  <1>2. CASE Snapshot(Main)
    <2>1. /\ UNCHANGED <<wstatus, phase, mode>> /\ Started' = Started
          /\ pc[Main] = "local" /\ pc'[Main] = "snapshot" /\ gray'[Global] = gray[Global]
      BY <1>0, <1>2 DEF Snapshot, Shade, workvars, cyclevars, rtvars, Started, Goto, TypeOK
    <2>2. ASSUME FirstSlice
          PROVE  gray'[Main] # {}
      <3>1. PICK o \in StartRoot : o \in groots /\ color[o] = White(epoch[Main])
        BY <2>1, <2>2 DEF FirstSlice
      <3>2. o \in White2Gray(MarkedRoots(Main), epoch[Main])
        BY <3>1 DEF White2Gray, MarkedRoots
      <3>3. gray'[Main] = gray[Main] \cup White2Gray(MarkedRoots(Main), epoch[Main])
        BY <1>0, <1>2 DEF Snapshot, Shade, TypeOK
      <3>. QED
        BY <3>2, <3>3
    <2>3. FirstSlice => FirstSlice'
      BY <2>1, <2>2 DEF FirstSlice
    <2>. QED
      BY <2>1, <2>3 DEF AwakeInv
  <1>3. CASE IncSlice(Main)
    BY <1>0, <1>3 DEF IncSlice, AwakeInv, TypeOK
  <1>4. CASE Join(Main)
    <2>1. CASE gray[Main] # {}
      BY <1>4, <2>1 DEF Join, Notified, AwakeInv, Started, TypeOK
    <2>2. CASE gray[Main] = {}
      <3>1. UNCHANGED <<gray, wstatus>> /\ Started' = Started /\ pc[Main] = "join"
        BY <1>4, <2>2 DEF Join, Started
      <3>2. ~FirstSlice
        BY <2>2, <3>1 DEF FirstSlice
      <3>. QED
        BY <3>1, <3>2 DEF AwakeInv
    <2>. QED
      BY <2>1, <2>2
  <1>. QED
    BY <1>1, <1>2, <1>3, <1>4 DEF GCSlice

(* A collector thread that is woken takes something over, or the global    *)
(* gray vector is empty.                                                   *)
LEMMA AwakeWorkerSync ==
  ASSUME TypeOK, AwakeInv, NEW w \in Worker, NEW B \in SUBSET Obj, WorkerSync(w, B)
  PROVE  AwakeInv'
  <1>1. w \in Started'
    BY DEF WorkerSync, Started, TypeOK
  <1>2. CASE sweepNeeded \/ B # {}
    BY <1>1, <1>2 DEF WorkerSync, AwakeInv, TypeOK
  <1>3. CASE ~sweepNeeded /\ B = {}
    <2>1. gray[Global] = {} /\ Global \in Unit \cup {Global} /\ Global # w
      BY <1>3, UnitAssumption DEF WorkerSync
    <2>2. gray'[Global] = {}
      BY <2>1 DEF WorkerSync, TypeOK
    <2>. QED
      BY <2>2 DEF AwakeInv
  <1>. QED
    BY <1>2, <1>3

(* chiGCControl: when the collector threads are created the main processor *)
(* is about to take its first snapshot; when they have to sweep all are    *)
(* woken.                                                                  *)
LEMMA AwakeControl ==
  ASSUME TypeOK, AloneInv, QuietInv, AwakeInv, GCControl
  PROVE  AwakeInv'
  <1>0. Main \in Proc /\ Main \in Unit /\ Main \notin Worker
    BY ProcAssumption, UnitAssumption DEF Unit
  <1>1. ~FirstSlice
    BY DEF FirstSlice, GCControl, Control, MarkDoneProc, Poll, MarkDoneWorkers, MarkDoneGlobal, Advance,
      WorkerStart, SweepAcquire
  <1>2. CASE Control \/ (\E q \in Proc : MarkDoneProc(q) \/ Poll(q)) \/ MarkDoneWorkers \/ MarkDoneGlobal
             \/ Advance
    <2>1. UNCHANGED <<gray, wstatus>> /\ Started' = Started
      BY <1>2 DEF Control, MarkDoneProc, Poll, MarkDoneWorkers, MarkDoneGlobal, Advance, workvars, Started
    <2>. QED
      BY <1>1, <2>1 DEF AwakeInv
  <1>3. ASSUME NEW W \in SUBSET Worker, WorkerStart(W)
        PROVE  AwakeInv'
    <2>1. CASE mode = "CONC" /\ Started = {}
      <3>1. Unmarked /\ phase = "ASYNC"
        BY <1>3, <2>1 DEF QuietInv, WorkerStart, Unmarked
      <3>2. /\ UNCHANGED <<mode, phase, lphase, groots, color>> /\ epoch'[Main] = epoch[Main]
            /\ pc'[Main] = "slice"
        BY <1>0, <1>3 DEF WorkerStart, slicevars, cyclevars, rtvars, heapvars
      <3>3. FirstSlice'
        BY <2>1, <3>1, <3>2 DEF Unmarked, FirstSlice
      <3>. QED
        BY <3>3 DEF AwakeInv
    <2>2. CASE ~(mode = "CONC" /\ Started = {})
      <3>1. wstatus' = wstatus /\ gray' = gray /\ Started' = Started
        BY <1>3, <2>2 DEF WorkerStart, TypeOK, Started
      <3>. QED
        BY <1>1, <3>1 DEF AwakeInv
    <2>. QED
      BY <2>1, <2>2
  <1>4. CASE SweepAcquire
    BY <1>4 DEF SweepAcquire, Notified, AwakeInv, Started, TypeOK
  <1>. QED
    BY <1>2, <1>3, <1>4 DEF GCControl

(* All steps.                                                              *)
LEMMA AwakeNext ==
  ASSUME Proc = {Main}, StartRoot # {}, TypeOK, LockstepInv, AloneInv, QuietInv, AwakeInv, [Next]_vars
  PROVE  AwakeInv'
  <1>0. Main \in Proc /\ Main \in Unit /\ Global \notin Unit
    BY ProcAssumption, UnitAssumption DEF Unit
  <1>1. CASE UNCHANGED vars \/ Request(Main)
    <2>1. UNCHANGED <<gray, wstatus, phase, mode, pc, seen, lphase, groots, color, epoch>>
      BY <1>1 DEF vars, slicevars, cyclevars, rtvars, heapvars, workvars, Request, GCTrigger, TimerTick,
        ScavengeRequest
    <2>. QED
      BY <2>1 DEF AwakeInv, FirstSlice, Started
  <1>2. CASE Mutate(Main) \/ Service(Main)
    <2>1. wstatus' = wstatus /\ gray'[Global] = gray[Global] /\ pc[Main] \in {"run", "barrier", "write"}
      BY <1>0, <1>2 DEF Mutate, Load, LoadRoot, Drop, GCRoot, GCUnroot, Alloc, StorePlain, StoreBegin,
        MarkBarrier, StoreWrite, Shade, Service, workvars, TypeOK
    <2>. QED
      BY <2>1 DEF AwakeInv, FirstSlice, Started
  <1>3. ASSUME NEW u \in Unit, u = Main \/ u \in Worker, MarkSweep(u)
        PROVE  AwakeInv'
    <2>1. wstatus' = wstatus /\ gray'[Global] = gray[Global] /\ pc[u] \in {"sweep", "mark"}
      BY <1>0, <1>3 DEF MarkSweep, Sweep, SweepDone, MarkPop, MarkField, MarkDone, Shade, workvars, TypeOK
    <2>2. CASE u = Main
      BY <2>1, <2>2 DEF AwakeInv, FirstSlice, Started
    <2>3. CASE u \in Worker
      <3>1. u \in Started /\ wstatus[u] # "WAIT"
        BY <2>1, <2>3 DEF AloneInv, Started
      <3>. QED
        BY <2>1, <3>1 DEF AwakeInv, Started
    <2>. QED
      BY <1>3, <2>2, <2>3
  <1>. QED
    BY <1>0, <1>1, <1>2, <1>3, AloneSteps, AwakeSlice, AwakeWorkerSync, AwakeControl DEF GCWorker, Unit

(* A program that runs on its main processor, with any number of collector *)
(* threads: once it has taken its snapshot they do not all sleep while     *)
(* there is something gray for them (gcWorkerSync, gcWorkerNotify and      *)
(* chiGCSlice), because the entry points are always marked.                *)
THEOREM GrayIsServed ==
  ASSUME Proc = {Main}, StartRoot # {}
  PROVE  Spec => []GrayServed
  <1>1. Init => AloneInv /\ QuietInv /\ AwakeInv
    <2>1. Init => AwakeInv
      BY DEF Init, AwakeInv, Started
    <2>. QED
      BY <2>1, AloneInit, UnmarkedInit DEF QuietInv
  <1>2. TypeOK /\ LockstepInv /\ AloneInv /\ QuietInv /\ AwakeInv /\ [Next]_vars
        => AloneInv' /\ QuietInv' /\ AwakeInv'
    BY AloneNext, QuietNext, AwakeNext
  <1>3. TypeOK /\ LockstepInv /\ AwakeInv => GrayServed
    <2>. SUFFICES ASSUME LockstepInv, AwakeInv, phase = "ASYNC", gray[Global] # {}, Started # {},
                         \A p \in Member : lphase[p] = "ASYNC" /\ pc[p] # "join"
                  PROVE  ~FirstSlice
      BY DEF AwakeInv, GrayServed
    <2>1. Main \in Member
      BY ProcAssumption DEF LockstepInv, Listing, Member
    <2>2. pc[Main] # "snapshot"
      BY <2>1 DEF LockstepInv, Following
    <2>. QED
      BY <2>1, <2>2 DEF FirstSlice
  <1>. QED
    BY <1>1, <1>2, <1>3, TypeCorrect, LockstepInvariant, PTL DEF Spec

=============================================================================
