----------------------------- MODULE Processor -----------------------------
(***************************************************************************)
(* The processors of the native runtime and the two workers of each        *)
(* (native/processor.c, and the safe point chiYield of runtime.c).         *)
(*                                                                         *)
(* The primary worker of a processor runs compiled code.  It looks for     *)
(* requests at safe points only, where the heap limit register was zeroed. *)
(* While it is inside protected foreign code, or parked, the secondary     *)
(* worker serves the requests in its place.  Requests come from the        *)
(* interrupt dispatcher thread (timer ticks, signals; the handshakes of    *)
(* the collector stand with them) and from other processors.               *)
(*                                                                         *)
(* Every thread has a program counter; a step is the code between two      *)
(* accesses to state that others change.  The mutex of a secondary worker  *)
(* is held over several steps by a request and within one step elsewhere;  *)
(* suspend.mutex is held within single steps.                              *)
(***************************************************************************)
EXTENDS Naturals, FiniteSets

CONSTANTS
  Proc,        \* processors
  Main,        \* the main processor
  Dispatcher,  \* the interrupt dispatcher thread
  Kind,        \* the requests the dispatcher makes
  MaxRequest,  \* bound on the requests of the dispatcher and on notifications
  Null         \* nobody

ASSUME ProcAssumption == Main \in Proc
ASSUME KindAssumption == Kind \subseteq {"TIMER", "USER", "DUMP", "HANDSHAKE"}
ASSUME BoundAssumption == MaxRequest \in Nat

Prim(p) == <<p, "primary">>
Sec(p)  == <<p, "secondary">>
Thread  == Proc \X {"primary", "secondary"}
Caller  == {Prim(p) : p \in Proc} \cup {Dispatcher}

ASSUME DispatcherAssumption == Dispatcher \notin Thread
ASSUME NullAssumption == Null \notin Caller

VARIABLES
  pc,         \* where a thread is
  status,     \* secondary.status
  lock,       \* who holds secondary.mutex over several steps
  worker,     \* proc->worker
  interrupt,  \* trigger.interrupt
  hl,         \* FALSE when the heap limit register holds zero
  trig,       \* the other triggers that are set: EXIT, USER, NOTIFY, TIMER, DUMP
  timeout,    \* suspend.timeout is not zero
  listed,     \* the processors of rt->proc.list
  listLock,   \* who holds rt->proc.mutex over several steps
  alive,      \* processors whose mutexes and conditions exist
  call,       \* the request a thread is making: kind, targets, where it returns to
  left,       \* requests left
  owed,       \* processors with a complete, unanswered handshake request
  told        \* processors told to wake since they last called chiProcessorSuspend

procvars == <<status, worker, interrupt, hl, trig, timeout>>
listvars == <<listed, listLock, alive>>
vars == <<pc, procvars, lock, listvars, call, left, owed, told>>

NoCall == [kind |-> "NONE", to |-> Null, rest |-> {}, then |-> "idle"]

(* The service routine, run by either worker.                              *)
Service == {"loop", "clear", "slice", "serviced"}
(* Where the primary worker has given its processor away.                  *)
Away == {"foreign", "park", "parked", "deactivate", "deactivateWait"}
Stopping == {"exit", "wait", "exitWait", "stopSecondary", "join", "unlist", "free",
             "destroy", "gone"}

Goto(t, l) == pc' = [pc EXCEPT ![t] = l]

(* Those who wait for secondary.cond.                                      *)
Waiting(p) == {t \in {Prim(p), Sec(p)} : pc[t] \in {"deactivateWait", "secWait"}}

Awake(l) == IF l = "secWait" THEN "top" ELSE "deactivate"

(* chiCondSignal(&snd->cond) as a thread moves on: f is pc after its move. *)
Signal(p, f) ==
  IF Waiting(p) = {} THEN pc' = f
  ELSE \E t \in Waiting(p) : pc' = [f EXCEPT ![t] = Awake(pc[t])]

Init ==
  /\ pc = [t \in Thread \cup {Dispatcher} |->
             IF t = Dispatcher THEN "idle"
             ELSE IF t = Prim(Main) THEN "run" ELSE IF t = Sec(Main) THEN "top" ELSE "off"]
  /\ status = [p \in Proc |-> "INACTIVE"]
  /\ lock = [p \in Proc |-> Null]
  /\ worker = [p \in Proc |-> "primary"]
  /\ interrupt = [p \in Proc |-> FALSE]
  /\ hl = [p \in Proc |-> TRUE]
  /\ trig = [p \in Proc |-> {}]
  /\ timeout = [p \in Proc |-> FALSE]
  /\ listed = {Main}
  /\ listLock = Null
  /\ alive = {Main}
  /\ call = [c \in Caller |-> NoCall]
  /\ left = MaxRequest
  /\ owed = {}
  /\ told = {}

-----------------------------------------------------------------------------
(* chiProcessorRequest.                                                    *)

(* The steps of a request to the processors S, after which c goes on at l. *)
Begin(c, kind, S, l) ==
  \E q \in S : call' = [call EXCEPT ![c] = [kind |-> kind, to |-> q, rest |-> S \ {q}, then |-> l]]

(* CHI_LOCK_MUTEX(&snd->mutex) and the switch.  There are no ticks while   *)
(* the secondary worker stands in.                                         *)
RequestLock(c) ==
  LET q == call[c].to
      k == call[c].kind
  IN  /\ pc[c] = "request"
      /\ lock[q] = Null
      /\ IF k = "TIMER" /\ status[q] # "INACTIVE"
         THEN /\ Goto(c, "next")
              /\ UNCHANGED <<lock, trig>>
         ELSE /\ Goto(c, "interrupt")
              /\ lock' = [lock EXCEPT ![q] = c]
              /\ trig' = [trig EXCEPT ![q] = @ \cup ({k} \ {"HANDSHAKE", "SCAVENGE"})]
      /\ UNCHANGED <<status, worker, interrupt, hl, timeout, listvars, call, left, owed, told>>

(* interruptProcessor, first the trigger, *)
RequestInterrupt(c) ==
  /\ pc[c] = "interrupt"
  /\ interrupt' = [interrupt EXCEPT ![call[c].to] = TRUE]
  /\ Goto(c, "limit")
  /\ UNCHANGED <<status, worker, hl, trig, timeout, lock, listvars, call, left, owed, told>>

(* then the heap limit register.                                           *)
RequestLimit(c) ==
  /\ pc[c] = "limit"
  /\ hl' = [hl EXCEPT ![call[c].to] = FALSE]
  /\ owed' = owed \cup (IF call[c].kind = "HANDSHAKE" /\ interrupt[call[c].to]
                        THEN {call[c].to} ELSE {})
  /\ Goto(c, "wake")
  /\ UNCHANGED <<status, worker, interrupt, trig, timeout, lock, listvars, call, left, told>>

(* Broken: a sleeping processor is not woken.                              *)
Rouse_zero(c, f) == f

(* pc as f, and the parked primary worker of the target awake.             *)
Rouse(c, f) ==
  LET q == call[c].to
  IN  IF call[c].kind \in {"USER", "NOTIFY", "EXIT"} /\ timeout[q] /\ pc[Prim(q)] = "parked"
      THEN [f EXCEPT ![Prim(q)] = "park"] ELSE f

(* The suspension ends, the secondary worker is woken, the mutex released. *)
RequestWake(c) ==
  LET q == call[c].to
      f == Rouse(c, [pc EXCEPT ![c] = "next"])
      ends == call[c].kind \in {"USER", "NOTIFY", "EXIT"}
  IN  /\ pc[c] = "wake"
      /\ timeout' = [timeout EXCEPT ![q] = @ /\ ~ends]
      /\ told' = told \cup (IF ends THEN {q} ELSE {})
      /\ IF status[q] = "ACTIVE" THEN Signal(q, f) ELSE pc' = f
      /\ lock' = [lock EXCEPT ![q] = Null]
      /\ UNCHANGED <<status, worker, interrupt, hl, trig, listvars, call, left, owed>>

(* The next processor of the list, or the end.                             *)
RequestNext(c) ==
  /\ pc[c] = "next"
  /\ IF call[c].rest # {}
     THEN /\ Begin(c, call[c].kind, call[c].rest, call[c].then)
          /\ Goto(c, "request")
          /\ UNCHANGED listLock
     ELSE /\ call' = [call EXCEPT ![c] = NoCall]
          /\ Goto(c, call[c].then)
          /\ listLock' = IF listLock = c THEN Null ELSE listLock
  /\ UNCHANGED <<procvars, lock, listed, alive, left, owed, told>>

Request(c) ==
  RequestLock(c) \/ RequestInterrupt(c) \/ RequestLimit(c) \/ RequestWake(c) \/ RequestNext(c)

(* Broken: the list is not locked while it is walked.                      *)
Walk_unlocked(c, kind, S, l) ==
  /\ listLock = Null
  /\ Begin(c, kind, S, l)
  /\ Goto(c, "request")
  /\ UNCHANGED <<procvars, lock, listvars, owed, told>>

(* A request to members of the processor list, with the list locked.       *)
Walk(c, kind, S, l) ==
  /\ listLock = Null
  /\ listLock' = c
  /\ Begin(c, kind, S, l)
  /\ Goto(c, "request")
  /\ UNCHANGED <<procvars, lock, listed, alive, owed, told>>

(* timerHandler and signalHandler of setup.c, gcPoll of gc.c.              *)
Dispatch(k) ==
  /\ pc[Dispatcher] = "idle"
  /\ pc[Prim(Main)] # "gone"
  /\ left > 0
  /\ left' = left - 1
  /\ IF k \in {"USER", "HANDSHAKE"}
     THEN \E p \in listed : /\ k = "USER" => p = Main
                            /\ Walk(Dispatcher, k, {p}, "idle")
     ELSE listed # {} /\ Walk(Dispatcher, k, listed, "idle")

-----------------------------------------------------------------------------
(* chiProcessorService, by the worker t of p.                              *)

ServiceLoop(p, t) ==
  /\ pc[t] = "loop"
  /\ Goto(t, IF interrupt[p] THEN "clear" ELSE IF t = Prim(p) THEN "restore" ELSE "leave")
  /\ UNCHANGED <<procvars, lock, listvars, call, left, owed, told>>

ServiceClear(p, t) ==
  /\ pc[t] = "clear"
  /\ interrupt' = [interrupt EXCEPT ![p] = FALSE]
  /\ Goto(t, "slice")
  /\ UNCHANGED <<status, worker, hl, trig, timeout, lock, listvars, call, left, owed, told>>

(* chiGCControl, chiGCSlice and serviceDump.                               *)
ServiceSlice(p, t) ==
  /\ pc[t] = "slice"
  /\ owed' = owed \ {p}
  /\ trig' = [trig EXCEPT ![p] = @ \ {"DUMP"}]
  /\ Goto(t, "serviced")
  /\ UNCHANGED <<status, worker, interrupt, hl, timeout, lock, listvars, call, left, told>>

(* Broken: any worker may end the processor.                               *)
ServiceExit_any(p, t) ==
  /\ pc[t] = "serviced"
  /\ Goto(t, IF "EXIT" \in trig[p] THEN "exit" ELSE "loop")
  /\ UNCHANGED <<procvars, lock, listvars, call, left, owed, told>>

(* serviceExit                                                             *)
ServiceExit(p, t) ==
  /\ pc[t] = "serviced"
  /\ Goto(t, IF worker[p] = "primary" /\ "EXIT" \in trig[p] THEN "exit" ELSE "loop")
  /\ UNCHANGED <<procvars, lock, listvars, call, left, owed, told>>

Serve(p, t) ==
  ServiceLoop(p, t) \/ ServiceClear(p, t) \/ ServiceSlice(p, t) \/ ServiceExit(p, t)

-----------------------------------------------------------------------------
(* The primary worker: compiled code and safe points.                      *)

(* chiYield: the limits are restored, whether or not a request has zeroed  *)
(* the one of the heap.  The nursery may be exhausted.                     *)
Yield(p) ==
  /\ pc[Prim(p)] = "run"
  /\ hl' = [hl EXCEPT ![p] = TRUE]
  /\ \E l \in {"stack", "grow"} : Goto(Prim(p), l)
  /\ UNCHANGED <<status, worker, interrupt, trig, timeout, lock, listvars, call, left, owed, told>>

(* chiLocalHeapBumpGrow, which may ask for a scavenge of its own nursery:  *)
Bump(p, from, to) ==
  /\ pc[Prim(p)] = from
  /\ \/ /\ Goto(Prim(p), to)
        /\ UNCHANGED <<call, left>>
     \/ /\ left > 0
        /\ left' = left - 1
        /\ Begin(Prim(p), "SCAVENGE", {p}, to)
        /\ Goto(Prim(p), "request")
  /\ UNCHANGED <<procvars, lock, listvars, owed, told>>

(* in chiYield, and in chiGrowHeap, which the interpreter calls where it   *)
(* allocates outside of a safe point.                                      *)
Grow(p)     == Bump(p, "grow", "regrow")
GrowHeap(p) == Bump(p, "run", "look")

(* chiGrowHeap looks at the interrupt                                      *)
LookLimit(p) ==
  /\ pc[Prim(p)] = "look"
  /\ Goto(Prim(p), IF interrupt[p] THEN "zero" ELSE "fill")
  /\ UNCHANGED <<procvars, lock, listvars, call, left, owed, told>>

(* and then writes the limit, over the zero of a request made in between.  *)
WriteLimit(p, from) ==
  /\ pc[Prim(p)] = from
  /\ hl' = [hl EXCEPT ![p] = from = "fill"]
  /\ Goto(Prim(p), "run")
  /\ UNCHANGED <<status, worker, interrupt, trig, timeout, lock, listvars, call, left, owed, told>>

(* RESTORE_HEAP_REGS where the nursery block has changed: the new limit,   *)
(* which overwrites a zero there,                                          *)
RestoreLimit(p, from, to) ==
  /\ pc[Prim(p)] = from
  /\ hl' = [hl EXCEPT ![p] = TRUE]
  /\ Goto(Prim(p), to)
  /\ UNCHANGED <<status, worker, interrupt, trig, timeout, lock, listvars, call, left, owed, told>>

(* or where it has not,                                                    *)
KeepLimit(p, from, to) ==
  /\ pc[Prim(p)] = from
  /\ Goto(Prim(p), to)
  /\ UNCHANGED <<procvars, lock, listvars, call, left, owed, told>>

(* Broken: a request made meanwhile is not looked for.                     *)
Rearm_forget(p, from, to) ==
  /\ pc[Prim(p)] = from
  /\ Goto(Prim(p), to)
  /\ UNCHANGED <<procvars, lock, listvars, call, left, owed, told>>

(* and the zero again if somebody has asked.                               *)
Rearm(p, from, to) ==
  /\ pc[Prim(p)] = from
  /\ hl' = [hl EXCEPT ![p] = @ /\ ~interrupt[p]]
  /\ Goto(Prim(p), to)
  /\ UNCHANGED <<status, worker, interrupt, trig, timeout, lock, listvars, call, left, owed, told>>

(* chiHeapOverflow is thrown instead of the rest of chiYield.              *)
HeapOverflow(p) == Rearm(p, "rearmGrow", "run")

Restore(p) ==
  \/ RestoreLimit(p, "regrow", "rearmGrow")
  \/ Rearm(p, "rearmGrow", "stack")              \/ HeapOverflow(p)
  \/ RestoreLimit(p, "restore", "rearmService")  \/ KeepLimit(p, "restore", "resume")
  \/ Rearm(p, "rearmService", "resume")
  \/ RestoreLimit(p, "protected", "rearmProtect") \/ KeepLimit(p, "protected", "run")
  \/ Rearm(p, "rearmProtect", "run")

(* chiStackTryGrow, if the stack has to grow at all,                       *)
GrowStack(p) ==
  /\ pc[Prim(p)] = "stack"
  /\ Goto(Prim(p), "check")
  /\ UNCHANGED <<procvars, lock, listvars, call, left, owed, told>>

(* or throwAsyncException if it cannot: nobody looks at the interrupt, and *)
(* the limit stays as Yield has left it.                                   *)
StackOverflow(p) ==
  /\ pc[Prim(p)] = "stack"
  /\ Goto(Prim(p), "run")
  /\ UNCHANGED <<procvars, lock, listvars, call, left, owed, told>>

Check(p) ==
  /\ pc[Prim(p)] = "check"
  /\ Goto(Prim(p), IF interrupt[p] THEN "loop" ELSE "run")
  /\ UNCHANGED <<procvars, lock, listvars, call, left, owed, told>>

(* The interrupt chiRestoreCont delivers to an interruptible thread.       *)
Delivered(p) ==
  IF "USER" \in trig[p] THEN {"USER"}
  ELSE IF "NOTIFY" \in trig[p] THEN {"NOTIFY"} ELSE trig[p] \cap {"TIMER"}

Resume(p) ==
  /\ pc[Prim(p)] = "resume"
  /\ \E interruptible \in BOOLEAN :
       trig' = [trig EXCEPT ![p] = @ \ (IF interruptible THEN Delivered(p) ELSE {})]
  /\ Goto(Prim(p), "run")
  /\ UNCHANGED <<status, worker, interrupt, hl, timeout, lock, listvars, call, left, owed, told>>

-----------------------------------------------------------------------------
(* Protected foreign code, and parking.                                    *)

(* chiProcessorSuspend with a time other than zero.                        *)
Suspend(p) ==
  /\ pc[Prim(p)] = "run"
  /\ timeout' = [timeout EXCEPT ![p] = TRUE]
  /\ told' = told \ {p}
  /\ UNCHANGED <<pc, status, worker, interrupt, hl, trig, lock, listvars, call, left, owed>>

(* Broken: a request made before goes unnoticed.                           *)
ProtectBegin_deaf(p) ==
  /\ pc[Prim(p)] = "run"
  /\ lock[p] = Null
  /\ status' = [status EXCEPT ![p] = "ACTIVE"]
  /\ \E l \in {"foreign", "park"} : Goto(Prim(p), l)
  /\ UNCHANGED <<worker, interrupt, hl, trig, timeout, lock, listvars, call, left, owed, told>>

(* secondaryActivate, before a foreign function or chiProcessorPark.       *)
ProtectBegin(p) ==
  /\ pc[Prim(p)] = "run"
  /\ lock[p] = Null
  /\ status' = [status EXCEPT ![p] = "ACTIVE"]
  /\ \E l \in {"foreign", "park"} :
       LET f == [pc EXCEPT ![Prim(p)] = l]
       IN  IF interrupt[p] THEN Signal(p, f) ELSE pc' = f
  /\ UNCHANGED <<worker, interrupt, hl, trig, timeout, lock, listvars, call, left, owed, told>>

ForeignReturn(p) ==
  /\ pc[Prim(p)] = "foreign"
  /\ Goto(Prim(p), "deactivate")
  /\ UNCHANGED <<procvars, lock, listvars, call, left, owed, told>>

(* park: sleep until the time is over.                                     *)
Park(p) ==
  /\ pc[Prim(p)] = "park"
  /\ Goto(Prim(p), IF timeout[p] THEN "parked" ELSE "deactivate")
  /\ UNCHANGED <<procvars, lock, listvars, call, left, owed, told>>

(* chiCondTimedWait returns: the time is over, or it is not.               *)
ParkTimeout(p) ==
  /\ pc[Prim(p)] = "parked"
  /\ \E over \in BOOLEAN : timeout' = [timeout EXCEPT ![p] = @ /\ ~over]
  /\ Goto(Prim(p), "park")
  /\ UNCHANGED <<status, worker, interrupt, hl, trig, lock, listvars, call, left, owed, told>>

(* Broken: the processor is taken back while the secondary worker serves.  *)
Deactivate_hasty(p) ==
  /\ pc[Prim(p)] = "deactivate"
  /\ lock[p] = Null
  /\ Goto(Prim(p), "protectEnd")
  /\ status' = [status EXCEPT ![p] = "INACTIVE"]
  /\ UNCHANGED <<worker, interrupt, hl, trig, timeout, lock, listvars, call, left, owed, told>>

(* secondaryDeactivate                                                     *)
Deactivate(p) ==
  /\ pc[Prim(p)] = "deactivate"
  /\ lock[p] = Null
  /\ IF status[p] = "ACTIVE"
     THEN /\ Goto(Prim(p), "protectEnd")
          /\ status' = [status EXCEPT ![p] = "INACTIVE"]
     ELSE /\ Goto(Prim(p), "deactivateWait")
          /\ UNCHANGED status
  /\ UNCHANGED <<worker, interrupt, hl, trig, timeout, lock, listvars, call, left, owed, told>>

(* chiProcessorProtectEnd: the secondary worker has cleared the trigger of *)
(* requests only the primary one can serve.                                *)
ProtectEnd(p) ==
  /\ pc[Prim(p)] = "protectEnd"
  /\ interrupt' = [interrupt EXCEPT ![p] = @ \/ {"EXIT", "USER"} \cap trig[p] # {}]
  /\ Goto(Prim(p), "protected")
  /\ UNCHANGED <<status, worker, hl, trig, timeout, lock, listvars, call, left, owed, told>>

-----------------------------------------------------------------------------
(* secondaryRun                                                            *)

(* Broken: the secondary worker serves while the primary one runs.         *)
SecondaryTop_eager(p) ==
  /\ pc[Sec(p)] = "top"
  /\ lock[p] = Null
  /\ Goto(Sec(p), IF interrupt[p] THEN "enter" ELSE "secWait")
  /\ status' = [status EXCEPT ![p] = IF interrupt[p] THEN "RUN" ELSE @]
  /\ UNCHANGED <<worker, interrupt, hl, trig, timeout, lock, listvars, call, left, owed, told>>

SecondaryTop(p) ==
  /\ pc[Sec(p)] = "top"
  /\ lock[p] = Null
  /\ LET idle == status[p] = "INACTIVE" \/ (status[p] = "ACTIVE" /\ ~interrupt[p])
     IN  /\ Goto(Sec(p), IF status[p] = "STOP" THEN "done" ELSE IF idle THEN "secWait" ELSE "enter")
         /\ status' = [status EXCEPT ![p] = IF @ = "STOP" \/ idle THEN @ ELSE "RUN"]
  /\ UNCHANGED <<worker, interrupt, hl, trig, timeout, lock, listvars, call, left, owed, told>>

(* A condition variable may wake without a signal.  (waitProcessors would  *)
(* only repeat its requests; that is left out.)                            *)
Spurious(p) ==
  /\ \E t \in Waiting(p) : Goto(t, Awake(pc[t]))
  /\ UNCHANGED <<procvars, lock, listvars, call, left, owed, told>>

SecondaryEnter(p) ==
  /\ pc[Sec(p)] = "enter"
  /\ worker' = [worker EXCEPT ![p] = "secondary"]
  /\ Goto(Sec(p), "loop")
  /\ UNCHANGED <<status, interrupt, hl, trig, timeout, lock, listvars, call, left, owed, told>>

SecondaryLeave(p) ==
  /\ pc[Sec(p)] = "leave"
  /\ worker' = [worker EXCEPT ![p] = "primary"]
  /\ Goto(Sec(p), "handBack")
  /\ UNCHANGED <<status, interrupt, hl, trig, timeout, lock, listvars, call, left, owed, told>>

(* Broken: a request made since the service loop ended is left for later.  *)
HandBack_blind(p) ==
  /\ pc[Sec(p)] = "handBack"
  /\ lock[p] = Null
  /\ status' = [status EXCEPT ![p] = "ACTIVE"]
  /\ Signal(p, [pc EXCEPT ![Sec(p)] = "secWait"])
  /\ UNCHANGED <<worker, interrupt, hl, trig, timeout, lock, listvars, call, left, owed, told>>

(* The processor is given back unless it was interrupted once more.        *)
HandBack(p) ==
  /\ pc[Sec(p)] = "handBack"
  /\ lock[p] = Null
  /\ LET f == [pc EXCEPT ![Sec(p)] = "top"]
     IN  IF interrupt[p] THEN pc' = f /\ UNCHANGED status
         ELSE /\ status' = [status EXCEPT ![p] = "ACTIVE"]
              /\ Signal(p, f)
  /\ UNCHANGED <<worker, interrupt, hl, trig, timeout, lock, listvars, call, left, owed, told>>

-----------------------------------------------------------------------------
(* Starting and stopping.                                                  *)

(* chiProcessorTryStart and chiProcessorBegin: a zeroed processor.         *)
TryStart(q, p) ==
  /\ pc[Prim(q)] = "run"
  /\ pc[Prim(p)] = "off"
  /\ pc' = [pc EXCEPT ![Prim(q)] = "starting", ![Prim(p)] = "init"]
  /\ status' = [status EXCEPT ![p] = "INACTIVE"]
  /\ worker' = [worker EXCEPT ![p] = "primary"]
  /\ interrupt' = [interrupt EXCEPT ![p] = FALSE]
  /\ hl' = [hl EXCEPT ![p] = TRUE]
  /\ trig' = [trig EXCEPT ![p] = {}]
  /\ timeout' = [timeout EXCEPT ![p] = FALSE]
  /\ call' = [call EXCEPT ![Prim(p)] = [NoCall EXCEPT !.to = Prim(q)]]
  /\ UNCHANGED <<lock, listvars, left, owed, told>>

(* initProcessor; the starter is released, whether or not there was a      *)
(* thread left for the secondary worker.                                   *)
InitProcessor(p) ==
  /\ pc[Prim(p)] = "init"
  /\ \/ /\ listLock = Null
        /\ listed' = listed \cup {p}
        /\ alive' = alive \cup {p}
        /\ pc' = [pc EXCEPT ![Prim(p)] = "run", ![Sec(p)] = "top", ![call[Prim(p)].to] = "run"]
     \/ /\ pc' = [pc EXCEPT ![Prim(p)] = "off", ![call[Prim(p)].to] = "run"]
        /\ UNCHANGED <<listed, alive>>
  /\ call' = [call EXCEPT ![Prim(p)] = NoCall]
  /\ UNCHANGED <<procvars, lock, listLock, left, owed, told>>

(* chiProcessorNotify: the program holds a reference to the processor.     *)
Notify(p, q) ==
  /\ pc[Prim(p)] = "run"
  /\ q \in alive
  /\ left > 0
  /\ left' = left - 1
  /\ Begin(Prim(p), "NOTIFY", {q}, "run")
  /\ Goto(Prim(p), "request")
  /\ UNCHANGED <<procvars, lock, listvars, owed, told>>

(* chiExit asks every processor to exit and ends its own.                  *)
Exit(p) ==
  /\ pc[Prim(p)] = "run"
  /\ Walk(Prim(p), "EXIT", listed, "exit")
  /\ UNCHANGED left

(* chiProcessorStop                                                        *)
Stop(p) ==
  /\ p # Main
  /\ pc[Prim(p)] = "run"
  /\ Goto(Prim(p), "exit")
  /\ UNCHANGED <<procvars, lock, listvars, call, left, owed, told>>

(* exitProcessor                                                           *)
ExitProcessor(p) ==
  /\ pc[Prim(p)] = "exit"
  /\ Goto(Prim(p), IF p = Main THEN "wait" ELSE "stopSecondary")
  /\ UNCHANGED <<procvars, lock, listvars, call, left, owed, told>>

(* waitProcessors: ask everybody, sleep until somebody has left, again.    *)
WaitProcessors ==
  /\ pc[Prim(Main)] = "wait"
  /\ listLock = Null
  /\ IF listed = {Main}
     THEN /\ Goto(Prim(Main), "stopSecondary")
          /\ UNCHANGED <<procvars, lock, listvars, call, owed, told>>
     ELSE Walk(Prim(Main), "EXIT", listed, "exitWait")
  /\ UNCHANGED left

(* secondaryStop                                                           *)
StopSecondary(p) ==
  /\ pc[Prim(p)] = "stopSecondary"
  /\ lock[p] = Null
  /\ status' = [status EXCEPT ![p] = "STOP"]
  /\ Signal(p, [pc EXCEPT ![Prim(p)] = "join"])
  /\ UNCHANGED <<worker, interrupt, hl, trig, timeout, lock, listvars, call, left, owed, told>>

(* chiTaskJoin, and what destroyProcessor destroys of its own.             *)
Join(p) ==
  /\ pc[Prim(p)] = "join"
  /\ pc[Sec(p)] = "done"
  /\ pc' = [pc EXCEPT ![Prim(p)] = "unlist", ![Sec(p)] = "off"]
  /\ UNCHANGED <<procvars, lock, listvars, call, left, owed, told>>

(* Broken: the main processor is not told.                                 *)
Unlist_silent(p) ==
  /\ pc[Prim(p)] = "unlist"
  /\ listLock = Null
  /\ listed' = listed \ {p}
  /\ Goto(Prim(p), "free")
  /\ owed' = owed \ {p}
  /\ told' = told \ {p}
  /\ UNCHANGED <<procvars, lock, listLock, alive, call, left>>

(* The processor leaves the list.                                          *)
Unlist(p) ==
  /\ pc[Prim(p)] = "unlist"
  /\ listLock = Null
  /\ listed' = listed \ {p}
  /\ pc' = [t \in DOMAIN pc |-> IF t = Prim(p) THEN "free"
                                ELSE IF pc[t] = "exitWait" THEN "wait" ELSE pc[t]]
  /\ owed' = owed \ {p}
  /\ told' = told \ {p}
  /\ UNCHANGED <<procvars, lock, listLock, alive, call, left>>

(* The mutexes and conditions are destroyed.                               *)
Free(p) ==
  /\ pc[Prim(p)] = "free"
  /\ alive' = alive \ {p}
  /\ Goto(Prim(p), IF p = Main THEN "destroy" ELSE "off")
  /\ UNCHANGED <<procvars, lock, listed, listLock, call, left, owed, told>>

(* chiRuntimeDestroy: chiTimerRemove waits for the dispatcher.             *)
RuntimeDestroy ==
  /\ pc[Prim(Main)] = "destroy"
  /\ pc[Dispatcher] = "idle"
  /\ Goto(Prim(Main), "gone")
  /\ UNCHANGED <<procvars, lock, listvars, call, left, owed, told>>

(* The process has ended.                                                  *)
Gone == pc[Prim(Main)] = "gone" /\ UNCHANGED vars

-----------------------------------------------------------------------------
Run(p) ==
  \/ GrowHeap(p) \/ Suspend(p) \/ ProtectBegin(p) \/ Exit(p) \/ Stop(p)
  \/ \E q \in Proc : TryStart(p, q) \/ Notify(p, q)

(* What the code goes through once it has begun, without outside help.     *)
Proceed(p) ==
  \/ Request(Prim(p)) \/ Serve(p, Prim(p))
  \/ Grow(p) \/ Restore(p) \/ GrowStack(p) \/ StackOverflow(p) \/ Check(p) \/ Resume(p)
  \/ LookLimit(p) \/ WriteLimit(p, "zero") \/ WriteLimit(p, "fill")
  \/ Park(p) \/ Deactivate(p) \/ ProtectEnd(p)
  \/ InitProcessor(p) \/ ExitProcessor(p) \/ StopSecondary(p) \/ Join(p) \/ Unlist(p) \/ Free(p)

Secondary(p) ==
  \/ SecondaryTop(p) \/ SecondaryEnter(p) \/ SecondaryLeave(p) \/ HandBack(p)
  \/ Serve(p, Sec(p))

Next ==
  \/ \E k \in Kind : Dispatch(k)
  \/ Request(Dispatcher)
  \/ \E p \in Proc : \/ Run(p) \/ Yield(p) \/ ForeignReturn(p) \/ ParkTimeout(p)
                      \/ Proceed(p) \/ Secondary(p) \/ Spurious(p)
  \/ WaitProcessors
  \/ RuntimeDestroy
  \/ Gone

Spec == Init /\ [][Next]_vars

(* Compiled code comes to a safe point again and again, whatever it does   *)
(* in between, and not every one of them exhausts the nursery, which has   *)
(* then a new block, or the stack, which is then unwound; mutexes are held *)
(* for a bounded time.  Nothing is assumed of foreign functions, of the    *)
(* time of a suspension, nor of those who ask.                             *)
Fairness ==
  /\ WF_vars(Request(Dispatcher)) /\ WF_vars(WaitProcessors) /\ WF_vars(RuntimeDestroy)
  /\ \A p \in Proc : /\ WF_vars(Proceed(p)) /\ WF_vars(Secondary(p))
                     /\ SF_vars(~hl[p] /\ Yield(p) /\ pc'[Prim(p)] = "stack")
                     /\ SF_vars(GrowStack(p))

FairSpec == Spec /\ Fairness

-----------------------------------------------------------------------------
ProcPC == {"off", "init", "starting", "run", "request", "interrupt", "limit", "wake", "next",
           "grow", "regrow", "rearmGrow", "stack", "check", "look", "zero", "fill",
           "restore", "rearmService", "resume", "protectEnd", "protected", "rearmProtect"} \cup Service \cup Away \cup Stopping
SecPC  == {"off", "top", "secWait", "enter", "leave", "handBack", "done"} \cup Service
Kinds  == {"NONE", "TIMER", "USER", "DUMP", "HANDSHAKE", "SCAVENGE", "NOTIFY", "EXIT"}

(* Every variable has its type.                                            *)
TypeOK ==
  /\ pc \in [Thread \cup {Dispatcher} -> ProcPC \cup SecPC \cup {"idle"}]
  /\ \A p \in Proc : pc[Prim(p)] \in ProcPC /\ pc[Sec(p)] \in SecPC
  /\ pc[Dispatcher] \in {"idle", "request", "interrupt", "limit", "wake", "next"}
  /\ status \in [Proc -> {"INACTIVE", "ACTIVE", "RUN", "STOP"}]
  /\ lock \in [Proc -> Caller \cup {Null}]
  /\ worker \in [Proc -> {"primary", "secondary"}]
  /\ interrupt \in [Proc -> BOOLEAN]
  /\ hl \in [Proc -> BOOLEAN]
  /\ trig \in [Proc -> SUBSET {"EXIT", "USER", "NOTIFY", "TIMER", "DUMP"}]
  /\ timeout \in [Proc -> BOOLEAN]
  /\ listed \subseteq Proc
  /\ listLock \in Caller \cup {Null}
  /\ alive \subseteq Proc
  /\ call \in [Caller -> [kind : Kinds, to : Proc \cup Caller \cup {Null}, rest : SUBSET Proc,
                          then : {"idle", "run", "regrow", "look", "exit", "exitWait"}]]
  /\ left \in 0 .. MaxRequest
  /\ owed \subseteq Proc
  /\ told \subseteq Proc

(* The secondary worker serves requests only while the primary one is in   *)
(* protected code, or waits to come back from it: secondaryActivate and    *)
(* secondaryDeactivate of processor.c keep them apart.                     *)
Serving(p) == pc[Sec(p)] \in Service \cup {"enter", "leave"}
OneWorker == \A p \in Proc : Serving(p) => pc[Prim(p)] \in Away

(* The assertions of secondaryActivate, secondaryDeactivate, secondaryStop *)
(* on the status, whatever the order in which the workers come.            *)
StatusAsserted ==
  \A p \in Proc :
    /\ pc[Prim(p)] \in {"run", "stopSecondary"} => status[p] = "INACTIVE"
    /\ pc[Prim(p)] \in {"deactivate", "deactivateWait"} => status[p] \in {"ACTIVE", "RUN"}

(* Where the primary worker comes to compiled code without a further look  *)
(* at the interrupt,                                                       *)
Armed == {"run", "starting", "restore", "resume", "protectEnd", "protected"} \cup Away
Blind(p) ==
  \/ pc[Prim(p)] \in Armed
  \/ pc[Prim(p)] \in {"request", "interrupt", "limit", "wake", "next"} /\ call[Prim(p)].then = "run"

(* and does so with a handshake to answer, but the limit in place.         *)
Forgotten(p) == p \in owed /\ hl[p] /\ Blind(p)

(* A handshake that was asked for holds compiled code up at its next safe  *)
(* point, though chiYield, RESTORE_HEAP_REGS and chiGrowHeap write the     *)
(* limit register the request has zeroed.  Two steps alone forget it until *)
(* the next request: the exception of chiYield for a stack that cannot     *)
(* grow, and the write of chiGrowHeap after it has seen no interrupt.      *)
NoLostInterrupt ==
  [][\A p \in Proc :
       Forgotten(p)' => Forgotten(p) \/ StackOverflow(p) \/ WriteLimit(p, "fill")]_vars

(* So this does not hold: no handshake is ever forgotten.                  *)
NeverForgotten == \A p \in Proc : ~Forgotten(p)

(* The secondary worker does not sleep on a request while it stands in,    *)
(* unless the one who asks is just about to wake it.                       *)
NoLostWakeup ==
  \A p \in Proc :
    interrupt[p] /\ status[p] = "ACTIVE" /\ pc[Sec(p)] = "secWait" =>
      \E c \in Caller : call[c].to = p /\ pc[c] \in {"limit", "wake"}

(* A processor told to wake after chiProcessorSuspend does not fall asleep *)
(* in chiProcessorPark, even if it was told before it came there.          *)
NotAsleep == \A p \in told : pc[Prim(p)] # "parked"

(* A request that walks the processor list never uses the mutex of a       *)
(* processor that has destroyed it.                                        *)
RequestAlive ==
  \A c \in Caller :
    pc[c] \in {"request", "interrupt", "limit", "wake"} /\ call[c].kind # "NOTIFY" =>
      call[c].to \in alive

(* Every handshake is answered, even if a foreign function never returns,  *)
(* unless it is forgotten; and once the limit is zeroed again, by the next *)
(* tick, it is not forgotten any longer.                                   *)
HandshakeAnswered == \A p \in Proc : p \in owed ~> p \notin owed \/ Forgotten(p)

(* chiExit ends the program, provided that foreign functions return, the   *)
(* time of a suspension is over some day, and compiled code does not go on *)
(* for ever with an interrupt it has forgotten.  (A processor asked to     *)
(* exit between its last safe point and chiProcessorSuspend sleeps on.)    *)
ShutdownEnds ==
  (/\ \A p \in Proc : []<>(pc[Prim(p)] \notin {"foreign", "park", "parked"})
   /\ <>[](\A p \in Proc : ~(interrupt[p] /\ hl[p] /\ Blind(p)))) =>
    (pc[Prim(Main)] = "exit" \/ "EXIT" \in trig[Main] ~> pc[Prim(Main)] = "gone")

(* The workers keep the promise of Custody.                                *)
Holder(p) ==
  (IF pc[Prim(p)] \in Away \cup {"off", "init"} THEN {} ELSE {"primary"})
    \cup (IF Serving(p) THEN {"secondary"} ELSE {})
Custodian == INSTANCE Custody WITH holder <- [p \in Proc |-> Holder(p)], asked <- owed
ImplementsCustody == Custodian!Spec

=============================================================================
