--------------------------- MODULE ProcessorProofs ---------------------------
(***************************************************************************)
(* The two workers of a processor never serve it together, for any set of  *)
(* processors that start, exit and ask each other: CustodyInv is inductive *)
(* (together with TypeOK), it implies OneWorker and StatusAsserted, and    *)
(* with it every step of Processor is a step or a stutter of Custody.  The *)
(* second half is about requests, of which none is lost.                   *)
(***************************************************************************)
EXTENDS Processor, TLAPS

(* Where a thread is that makes a request.                                 *)
Asking == {"request", "interrupt", "limit", "wake", "next"}
(* Where the secondary worker stands in, or has not yet handed back.       *)
Busy == Service \cup {"enter", "leave", "handBack"}
(* Where the secondary worker has been told to stop.                       *)
Late == {"join", "unlist", "free", "destroy", "gone", "off"}

(* The status says which worker has the processor; field worker says it    *)
(* while the secondary one is in the service routine.                      *)
ToldOf(p) ==
  /\ status[p] \in {"ACTIVE", "RUN"} <=> pc[Prim(p)] \in Away
  /\ status[p] = "STOP" => pc[Prim(p)] \in Late
  /\ pc[Sec(p)] \in Busy => status[p] = "RUN"
  /\ pc[Sec(p)] \in Service \cup {"leave"} => worker[p] = "secondary"

Told == \A p \in Proc : ToldOf(p)

(* A request is for processors, and leads back to where its thread was.    *)
Sound(r, c) == r.to \in Proc /\ r.kind # "NONE" /\ (r.then = "idle" <=> c = Dispatcher)

Calls ==
  \A c \in Caller :
    pc[c] \in Asking => Sound(call[c], c)

(* Whoever starts a processor waits for that one alone.                    *)
Starters ==
  \A p \in Proc : pc[Prim(p)] = "init" =>
    /\ \E q \in Proc : call[Prim(p)].to = Prim(q) /\ pc[Prim(q)] = "starting"
    /\ \A q \in Proc : pc[Prim(q)] = "init" /\ call[Prim(p)].to = call[Prim(q)].to => p = q

CustodyInv == Told /\ Calls /\ Starters

-----------------------------------------------------------------------------
(* Threads and their places.                                               *)

(* Workers and the dispatcher are different threads.                       *)
LEMMA Names ==
  /\ \A p \in Proc : Prim(p) \in Thread /\ Sec(p) \in Thread /\ Prim(p) \in Caller
  /\ \A p, q \in Proc : Prim(p) # Sec(q)
  /\ \A p, q \in Proc : Prim(p) = Prim(q) \/ Sec(p) = Sec(q) => p = q
  /\ \A p \in Proc : Prim(p) # Dispatcher /\ Sec(p) # Dispatcher
  /\ \A t \in Thread : \E p \in Proc : t = Prim(p) \/ t = Sec(p)
  /\ \A c \in Caller : c = Dispatcher \/ \E p \in Proc : c = Prim(p)
  /\ Dispatcher \in Caller /\ Caller \subseteq Thread \cup {Dispatcher}
  BY DispatcherAssumption DEF Prim, Sec, Thread, Caller

DispatcherPC == {"idle", "request", "interrupt", "limit", "wake", "next"}

(* The type of pc.                                                         *)
Places(f) ==
  /\ f \in [Thread \cup {Dispatcher} -> ProcPC \cup SecPC \cup {"idle"}]
  /\ \A p \in Proc : f[Prim(p)] \in ProcPC /\ f[Sec(p)] \in SecPC
  /\ f[Dispatcher] \in DispatcherPC

(* Some of the places.                                                     *)
LEMMA PlaceNames ==
  /\ Away \cup Late \cup Asking \cup Service \cup Stopping \subseteq ProcPC
  /\ Service \cup Busy \cup {"top", "secWait", "done", "off"} \subseteq SecPC
  /\ DispatcherPC = Asking \cup {"idle"}
  BY DEF Away, Late, Asking, Service, Stopping, ProcPC, SecPC, Busy, DispatcherPC

(* A thread moves.                                                         *)
LEMMA PrimMoves ==
  ASSUME NEW f, Places(f), NEW p \in Proc, NEW l \in ProcPC, NEW g, g = [f EXCEPT ![Prim(p)] = l]
  PROVE  /\ Places(g) /\ g[Prim(p)] = l /\ g[Dispatcher] = f[Dispatcher]
         /\ \A q \in Proc : g[Sec(q)] = f[Sec(q)] /\ (q # p => g[Prim(q)] = f[Prim(q)])
  BY Names DEF Places

(* A secondary worker moves.                                               *)
LEMMA SecMoves ==
  ASSUME NEW f, Places(f), NEW p \in Proc, NEW l \in SecPC, NEW g, g = [f EXCEPT ![Sec(p)] = l]
  PROVE  /\ Places(g) /\ g[Sec(p)] = l /\ g[Dispatcher] = f[Dispatcher]
         /\ \A q \in Proc : g[Prim(q)] = f[Prim(q)] /\ (q # p => g[Sec(q)] = f[Sec(q)])
  BY Names DEF Places

(* The dispatcher moves.                                                   *)
LEMMA DispatcherMoves ==
  ASSUME NEW f, Places(f), NEW l \in DispatcherPC, NEW g, g = [f EXCEPT ![Dispatcher] = l]
  PROVE  /\ Places(g) /\ g[Dispatcher] = l
         /\ \A q \in Proc : g[Prim(q)] = f[Prim(q)] /\ g[Sec(q)] = f[Sec(q)]
  <1>1. l \in ProcPC \cup {"idle"}
    BY PlaceNames
  <1>. QED
    BY <1>1, Names DEF Places

(* A signal wakes at most a worker that waits; the mover moves as it       *)
(* meant to.                                                               *)
LEMMA SignalMoves ==
  ASSUME Places(pc), NEW p \in Proc, NEW f, Places(f), Signal(p, f)
  PROVE  /\ Places(pc') /\ pc'[Dispatcher] = f[Dispatcher]
         /\ \A q \in Proc : /\ pc'[Prim(q)] = f[Prim(q)] \/ (pc[Prim(q)] = "deactivateWait" /\ pc'[Prim(q)] = "deactivate")
                            /\ pc'[Sec(q)] = f[Sec(q)] \/ (pc[Sec(q)] = "secWait" /\ pc'[Sec(q)] = "top")
  <1>1. CASE pc' = f
    BY <1>1
  <1>2. CASE \E t \in Waiting(p) : pc' = [f EXCEPT ![t] = Awake(pc[t])]
    <2>1. PICK t \in Waiting(p) : pc' = [f EXCEPT ![t] = Awake(pc[t])]
      BY <1>2
    <2>2. CASE t = Prim(p)
      <3>1. pc[t] = "deactivateWait"
        BY <2>2, Names DEF Waiting, Places, ProcPC, Service, Away, Stopping
      <3>2. Awake(pc[t]) = "deactivate" /\ "deactivate" \in ProcPC
        BY <3>1, PlaceNames DEF Awake, Away
      <3>3. pc' = [f EXCEPT ![Prim(p)] = "deactivate"] /\ pc[Prim(p)] = "deactivateWait"
        BY <2>1, <2>2, <3>1, <3>2
      <3>4. "deactivate" \in ProcPC
        BY <3>2
      <3>5. Places(pc')
        BY <3>3, <3>4, PrimMoves
      <3>6. pc'[Dispatcher] = f[Dispatcher]
        BY <3>3, <3>4, PrimMoves
      <3>7. \A q \in Proc : pc'[Sec(q)] = f[Sec(q)] /\ (q # p => pc'[Prim(q)] = f[Prim(q)])
        BY <3>3, <3>4, PrimMoves
      <3>8. pc'[Prim(p)] = "deactivate"
        BY <3>3, Names DEF Places
      <3>. QED
        BY <3>3, <3>5, <3>6, <3>7, <3>8
    <2>3. CASE t = Sec(p)
      <3>1. pc[t] = "secWait"
        BY <2>1, <2>3, Names DEF Waiting, Places, SecPC, Service
      <3>2. Awake(pc[t]) = "top" /\ "top" \in SecPC
        BY <3>1, PlaceNames DEF Awake
      <3>3. pc' = [f EXCEPT ![Sec(p)] = "top"] /\ pc[Sec(p)] = "secWait"
        BY <2>1, <2>3, <3>1, <3>2
      <3>4. "top" \in SecPC
        BY <3>2
      <3>5. Places(pc')
        BY <3>3, <3>4, SecMoves
      <3>6. pc'[Dispatcher] = f[Dispatcher]
        BY <3>3, <3>4, SecMoves
      <3>7. \A q \in Proc : pc'[Prim(q)] = f[Prim(q)] /\ (q # p => pc'[Sec(q)] = f[Sec(q)])
        BY <3>3, <3>4, SecMoves
      <3>8. pc'[Sec(p)] = "top"
        BY <3>3, Names DEF Places
      <3>. QED
        BY <3>3, <3>5, <3>6, <3>7, <3>8
    <2>. QED
      BY <2>1, <2>2, <2>3 DEF Waiting
  <1>. QED
    BY <1>1, <1>2 DEF Signal

(* A thread goes to another place, and no other thread moves.              *)
LEMMA PrimGoes ==
  ASSUME Places(pc), NEW p \in Proc, NEW l \in ProcPC, Goto(Prim(p), l)
  PROVE  /\ Places(pc)' /\ pc'[Prim(p)] = l /\ pc'[Dispatcher] = pc[Dispatcher]
         /\ \A q \in Proc : pc'[Sec(q)] = pc[Sec(q)] /\ (q # p => pc'[Prim(q)] = pc[Prim(q)])
  <1>1. pc' = [pc EXCEPT ![Prim(p)] = l]
    BY DEF Goto
  <1>2. pc'[Prim(p)] = l
    BY <1>1, Names DEF Places
  <1>3. Places(pc')
    BY <1>1, PrimMoves
  <1>4. pc'[Dispatcher] = pc[Dispatcher]
    BY <1>1, PrimMoves
  <1>5. \A q \in Proc : pc'[Sec(q)] = pc[Sec(q)] /\ (q # p => pc'[Prim(q)] = pc[Prim(q)])
    BY <1>1, PrimMoves
  <1>. QED
    BY <1>2, <1>3, <1>4, <1>5

(* The same for a secondary worker,                                        *)
LEMMA SecGoes ==
  ASSUME Places(pc), NEW p \in Proc, NEW l \in SecPC, Goto(Sec(p), l)
  PROVE  /\ Places(pc)' /\ pc'[Sec(p)] = l /\ pc'[Dispatcher] = pc[Dispatcher]
         /\ \A q \in Proc : pc'[Prim(q)] = pc[Prim(q)] /\ (q # p => pc'[Sec(q)] = pc[Sec(q)])
  <1>1. pc' = [pc EXCEPT ![Sec(p)] = l]
    BY DEF Goto
  <1>2. pc'[Sec(p)] = l
    BY <1>1, Names DEF Places
  <1>3. Places(pc')
    BY <1>1, SecMoves
  <1>4. pc'[Dispatcher] = pc[Dispatcher]
    BY <1>1, SecMoves
  <1>5. \A q \in Proc : pc'[Prim(q)] = pc[Prim(q)] /\ (q # p => pc'[Sec(q)] = pc[Sec(q)])
    BY <1>1, SecMoves
  <1>. QED
    BY <1>2, <1>3, <1>4, <1>5

(* and for the dispatcher.                                                 *)
LEMMA DispatcherGoes ==
  ASSUME Places(pc), NEW l \in DispatcherPC, Goto(Dispatcher, l)
  PROVE  /\ Places(pc)' /\ pc'[Dispatcher] = l
         /\ \A q \in Proc : pc'[Prim(q)] = pc[Prim(q)] /\ pc'[Sec(q)] = pc[Sec(q)]
  <1>1. pc' = [pc EXCEPT ![Dispatcher] = l]
    BY DEF Goto
  <1>2. pc'[Dispatcher] = l
    BY <1>1 DEF Places
  <1>3. Places(pc')
    BY <1>1, DispatcherMoves
  <1>4. \A q \in Proc : pc'[Prim(q)] = pc[Prim(q)] /\ pc'[Sec(q)] = pc[Sec(q)]
    BY <1>1, DispatcherMoves
  <1>. QED
    BY <1>2, <1>3, <1>4

-----------------------------------------------------------------------------
(* Steps that hand nothing over: workers change their places, but not      *)
(* between those CustodyInv or Custody tell apart.                         *)
(* Places that CustodyInv or Custody tell apart.                           *)
Custodial == Away \cup Late \cup {"init", "starting"}

QuietPrim(p) ==
  \/ pc'[Prim(p)] = pc[Prim(p)]
  \/ pc[Prim(p)] \in Away /\ pc'[Prim(p)] \in Away
  \/ pc[Prim(p)] \in Late \ {"off"} /\ pc'[Prim(p)] \in Late \ {"off"}
  \/ pc[Prim(p)] \notin Custodial /\ pc'[Prim(p)] \notin Custodial

QuietSec(p) ==
  \/ pc'[Sec(p)] = pc[Sec(p)]
  \/ pc[Sec(p)] \in Service /\ pc'[Sec(p)] \in Service \cup {"leave"}
  \/ pc[Sec(p)] \notin Busy \ {"handBack"} /\ pc'[Sec(p)] \notin Busy

Quiet ==
  /\ UNCHANGED <<status, worker>>
  /\ \A p \in Proc : QuietPrim(p) /\ QuietSec(p)

(* Requests are made for processors only.                                  *)
CallStep ==
  \A c \in Caller :
    pc'[c] \in Asking =>
      \/ pc[c] \in Asking /\ call'[c] = call[c]
      \/ Sound(call'[c], c)

(* The starter of a processor stays the same.                              *)
StarterStep ==
  \A p \in Proc : pc[Prim(p)] = "init" => call'[Prim(p)] = call[Prim(p)]

(* Requests stay sound.                                                    *)
LEMMA CallsKept ==
  ASSUME Calls, CallStep
  PROVE  Calls'
  BY DEF Calls, CallStep

(* A quiet processor keeps what the status says of it.                     *)
LEMMA ToldOfKept ==
  ASSUME NEW p \in Proc, ToldOf(p), QuietPrim(p), QuietSec(p),
         status'[p] = status[p], worker'[p] = worker[p]
  PROVE  ToldOf(p)'
  <1>. SUFFICES /\ status'[p] \in {"ACTIVE", "RUN"} <=> pc'[Prim(p)] \in Away
                /\ status'[p] = "STOP" => pc'[Prim(p)] \in Late
                /\ pc'[Sec(p)] \in Busy => status'[p] = "RUN"
                /\ pc'[Sec(p)] \in Service \cup {"leave"} => worker'[p] = "secondary"
    BY DEF ToldOf
  <1>1. Away \cap Late = {}
    BY DEF Away, Late
  <1>2. Service \cup {"leave"} \subseteq Busy \ {"handBack"}
    BY DEF Service, Busy
  <1>. QED
    BY <1>1, <1>2 DEF ToldOf, QuietPrim, QuietSec, Custodial

(* So do all processors in a quiet step.                                   *)
LEMMA ToldKept ==
  ASSUME Told, Quiet
  PROVE  Told'
  BY ToldOfKept DEF Told, Quiet

(* No processor begins to start, and no starter moves on.                  *)
StartersStay ==
  \A p \in Proc :
    /\ pc'[Prim(p)] = "init" => pc[Prim(p)] = "init" /\ call'[Prim(p)] = call[Prim(p)]
    /\ pc[Prim(p)] = "starting" => pc'[Prim(p)] = "starting"

(* Where starters stay, every new processor keeps its own.                 *)
LEMMA StartersKept ==
  ASSUME Starters, StartersStay
  PROVE  Starters'
  BY DEF Starters, StartersStay

(* Quiet steps leave the starters where they are.                          *)
LEMMA QuietStarters ==
  ASSUME \A p \in Proc : QuietPrim(p), StarterStep
  PROVE  StartersStay
  <1>1. {"init", "starting"} \cap (Away \cup Late) = {}
    BY DEF Away, Late
  <1>2. \A p \in Proc : /\ pc'[Prim(p)] = "init" <=> pc[Prim(p)] = "init"
                        /\ pc'[Prim(p)] = "starting" <=> pc[Prim(p)] = "starting"
    BY <1>1 DEF QuietPrim, Custodial
  <1>. QED
    BY <1>2 DEF StartersStay, StarterStep

(* What Custody sees of a step: a step of its own, or nothing.             *)
CustodyStep == [Custodian!Next]_(Custodian!vars)

(* A quiet processor stays in the same hands.                              *)
LEMMA HolderOfKept ==
  ASSUME NEW p \in Proc, QuietPrim(p), QuietSec(p)
  PROVE  Holder(p)' = Holder(p)
  <1>1. Away \cap Late = {} /\ {"off", "init", "starting"} \cap Away = {} /\ "off" \in Late
    BY DEF Away, Late
  <1>2. pc'[Prim(p)] \in Away \cup {"off", "init"} <=> pc[Prim(p)] \in Away \cup {"off", "init"}
    BY <1>1 DEF QuietPrim, Custodial, Late
  <1>3. pc'[Sec(p)] \in Service \cup {"enter", "leave"} <=> pc[Sec(p)] \in Service \cup {"enter", "leave"}
    BY DEF QuietSec, Busy, Service
  <1>. QED
    BY <1>2, <1>3 DEF Holder, Serving

(* So do all of them in a quiet step.                                      *)
LEMMA HolderKept ==
  ASSUME \A p \in Proc : QuietPrim(p) /\ QuietSec(p)
  PROVE  [p \in Proc |-> Holder(p)]' = [p \in Proc |-> Holder(p)]
  <1>1. \A p \in Proc : Holder(p)' = Holder(p)
    BY HolderOfKept
  <1>. QED
    BY <1>1

(* Custody does not see a quiet step.                                      *)
LEMMA Stutters ==
  ASSUME \A p \in Proc : QuietPrim(p) /\ QuietSec(p), owed' = owed
  PROVE  CustodyStep
  BY HolderKept DEF CustodyStep, Custodian!vars

(* A quiet step keeps the invariant.                                       *)
LEMMA QuietStep ==
  ASSUME CustodyInv, Quiet, CallStep, StarterStep
  PROVE  CustodyInv'
  BY CallsKept, ToldKept, StartersKept, QuietStarters DEF CustodyInv, Quiet

-----------------------------------------------------------------------------
(* What a thread remembers of its request.                                 *)
CallRecords == [kind : Kinds, to : Proc \cup Caller \cup {Null}, rest : SUBSET Proc,
                then : {"idle", "run", "regrow", "look", "exit", "exitWait"}]

Types ==
  /\ status \in [Proc -> {"INACTIVE", "ACTIVE", "RUN", "STOP"}]
  /\ lock \in [Proc -> Caller \cup {Null}]
  /\ worker \in [Proc -> {"primary", "secondary"}]
  /\ interrupt \in [Proc -> BOOLEAN]
  /\ hl \in [Proc -> BOOLEAN]
  /\ trig \in [Proc -> SUBSET {"EXIT", "USER", "NOTIFY", "TIMER", "DUMP"}]
  /\ timeout \in [Proc -> BOOLEAN]
  /\ listed \subseteq Proc
  /\ listLock \in Caller \cup {Null}
  /\ alive \subseteq Proc
  /\ call \in [Caller -> CallRecords]
  /\ left \in 0 .. MaxRequest
  /\ owed \subseteq Proc
  /\ told \subseteq Proc

(* TypeOK in two parts,                                                    *)
LEMMA TypeParts == TypeOK <=> Places(pc) /\ Types
  BY DEF TypeOK, Places, Types, DispatcherPC, CallRecords

(* also after a step.                                                      *)
LEMMA TypePartsNext == TypeOK' <=> Places(pc)' /\ Types'
  BY TypeParts, PTL

(* Before a step of Processor, and what is shown of the step.              *)
Before == TypeOK /\ CustodyInv
Kept == TypeOK' /\ CustodyInv' /\ CustodyStep

(* The primary worker moves by itself; nothing is handed over.             *)
LEMMA LocalStep ==
  ASSUME Before, NEW p \in Proc, NEW l \in ProcPC \ Asking, Goto(Prim(p), l),
         \/ pc[Prim(p)] \in Away /\ l \in Away
         \/ pc[Prim(p)] \in Late \ {"off"} /\ l \in Late \ {"off"}
         \/ pc[Prim(p)] \notin Custodial /\ l \notin Custodial,
         UNCHANGED <<status, worker, call>>
  PROVE  /\ Places(pc)' /\ CustodyInv'
         /\ \A q \in Proc : QuietPrim(q) /\ QuietSec(q)
         /\ owed' = owed => CustodyStep
  <1>1. Places(pc) /\ l \in ProcPC
    BY TypeParts DEF Before
  <1>2. /\ Places(pc)' /\ pc'[Prim(p)] = l /\ pc'[Dispatcher] = pc[Dispatcher]
        /\ \A q \in Proc : pc'[Sec(q)] = pc[Sec(q)] /\ (q # p => pc'[Prim(q)] = pc[Prim(q)])
    BY <1>1, PrimGoes
  <1>3. \A q \in Proc : QuietPrim(q) /\ QuietSec(q)
    BY <1>2 DEF QuietPrim, QuietSec
  <1>4. CallStep
    BY <1>2, Names DEF CallStep
  <1>5. CustodyInv'
    BY <1>3, <1>4, QuietStep DEF Before, Quiet, StarterStep
  <1>. QED
    BY <1>2, <1>3, <1>5, Stutters

(* The secondary worker moves by itself.                                   *)
LEMMA SecStep ==
  ASSUME Before, NEW p \in Proc, NEW l \in SecPC, Goto(Sec(p), l),
         \/ pc[Sec(p)] \in Service /\ l \in Service \cup {"leave"}
         \/ pc[Sec(p)] \notin Busy \ {"handBack"} /\ l \notin Busy,
         UNCHANGED <<status, worker, call>>
  PROVE  /\ Places(pc)' /\ CustodyInv'
         /\ \A q \in Proc : QuietPrim(q) /\ QuietSec(q)
         /\ owed' = owed => CustodyStep
  <1>1. Places(pc)
    BY TypeParts DEF Before
  <1>2. /\ Places(pc)' /\ pc'[Sec(p)] = l /\ pc'[Dispatcher] = pc[Dispatcher]
        /\ \A q \in Proc : pc'[Prim(q)] = pc[Prim(q)] /\ (q # p => pc'[Sec(q)] = pc[Sec(q)])
    BY <1>1, SecGoes
  <1>3. \A q \in Proc : QuietPrim(q) /\ QuietSec(q)
    BY <1>2 DEF QuietPrim, QuietSec
  <1>4. CallStep
    BY <1>2, Names DEF CallStep
  <1>5. CustodyInv'
    BY <1>3, <1>4, QuietStep DEF Before, Quiet, StarterStep
  <1>. QED
    BY <1>2, <1>3, <1>5, Stutters

(* The service routine, by the primary worker ...                          *)
LEMMA PrimServes ==
  ASSUME Before, NEW p \in Proc, Serve(p, Prim(p))
  PROVE  Kept
  <1>. Places(pc) /\ Types
    BY TypeParts DEF Before
  <1>1. CASE ServiceLoop(p, Prim(p))
    <2>1. PICK l \in {"clear", "restore"} : Goto(Prim(p), l)
      BY <1>1, Names DEF ServiceLoop
    <2>2. l \in ProcPC \ Asking /\ l \notin Custodial /\ pc[Prim(p)] \notin Custodial
      BY <1>1 DEF ServiceLoop, ProcPC, Service, Asking, Custodial, Away, Late
    <2>3. Types' /\ UNCHANGED <<status, worker, call, owed>>
      BY <1>1 DEF ServiceLoop, Types, procvars, listvars
    <2>. QED
      BY <2>1, <2>2, <2>3, LocalStep, TypePartsNext DEF Kept
  <1>2. CASE ServiceClear(p, Prim(p))
    <2>1. Goto(Prim(p), "slice")
      BY <1>2, Names DEF ServiceClear
    <2>2. "slice" \in ProcPC \ Asking /\ "slice" \notin Custodial /\ pc[Prim(p)] \notin Custodial
      BY <1>2 DEF ServiceClear, ProcPC, Service, Asking, Custodial, Away, Late
    <2>3. Types' /\ UNCHANGED <<status, worker, call, owed>>
      BY <1>2 DEF ServiceClear, Types, procvars, listvars
    <2>. QED
      BY <2>1, <2>2, <2>3, LocalStep, TypePartsNext DEF Kept
  <1>3. CASE ServiceSlice(p, Prim(p))
    <2>1. Goto(Prim(p), "serviced")
      BY <1>3 DEF ServiceSlice
    <2>2. "serviced" \in ProcPC \ Asking /\ "serviced" \notin Custodial /\ pc[Prim(p)] \notin Custodial
      BY <1>3 DEF ServiceSlice, ProcPC, Service, Asking, Custodial, Away, Late
    <2>3. Types' /\ UNCHANGED <<status, worker, call>>
      BY <1>3 DEF ServiceSlice, Types, listvars
    <2>4. Custodian!Answer(p)
      <3>1. Holder(p) # {}
        BY <1>3 DEF ServiceSlice, Holder, Away
      <3>2. owed' = owed \ {p}
        BY <1>3 DEF ServiceSlice
      <3>3. [q \in Proc |-> Holder(q)]' = [q \in Proc |-> Holder(q)]
        BY <2>1, <2>2, <2>3, LocalStep, HolderKept
      <3>. QED
        BY <3>1, <3>2, <3>3 DEF Custodian!Answer
    <2>. QED
      BY <2>1, <2>2, <2>3, <2>4, LocalStep, TypePartsNext DEF Kept, CustodyStep, Custodian!Next
  <1>4. CASE ServiceExit(p, Prim(p))
    <2>1. PICK l \in {"exit", "loop"} : Goto(Prim(p), l)
      BY <1>4, Names DEF ServiceExit
    <2>2. l \in ProcPC \ Asking /\ l \notin Custodial /\ pc[Prim(p)] \notin Custodial
      BY <1>4 DEF ServiceExit, ProcPC, Service, Asking, Custodial, Away, Late, Stopping
    <2>3. Types' /\ UNCHANGED <<status, worker, call, owed>>
      BY <1>4 DEF ServiceExit, Types, procvars, listvars
    <2>. QED
      BY <2>1, <2>2, <2>3, LocalStep, TypePartsNext DEF Kept
  <1>. QED
    BY <1>1, <1>2, <1>3, <1>4 DEF Serve

(* ... and by the secondary one, which never ends the processor.           *)
LEMMA SecServes ==
  ASSUME Before, NEW p \in Proc, Serve(p, Sec(p))
  PROVE  Kept
  <1>. Places(pc) /\ Types
    BY TypeParts DEF Before
  <1>1. CASE ServiceLoop(p, Sec(p))
    <2>1. PICK l \in {"clear", "leave"} : Goto(Sec(p), l)
      BY <1>1, Names DEF ServiceLoop
    <2>2. l \in SecPC /\ pc[Sec(p)] \in Service /\ l \in Service \cup {"leave"}
      BY <1>1 DEF ServiceLoop, SecPC, Service
    <2>3. Types' /\ UNCHANGED <<status, worker, call, owed>>
      BY <1>1 DEF ServiceLoop, Types, procvars, listvars
    <2>. QED
      BY <2>1, <2>2, <2>3, SecStep, TypePartsNext DEF Kept
  <1>2. CASE ServiceClear(p, Sec(p))
    <2>1. Goto(Sec(p), "slice")
      BY <1>2, Names DEF ServiceClear
    <2>2. "slice" \in SecPC /\ pc[Sec(p)] \in Service /\ "slice" \in Service \cup {"leave"}
      BY <1>2 DEF ServiceClear, SecPC, Service
    <2>3. Types' /\ UNCHANGED <<status, worker, call, owed>>
      BY <1>2 DEF ServiceClear, Types, procvars, listvars
    <2>. QED
      BY <2>1, <2>2, <2>3, SecStep, TypePartsNext DEF Kept
  <1>3. CASE ServiceSlice(p, Sec(p))
    <2>1. Goto(Sec(p), "serviced")
      BY <1>3 DEF ServiceSlice
    <2>2. "serviced" \in SecPC /\ pc[Sec(p)] \in Service /\ "serviced" \in Service \cup {"leave"}
      BY <1>3 DEF ServiceSlice, SecPC, Service
    <2>3. Types' /\ UNCHANGED <<status, worker, call>>
      BY <1>3 DEF ServiceSlice, Types, listvars
    <2>4. Custodian!Answer(p)
      <3>1. Holder(p) # {}
        BY <2>2 DEF Holder, Serving
      <3>2. owed' = owed \ {p}
        BY <1>3 DEF ServiceSlice
      <3>3. [q \in Proc |-> Holder(q)]' = [q \in Proc |-> Holder(q)]
        BY <2>1, <2>2, <2>3, SecStep, HolderKept
      <3>. QED
        BY <3>1, <3>2, <3>3 DEF Custodian!Answer
    <2>. QED
      BY <2>1, <2>2, <2>3, <2>4, SecStep, TypePartsNext DEF Kept, CustodyStep, Custodian!Next
  <1>4. CASE ServiceExit(p, Sec(p))
    <2>1. worker[p] = "secondary"
      BY <1>4 DEF ServiceExit, Before, CustodyInv, Told, ToldOf, Service
    <2>2. Goto(Sec(p), "loop")
      BY <1>4, <2>1 DEF ServiceExit
    <2>3. "loop" \in SecPC /\ pc[Sec(p)] \in Service /\ "loop" \in Service \cup {"leave"}
      BY <1>4 DEF ServiceExit, SecPC, Service
    <2>4. Types' /\ UNCHANGED <<status, worker, call, owed>>
      BY <1>4 DEF ServiceExit, Types, procvars, listvars
    <2>. QED
      BY <2>2, <2>3, <2>4, SecStep, TypePartsNext DEF Kept
  <1>. QED
    BY <1>1, <1>2, <1>3, <1>4 DEF Serve

-----------------------------------------------------------------------------
(* A thread that asks, or moves on with its request.                       *)
LEMMA CallerStep ==
  ASSUME Before, NEW c \in Caller, NEW l, Goto(c, l),
         c = Dispatcher => l \in DispatcherPC,
         c # Dispatcher => l \in ProcPC \ Custodial /\ pc[c] \notin Custodial,
         NEW r \in CallRecords, call' = [call EXCEPT ![c] = r],
         l \in Asking => Sound(r, c),
         UNCHANGED <<status, worker>>
  PROVE  /\ Places(pc)' /\ CustodyInv' /\ call' \in [Caller -> CallRecords]
         /\ \A q \in Proc : QuietPrim(q) /\ QuietSec(q)
         /\ owed' = owed => CustodyStep
  <1>1. Places(pc) /\ call \in [Caller -> CallRecords]
    BY TypeParts DEF Before, Types
  <1>2. /\ Places(pc)'
        /\ \A q \in Proc : QuietPrim(q) /\ QuietSec(q)
        /\ \A d \in Caller : d # c => pc'[d] = pc[d]
        /\ pc'[c] = l
    <2>1. CASE c = Dispatcher
      <3>1. /\ Places(pc)' /\ pc'[Dispatcher] = l
            /\ \A q \in Proc : pc'[Prim(q)] = pc[Prim(q)] /\ pc'[Sec(q)] = pc[Sec(q)]
        BY <1>1, <2>1, DispatcherGoes
      <3>. QED
        BY <2>1, <3>1, Names DEF QuietPrim, QuietSec
    <2>2. CASE c # Dispatcher
      <3>1. PICK p \in Proc : c = Prim(p)
        BY <2>2, Names
      <3>2. l \in ProcPC /\ l \notin Custodial /\ pc[Prim(p)] \notin Custodial /\ Goto(Prim(p), l)
        BY <2>2, <3>1
      <3>3. /\ Places(pc)' /\ pc'[Prim(p)] = l /\ pc'[Dispatcher] = pc[Dispatcher]
            /\ \A q \in Proc : pc'[Sec(q)] = pc[Sec(q)] /\ (q # p => pc'[Prim(q)] = pc[Prim(q)])
        BY <1>1, <3>2, PrimGoes
      <3>4. \A q \in Proc : QuietPrim(q) /\ QuietSec(q)
        BY <3>2, <3>3 DEF QuietPrim, QuietSec
      <3>5. \A d \in Caller : d # c => pc'[d] = pc[d]
        BY <3>1, <3>3, Names
      <3>. QED
        BY <3>1, <3>3, <3>4, <3>5
    <2>. QED
      BY <2>1, <2>2
  <1>3. call' \in [Caller -> CallRecords] /\ call'[c] = r /\ \A d \in Caller : d # c => call'[d] = call[d]
    BY <1>1
  <1>4. CallStep
    BY <1>2, <1>3 DEF CallStep
  <1>5. StarterStep
    <2>. SUFFICES ASSUME NEW p \in Proc, pc[Prim(p)] = "init"
                  PROVE  call'[Prim(p)] = call[Prim(p)]
      BY DEF StarterStep
    <2>1. Prim(p) \in Caller /\ Prim(p) # c
      BY Names DEF Custodial
    <2>. QED
      BY <1>3, <2>1
  <1>6. CustodyInv'
    BY <1>2, <1>4, <1>5, QuietStep DEF Before, Quiet
  <1>. QED
    BY <1>2, <1>3, <1>6, Stutters

(* The same where the request stays what it is.                            *)
LEMMA CallerGoes ==
  ASSUME Before, NEW c \in Caller, pc[c] \in Asking, NEW l \in Asking, Goto(c, l),
         UNCHANGED <<status, worker, call>>
  PROVE  /\ Places(pc)' /\ CustodyInv'
         /\ \A q \in Proc : QuietPrim(q) /\ QuietSec(q)
         /\ owed' = owed => CustodyStep
  <1>1. call[c] \in CallRecords /\ call' = [call EXCEPT ![c] = call[c]]
    BY TypeParts DEF Before, Types
  <1>2. Sound(call[c], c)
    BY DEF Before, CustodyInv, Calls
  <1>3. l \in DispatcherPC /\ l \in ProcPC /\ l \notin Custodial /\ pc[c] \notin Custodial
    BY PlaceNames DEF Asking, Custodial, Away, Late
  <1>. QED
    BY <1>1, <1>2, <1>3, CallerStep

(* Who wakes a processor moves on; the sleepers wake within Away.          *)
LEMMA WakeMoves ==
  ASSUME Before, NEW c \in Caller, RequestWake(c)
  PROVE  /\ Places(pc)'
         /\ \A q \in Proc : QuietPrim(q) /\ QuietSec(q)
         /\ \A d \in Caller : pc'[d] \in Asking => pc[d] \in Asking
  <1>. DEFINE q == call[c].to
              g == [pc EXCEPT ![c] = "next"]
              f == Rouse(c, g)
  <1>1. Places(pc) /\ pc[c] = "wake" /\ q \in Proc
    BY TypeParts DEF Before, RequestWake, CustodyInv, Calls, Sound, Asking
  <1>2. /\ Places(g) /\ g[c] = "next"
        /\ \A d \in Thread \cup {Dispatcher} : d # c => g[d] = pc[d]
    <2>1. "next" \in ProcPC /\ "next" \in DispatcherPC
      BY DEF ProcPC, DispatcherPC
    <2>2. Places(g)
      <3>1. CASE c = Dispatcher
        BY <1>1, <2>1, <3>1, DispatcherMoves
      <3>2. CASE c # Dispatcher
        <4>1. PICK p \in Proc : c = Prim(p)
          BY <3>2, Names
        <4>. QED
          BY <1>1, <2>1, <4>1, PrimMoves
      <3>. QED
        BY <3>1, <3>2
    <2>. QED
      BY <1>1, <2>2, Names DEF Places
  <1>3. /\ Places(f) /\ f[c] = "next" /\ f[Dispatcher] = g[Dispatcher]
        /\ \A p \in Proc : f[Sec(p)] = g[Sec(p)]
        /\ \A p \in Proc : f[Prim(p)] = g[Prim(p)] \/ (pc[Prim(p)] = "parked" /\ f[Prim(p)] = "park")
    <2>1. CASE f = g
      BY <1>2, <2>1
    <2>2. CASE pc[Prim(q)] = "parked" /\ f = [g EXCEPT ![Prim(q)] = "park"]
      <3>1. "park" \in ProcPC
        BY DEF ProcPC, Away
      <3>2. /\ Places(f) /\ f[Dispatcher] = g[Dispatcher]
            /\ \A p \in Proc : f[Sec(p)] = g[Sec(p)] /\ (p # q => f[Prim(p)] = g[Prim(p)])
        <4>. HIDE DEF f, g, q
        <4>1. q \in Proc /\ Places(g) /\ f = [g EXCEPT ![Prim(q)] = "park"]
          BY <1>1, <1>2, <2>2
        <4>2. Places(f)
          BY <3>1, <4>1, PrimMoves
        <4>3. f[Dispatcher] = g[Dispatcher]
          BY <3>1, <4>1, PrimMoves
        <4>4. \A p \in Proc : f[Sec(p)] = g[Sec(p)] /\ (p # q => f[Prim(p)] = g[Prim(p)])
          BY <3>1, <4>1, PrimMoves
        <4>. QED
          BY <4>2, <4>3, <4>4
      <3>3. f[Prim(q)] = "park" /\ Prim(q) # c
        <4>. HIDE DEF f, g
        <4>. QED
          BY <1>1, <1>2, <2>2, Names DEF Places
      <3>4. f[c] = "next"
        <4>. HIDE DEF f, g
        <4>. QED
          BY <1>1, <1>2, <2>2, <3>3, Names DEF Places
      <3>. QED
        BY <2>2, <3>2, <3>3, <3>4
    <2>. QED
      BY <2>1, <2>2 DEF Rouse
  <1>4. /\ Places(pc') /\ pc'[Dispatcher] = f[Dispatcher]
        /\ \A p \in Proc : /\ pc'[Prim(p)] = f[Prim(p)] \/ (pc[Prim(p)] = "deactivateWait" /\ pc'[Prim(p)] = "deactivate")
                           /\ pc'[Sec(p)] = f[Sec(p)] \/ (pc[Sec(p)] = "secWait" /\ pc'[Sec(p)] = "top")
    <2>1. Signal(q, f) \/ pc' = f
      BY DEF RequestWake
    <2>. HIDE DEF f, q
    <2>. QED
      BY <1>1, <1>3, <2>1, SignalMoves
  <1>. HIDE DEF f, g, q
  <1>5. \A p \in Proc : \/ pc'[Prim(p)] = pc[Prim(p)]
                        \/ pc[Prim(p)] \in Away /\ pc'[Prim(p)] \in Away
                        \/ pc[Prim(p)] = "wake" /\ pc'[Prim(p)] = "next" /\ Prim(p) = c
    BY <1>1, <1>2, <1>3, <1>4, Names DEF Away
  <1>6. \A p \in Proc : QuietPrim(p)
    BY <1>5 DEF QuietPrim, Custodial, Away, Late
  <1>7. \A p \in Proc : QuietSec(p)
    BY <1>2, <1>3, <1>4, Names DEF QuietSec, Busy, Service
  <1>8. \A d \in Caller : pc'[d] \in Asking => pc[d] \in Asking
    <2>1. pc'[Dispatcher] = pc[Dispatcher] \/ pc[Dispatcher] = "wake"
      BY <1>1, <1>2, <1>3, <1>4, Names
    <2>. QED
      BY <1>5, <2>1, Names DEF Asking, Away
  <1>. QED
    BY <1>4, <1>6, <1>7, <1>8

(* chiProcessorRequest hands nothing over; it may leave a handshake.       *)
LEMMA RequestKept ==
  ASSUME Before, NEW c \in Caller, Request(c)
  PROVE  Kept
  <1>. Places(pc) /\ Types
    BY TypeParts DEF Before
  <1>1. CASE RequestLock(c)
    <2>1. PICK l \in {"next", "interrupt"} : Goto(c, l)
      BY <1>1 DEF RequestLock
    <2>2. pc[c] \in Asking /\ l \in Asking
      BY <1>1 DEF RequestLock, Asking
    <2>3. UNCHANGED <<status, worker, call, owed>>
      BY <1>1 DEF RequestLock
    <2>4. lock' \in [Proc -> Caller \cup {Null}]
      BY <1>1 DEF RequestLock, Types
    <2>5. trig' \in [Proc -> SUBSET {"EXIT", "USER", "NOTIFY", "TIMER", "DUMP"}]
      <3>1. call[c].kind \in Kinds \ {"NONE"}
        BY <2>2 DEF Types, CallRecords, Before, CustodyInv, Calls, Sound
      <3>. QED
        BY <1>1, <3>1 DEF RequestLock, Types, Kinds
    <2>6. Types'
      BY <1>1, <2>4, <2>5 DEF RequestLock, Types, listvars
    <2>. QED
      BY <2>1, <2>2, <2>3, <2>6, CallerGoes, TypePartsNext DEF Kept
  <1>2. CASE RequestInterrupt(c)
    <2>1. Goto(c, "limit") /\ UNCHANGED <<status, worker, call, owed>>
      BY <1>2 DEF RequestInterrupt
    <2>2. pc[c] \in Asking /\ "limit" \in Asking
      BY <1>2 DEF RequestInterrupt, Asking
    <2>3. Types'
      BY <1>2 DEF RequestInterrupt, Types, listvars
    <2>. QED
      BY <2>1, <2>2, <2>3, CallerGoes, TypePartsNext DEF Kept
  <1>3. CASE RequestLimit(c)
    <2>1. Goto(c, "wake") /\ UNCHANGED <<status, worker, call>>
      BY <1>3 DEF RequestLimit
    <2>2. pc[c] \in Asking /\ "wake" \in Asking
      BY <1>3 DEF RequestLimit, Asking
    <2>3. call[c].to \in Proc
      BY <2>2 DEF Before, CustodyInv, Calls, Sound
    <2>4. Types'
      BY <1>3, <2>3 DEF RequestLimit, Types, listvars
    <2>5. [q \in Proc |-> Holder(q)]' = [q \in Proc |-> Holder(q)]
      BY <2>1, <2>2, CallerGoes, HolderKept
    <2>6. CASE owed' = owed
      BY <2>1, <2>2, <2>4, <2>6, CallerGoes, TypePartsNext DEF Kept
    <2>7. CASE owed' = owed \cup {call[c].to}
      <3>1. Custodian!Ask(call[c].to)
        BY <2>5, <2>7 DEF Custodian!Ask
      <3>2. CustodyStep
        BY <2>3, <3>1 DEF CustodyStep, Custodian!Next
      <3>. QED
        BY <2>1, <2>2, <2>4, <3>2, CallerGoes, TypePartsNext DEF Kept
    <2>. QED
      BY <1>3, <2>6, <2>7 DEF RequestLimit
  <1>4. CASE RequestWake(c)
    <2>1. UNCHANGED <<status, worker, call, owed>>
      BY <1>4 DEF RequestWake
    <2>2. call[c].to \in Proc
      BY <1>4 DEF Before, CustodyInv, Calls, Sound, RequestWake, Asking
    <2>3. Types'
      BY <1>4, <2>2 DEF RequestWake, Types, listvars
    <2>4. CallStep /\ StarterStep
      BY <1>4, <2>1, WakeMoves DEF CallStep, StarterStep
    <2>5. CustodyInv'
      BY <1>4, <2>1, <2>4, WakeMoves, QuietStep DEF Before, Quiet
    <2>. QED
      BY <1>4, <2>1, <2>3, <2>5, WakeMoves, Stutters, TypePartsNext DEF Kept
  <1>5. CASE RequestNext(c)
    <2>1. pc[c] \in Asking /\ call[c] \in CallRecords /\ UNCHANGED <<status, worker, owed>>
      BY <1>5 DEF RequestNext, Asking, Types, procvars
    <2>2. Sound(call[c], c)
      BY <2>1 DEF Before, CustodyInv, Calls
    <2>3. CASE call[c].rest # {}
      <3>1. Begin(c, call[c].kind, call[c].rest, call[c].then) /\ Goto(c, "request")
        BY <1>5, <2>3 DEF RequestNext
      <3>2. PICK q \in call[c].rest :
              call' = [call EXCEPT ![c] = [kind |-> call[c].kind, to |-> q, rest |-> call[c].rest \ {q},
                                           then |-> call[c].then]]
        BY <3>1 DEF Begin
      <3>. DEFINE r == [kind |-> call[c].kind, to |-> q, rest |-> call[c].rest \ {q}, then |-> call[c].then]
      <3>3. r \in CallRecords /\ Sound(r, c)
        BY <2>1, <2>2 DEF CallRecords, Sound
      <3>4. "request" \in DispatcherPC /\ "request" \in ProcPC \ Custodial /\ pc[c] \notin Custodial
        BY <2>1 DEF DispatcherPC, ProcPC, Custodial, Away, Late, Asking
      <3>5. call' = [call EXCEPT ![c] = r]
        BY <3>2
      <3>. HIDE DEF r
      <3>6. Places(pc)' /\ CustodyInv' /\ call' \in [Caller -> CallRecords] /\ CustodyStep
        BY <2>1, <3>1, <3>3, <3>4, <3>5, CallerStep
      <3>7. Types'
        BY <1>5, <2>3, <3>6 DEF RequestNext, Types, procvars
      <3>. QED
        BY <3>6, <3>7, TypePartsNext DEF Kept
    <2>4. CASE call[c].rest = {}
      <3>1. call' = [call EXCEPT ![c] = NoCall] /\ Goto(c, call[c].then)
        BY <1>5, <2>4 DEF RequestNext
      <3>2. NoCall \in CallRecords
        BY DEF NoCall, CallRecords, Kinds
      <3>3. /\ c = Dispatcher => call[c].then \in DispatcherPC
            /\ c # Dispatcher => call[c].then \in ProcPC \ Custodial /\ pc[c] \notin Custodial
            /\ call[c].then \notin Asking
        BY <2>1, <2>2 DEF CallRecords, Sound, DispatcherPC, ProcPC, Custodial, Away, Late, Asking, Stopping
      <3>4. Places(pc)' /\ CustodyInv' /\ call' \in [Caller -> CallRecords] /\ CustodyStep
        BY <2>1, <3>1, <3>2, <3>3, CallerStep
      <3>5. Types'
        BY <1>5, <2>4, <3>4 DEF RequestNext, Types, procvars
      <3>. QED
        BY <3>4, <3>5, TypePartsNext DEF Kept
    <2>. QED
      BY <2>3, <2>4
  <1>. QED
    BY <1>1, <1>2, <1>3, <1>4, <1>5 DEF Request

-----------------------------------------------------------------------------
(* The beginning of a request.                                             *)
LEMMA BeginStep ==
  ASSUME Before, NEW c \in Caller, NEW kind \in Kinds \ {"NONE"}, NEW S, S \subseteq Proc,
         NEW l \in {"idle", "run", "regrow", "look", "exit", "exitWait"}, l = "idle" <=> c = Dispatcher,
         c # Dispatcher => pc[c] \notin Custodial,
         Begin(c, kind, S, l), Goto(c, "request"), UNCHANGED <<status, worker, owed>>
  PROVE  Places(pc)' /\ CustodyInv' /\ CustodyStep /\ call' \in [Caller -> CallRecords]
  <1>1. PICK q \in S : call' = [call EXCEPT ![c] = [kind |-> kind, to |-> q, rest |-> S \ {q}, then |-> l]]
    BY DEF Begin
  <1>. DEFINE r == [kind |-> kind, to |-> q, rest |-> S \ {q}, then |-> l]
  <1>2. r \in CallRecords /\ Sound(r, c)
    BY DEF CallRecords, Sound
  <1>3. call' = [call EXCEPT ![c] = r]
    BY <1>1
  <1>4. "request" \in DispatcherPC /\ "request" \in ProcPC \ Custodial
    BY DEF DispatcherPC, ProcPC, Custodial, Away, Late
  <1>. HIDE DEF r
  <1>. QED
    BY <1>2, <1>3, <1>4, CallerStep

(* timerHandler, signalHandler and gcPoll.                                 *)
LEMMA DispatchKept ==
  ASSUME Before, NEW k \in Kind, Dispatch(k)
  PROVE  Kept
  <1>. Places(pc) /\ Types
    BY TypeParts DEF Before
  <1>1. PICK S \in SUBSET Proc : Walk(Dispatcher, k, S, "idle")
    BY DEF Dispatch, Types
  <1>2. k \in Kinds \ {"NONE"}
    BY KindAssumption DEF Kinds
  <1>3. Begin(Dispatcher, k, S, "idle") /\ Goto(Dispatcher, "request") /\ UNCHANGED <<status, worker, owed>>
    BY <1>1 DEF Walk, procvars
  <1>4. Places(pc)' /\ CustodyInv' /\ CustodyStep /\ call' \in [Caller -> CallRecords]
    BY <1>2, <1>3, Names, BeginStep
  <1>5. left' \in 0 .. MaxRequest
    BY BoundAssumption DEF Dispatch, Types
  <1>6. Types'
    BY <1>1, <1>4, <1>5, Names DEF Walk, Types, procvars
  <1>. QED
    BY <1>4, <1>6, TypePartsNext DEF Kept

(* Compiled code asks: for a scavenge, for a notification, to exit.        *)
LEMMA AskingKept ==
  ASSUME Before, NEW p \in Proc, NEW kind \in Kinds \ {"NONE"}, NEW S, S \subseteq Proc,
         NEW l \in {"run", "regrow", "look", "exit", "exitWait"}, pc[Prim(p)] \notin Custodial,
         Begin(Prim(p), kind, S, l), Goto(Prim(p), "request"),
         left' = left \/ (left > 0 /\ left' = left - 1),
         listLock' \in {listLock, Prim(p)},
         UNCHANGED <<procvars, lock, listed, alive, owed, told>>
  PROVE  Kept
  <1>1. Types
    BY TypeParts DEF Before
  <1>2. Prim(p) \in Caller /\ Prim(p) # Dispatcher /\ UNCHANGED <<status, worker, owed>>
    BY Names DEF procvars
  <1>3. Places(pc)' /\ CustodyInv' /\ CustodyStep /\ call' \in [Caller -> CallRecords]
    BY <1>2, BeginStep
  <1>4. left' \in 0 .. MaxRequest
    BY <1>1, BoundAssumption DEF Types
  <1>5. Types'
    BY <1>1, <1>2, <1>3, <1>4 DEF Types, procvars
  <1>. QED
    BY <1>3, <1>5, TypePartsNext DEF Kept

(* A new block of the nursery, and a scavenge asked for with it.           *)
LEMMA BumpKept ==
  ASSUME Before, NEW p \in Proc, NEW from \in {"grow", "run"}, NEW to \in {"regrow", "look"},
         Bump(p, from, to)
  PROVE  Kept
  <1>. Places(pc) /\ Types
    BY TypeParts DEF Before
  <1>0. pc[Prim(p)] \notin Custodial
    BY DEF Bump, Custodial, Away, Late
  <1>1. CASE Goto(Prim(p), to) /\ UNCHANGED <<call, left>>
    <2>1. to \in ProcPC \ Asking /\ to \notin Custodial
      BY DEF ProcPC, Service, Asking, Custodial, Away, Late
    <2>2. Types' /\ UNCHANGED <<status, worker, call, owed>>
      BY <1>1 DEF Bump, Types, procvars, listvars
    <2>. QED
      BY <1>0, <1>1, <2>1, <2>2, LocalStep, TypePartsNext DEF Kept
  <1>2. CASE /\ left > 0 /\ left' = left - 1
             /\ Begin(Prim(p), "SCAVENGE", {p}, to) /\ Goto(Prim(p), "request")
    <2>1. UNCHANGED <<procvars, lock, listed, listLock, alive, owed, told>>
      BY DEF Bump, listvars
    <2>2. "SCAVENGE" \in Kinds \ {"NONE"} /\ {p} \subseteq Proc
      BY DEF Kinds
    <2>. QED
      BY <1>0, <1>2, <2>1, <2>2, AskingKept
  <1>. QED
    BY <1>1, <1>2 DEF Bump

(* The steps that look at the interrupt or write the limit, and the stack. *)
LEMMA LimitKept ==
  ASSUME Before, NEW p \in Proc,
         GrowStack(p) \/ StackOverflow(p) \/ LookLimit(p) \/ \E from \in {"zero", "fill"} : WriteLimit(p, from)
  PROVE  Kept
  <1>. Places(pc) /\ Types
    BY TypeParts DEF Before
  <1>1. PICK l \in {"check", "run", "zero", "fill"} : Goto(Prim(p), l)
    BY DEF GrowStack, StackOverflow, LookLimit, WriteLimit
  <1>2. l \in ProcPC \ Asking /\ l \notin Custodial
    BY DEF ProcPC, Service, Asking, Custodial, Away, Late
  <1>3. pc[Prim(p)] \notin Custodial
    BY DEF GrowStack, StackOverflow, LookLimit, WriteLimit, Custodial, Away, Late
  <1>4. hl' \in [Proc -> BOOLEAN]
    BY DEF GrowStack, StackOverflow, LookLimit, WriteLimit, Types, procvars
  <1>5. UNCHANGED <<status, worker, interrupt, trig, timeout, lock, listvars, call, left, owed, told>>
    BY DEF GrowStack, StackOverflow, LookLimit, WriteLimit, procvars
  <1>6. Types'
    BY <1>4, <1>5 DEF Types, listvars
  <1>. QED
    BY <1>1, <1>2, <1>3, <1>5, <1>6, LocalStep, TypePartsNext DEF Kept

(* The safe points and restarts of compiled code.                          *)
LEMMA CodeKept ==
  ASSUME Before, NEW p \in Proc,
         Yield(p) \/ Restore(p) \/ Check(p) \/ Resume(p) \/ ProtectEnd(p)
  PROVE  Kept
  <1>. Places(pc) /\ Types
    BY TypeParts DEF Before
  <1>1. CASE Yield(p)
    <2>1. PICK l \in {"stack", "grow"} : Goto(Prim(p), l)
      BY <1>1, Names DEF Yield
    <2>2. l \in ProcPC \ Asking /\ l \notin Custodial /\ pc[Prim(p)] \notin Custodial
      BY <1>1 DEF Yield, ProcPC, Service, Asking, Custodial, Away, Late
    <2>3. Types' /\ UNCHANGED <<status, worker, call, owed>>
      BY <1>1 DEF Yield, Types, procvars, listvars
    <2>. QED
      BY <2>1, <2>2, <2>3, LocalStep, TypePartsNext DEF Kept
  <1>2. CASE Restore(p)
    <2>1. PICK l \in {"rearmGrow", "stack", "rearmService", "resume", "rearmProtect", "run"} : Goto(Prim(p), l)
      BY <1>2 DEF Restore, HeapOverflow, RestoreLimit, KeepLimit, Rearm
    <2>2. l \in ProcPC \ Asking /\ l \notin Custodial
      BY DEF ProcPC, Asking, Custodial, Away, Late
    <2>3. pc[Prim(p)] \notin Custodial
      BY <1>2 DEF Restore, HeapOverflow, RestoreLimit, KeepLimit, Rearm, Custodial, Away, Late
    <2>4. hl' \in [Proc -> BOOLEAN]
      BY <1>2 DEF Restore, HeapOverflow, RestoreLimit, KeepLimit, Rearm, Types, procvars
    <2>5. UNCHANGED <<status, worker, interrupt, trig, timeout, lock, listvars, call, left, owed, told>>
      BY <1>2 DEF Restore, HeapOverflow, RestoreLimit, KeepLimit, Rearm, procvars
    <2>6. Types'
      BY <2>4, <2>5 DEF Types, listvars
    <2>. QED
      BY <2>1, <2>2, <2>3, <2>5, <2>6, LocalStep, TypePartsNext DEF Kept
  <1>3. CASE Check(p)
    <2>1. PICK l \in {"loop", "run"} : Goto(Prim(p), l)
      BY <1>3, Names DEF Check
    <2>2. l \in ProcPC \ Asking /\ l \notin Custodial /\ pc[Prim(p)] \notin Custodial
      BY <1>3 DEF Check, ProcPC, Service, Asking, Custodial, Away, Late
    <2>3. Types' /\ UNCHANGED <<status, worker, call, owed>>
      BY <1>3 DEF Check, Types, procvars, listvars
    <2>. QED
      BY <2>1, <2>2, <2>3, LocalStep, TypePartsNext DEF Kept
  <1>4. CASE Resume(p)
    <2>1. Goto(Prim(p), "run")
      BY <1>4, Names DEF Resume
    <2>2. "run" \in ProcPC \ Asking /\ "run" \notin Custodial /\ pc[Prim(p)] \notin Custodial
      BY <1>4 DEF Resume, ProcPC, Service, Asking, Custodial, Away, Late
    <2>3. Types' /\ UNCHANGED <<status, worker, call, owed>>
      BY <1>4 DEF Resume, Types, procvars, listvars
    <2>. QED
      BY <2>1, <2>2, <2>3, LocalStep, TypePartsNext DEF Kept
  <1>5. CASE ProtectEnd(p)
    <2>1. Goto(Prim(p), "protected")
      BY <1>5, Names DEF ProtectEnd
    <2>2. "protected" \in ProcPC \ Asking /\ "protected" \notin Custodial /\ pc[Prim(p)] \notin Custodial
      BY <1>5 DEF ProtectEnd, ProcPC, Service, Asking, Custodial, Away, Late
    <2>3. Types' /\ UNCHANGED <<status, worker, call, owed>>
      BY <1>5 DEF ProtectEnd, Types, procvars, listvars
    <2>. QED
      BY <2>1, <2>2, <2>3, LocalStep, TypePartsNext DEF Kept
  <1>. QED
    BY <1>1, <1>2, <1>3, <1>4, <1>5

(* The time away from compiled code, and the way to the end.               *)
LEMMA AwayKept ==
  ASSUME Before, NEW p \in Proc,
         \/ Suspend(p) \/ ForeignReturn(p) \/ Park(p) \/ ParkTimeout(p)
         \/ Stop(p) \/ ExitProcessor(p) \/ Exit(p) \/ \E q \in Proc : Notify(p, q)
  PROVE  Kept
  <1>. Places(pc) /\ Types
    BY TypeParts DEF Before
  <1>1. CASE Suspend(p)
    <2>1. UNCHANGED <<pc, status, worker, call, owed>>
      BY <1>1 DEF Suspend
    <2>2. Types'
      BY <1>1 DEF Suspend, Types, listvars
    <2>3. \A q \in Proc : QuietPrim(q) /\ QuietSec(q)
      BY <2>1 DEF QuietPrim, QuietSec
    <2>4. CallStep /\ StarterStep
      BY <2>1 DEF CallStep, StarterStep
    <2>5. CustodyInv'
      BY <2>1, <2>3, <2>4, QuietStep DEF Before, Quiet
    <2>6. Places(pc)'
      BY <2>1 DEF Places
    <2>. QED
      BY <2>1, <2>2, <2>3, <2>5, <2>6, Stutters, TypePartsNext DEF Kept
  <1>2. CASE ForeignReturn(p)
    <2>1. Goto(Prim(p), "deactivate")
      BY <1>2, Names DEF ForeignReturn
    <2>2. "deactivate" \in ProcPC \ Asking /\ "deactivate" \in Away /\ pc[Prim(p)] \in Away
      BY <1>2 DEF ForeignReturn, ProcPC, Service, Asking, Custodial, Away, Late
    <2>3. Types' /\ UNCHANGED <<status, worker, call, owed>>
      BY <1>2 DEF ForeignReturn, Types, procvars, listvars
    <2>. QED
      BY <2>1, <2>2, <2>3, LocalStep, TypePartsNext DEF Kept
  <1>3. CASE Park(p)
    <2>1. PICK l \in {"parked", "deactivate"} : Goto(Prim(p), l)
      BY <1>3, Names DEF Park
    <2>2. l \in ProcPC \ Asking /\ l \in Away /\ pc[Prim(p)] \in Away
      BY <1>3 DEF Park, ProcPC, Service, Asking, Custodial, Away, Late
    <2>3. Types' /\ UNCHANGED <<status, worker, call, owed>>
      BY <1>3 DEF Park, Types, procvars, listvars
    <2>. QED
      BY <2>1, <2>2, <2>3, LocalStep, TypePartsNext DEF Kept
  <1>4. CASE ParkTimeout(p)
    <2>1. Goto(Prim(p), "park")
      BY <1>4, Names DEF ParkTimeout
    <2>2. "park" \in ProcPC \ Asking /\ "park" \in Away /\ pc[Prim(p)] \in Away
      BY <1>4 DEF ParkTimeout, ProcPC, Service, Asking, Custodial, Away, Late
    <2>3. Types' /\ UNCHANGED <<status, worker, call, owed>>
      BY <1>4 DEF ParkTimeout, Types, procvars, listvars
    <2>. QED
      BY <2>1, <2>2, <2>3, LocalStep, TypePartsNext DEF Kept
  <1>5. CASE Stop(p)
    <2>1. Goto(Prim(p), "exit")
      BY <1>5, Names DEF Stop
    <2>2. "exit" \in ProcPC \ Asking /\ "exit" \notin Custodial /\ pc[Prim(p)] \notin Custodial
      BY <1>5 DEF Stop, ProcPC, Service, Asking, Custodial, Away, Late, Stopping
    <2>3. Types' /\ UNCHANGED <<status, worker, call, owed>>
      BY <1>5 DEF Stop, Types, procvars, listvars
    <2>. QED
      BY <2>1, <2>2, <2>3, LocalStep, TypePartsNext DEF Kept
  <1>6. CASE ExitProcessor(p)
    <2>1. PICK l \in {"wait", "stopSecondary"} : Goto(Prim(p), l)
      BY <1>6, Names DEF ExitProcessor
    <2>2. l \in ProcPC \ Asking /\ l \notin Custodial /\ pc[Prim(p)] \notin Custodial
      BY <1>6 DEF ExitProcessor, ProcPC, Service, Asking, Custodial, Away, Late, Stopping
    <2>3. Types' /\ UNCHANGED <<status, worker, call, owed>>
      BY <1>6 DEF ExitProcessor, Types, procvars, listvars
    <2>. QED
      BY <2>1, <2>2, <2>3, LocalStep, TypePartsNext DEF Kept
  <1>7. CASE Exit(p)
    <2>1. /\ Begin(Prim(p), "EXIT", listed, "exit") /\ Goto(Prim(p), "request")
          /\ listLock' = Prim(p) /\ left' = left
          /\ UNCHANGED <<procvars, lock, listed, alive, owed, told>>
      BY <1>7 DEF Exit, Walk
    <2>2. pc[Prim(p)] \notin Custodial /\ "EXIT" \in Kinds \ {"NONE"} /\ listed \subseteq Proc
      BY <1>7 DEF Exit, Custodial, Away, Late, Kinds, Types
    <2>. QED
      BY <2>1, <2>2, AskingKept
  <1>8. CASE \E q \in Proc : Notify(p, q)
    <2>1. PICK q \in Proc : Notify(p, q)
      BY <1>8
    <2>2. /\ Begin(Prim(p), "NOTIFY", {q}, "run") /\ Goto(Prim(p), "request")
          /\ left > 0 /\ left' = left - 1 /\ listLock' = listLock
          /\ UNCHANGED <<procvars, lock, listed, alive, owed, told>>
      BY <2>1 DEF Notify, listvars
    <2>3. pc[Prim(p)] \notin Custodial /\ "NOTIFY" \in Kinds \ {"NONE"} /\ {q} \subseteq Proc
      BY <2>1 DEF Notify, Custodial, Away, Late, Kinds
    <2>. QED
      BY <2>2, <2>3, AskingKept
  <1>. QED
    BY <1>1, <1>2, <1>3, <1>4, <1>5, <1>6, <1>7, <1>8

-----------------------------------------------------------------------------
(* Steps that hand the processor p over, and leave the others alone.       *)
Elsewhere(p) ==
  \A q \in Proc \ {p} : QuietPrim(q) /\ QuietSec(q) /\ status'[q] = status[q] /\ worker'[q] = worker[q]

(* Handing over one processor keeps the invariant.                         *)
LEMMA HandStep ==
  ASSUME Before, NEW p \in Proc, Elsewhere(p), ToldOf(p)', CallStep, StartersStay
  PROVE  CustodyInv'
  <1>1. \A q \in Proc \ {p} : ToldOf(q)'
    BY ToldOfKept DEF Elsewhere, Before, CustodyInv, Told
  <1>2. Told'
    BY <1>1 DEF Told
  <1>. QED
    BY <1>2, CallsKept, StartersKept DEF Before, CustodyInv

(* The holder of one processor changes at most.                            *)
LEMMA HolderElse ==
  ASSUME NEW p \in Proc, \A q \in Proc \ {p} : Holder(q)' = Holder(q)
  PROVE  [q \in Proc |-> Holder(q)]' = [[q \in Proc |-> Holder(q)] EXCEPT ![p] = Holder(p)']
  OBVIOUS

(* The other processors stay in the same hands.                            *)
LEMMA ElseHolds ==
  ASSUME NEW p \in Proc, Elsewhere(p)
  PROVE  \A q \in Proc \ {p} : Holder(q)' = Holder(q)
  BY HolderOfKept DEF Elsewhere

(* A worker takes the processor,                                           *)
LEMMA Takes ==
  ASSUME NEW p \in Proc, \A q \in Proc \ {p} : Holder(q)' = Holder(q), owed' = owed,
         NEW w \in {"primary", "secondary"}, Holder(p) = {}, Holder(p)' = {w}
  PROVE  CustodyStep
  <1>1. [q \in Proc |-> Holder(q)]' = [[q \in Proc |-> Holder(q)] EXCEPT ![p] = {w}]
    BY HolderElse
  <1>2. Custodian!Take(p, w)
    BY <1>1 DEF Custodian!Take
  <1>. QED
    BY <1>2 DEF CustodyStep, Custodian!Next, Custodian!Worker

(* lays it down,                                                           *)
LEMMA LaysDown ==
  ASSUME NEW p \in Proc, \A q \in Proc \ {p} : Holder(q)' = Holder(q), owed' = owed,
         Holder(p) # {}, Holder(p)' = {}
  PROVE  CustodyStep
  <1>1. [q \in Proc |-> Holder(q)]' = [[q \in Proc |-> Holder(q)] EXCEPT ![p] = {}]
    BY HolderElse
  <1>2. Custodian!LayDown(p)
    BY <1>1 DEF Custodian!LayDown
  <1>. QED
    BY <1>2 DEF CustodyStep, Custodian!Next

(* or nothing is handed over.                                              *)
LEMMA Holds ==
  ASSUME NEW p \in Proc, \A q \in Proc \ {p} : Holder(q)' = Holder(q), owed' = owed,
         Holder(p)' = Holder(p)
  PROVE  CustodyStep
  <1>1. \A q \in Proc : Holder(q)' = Holder(q)
    OBVIOUS
  <1>2. [q \in Proc |-> Holder(q)]' = [q \in Proc |-> Holder(q)]
    BY <1>1
  <1>. QED
    BY <1>2 DEF CustodyStep, Custodian!vars

(* Who has a processor that compiled code does not run on.                 *)
LEMMA HolderAway ==
  ASSUME NEW p \in Proc, pc[Prim(p)] \in Away
  PROVE  Holder(p) = IF Serving(p) THEN {"secondary"} ELSE {}
  BY DEF Holder

(* The same after a step.                                                  *)
LEMMA AwayNext ==
  ASSUME NEW p \in Proc, pc'[Prim(p)] \in Away
  PROVE  Holder(p)' = IF Serving(p)' THEN {"secondary"} ELSE {}
  BY DEF Holder

(* secondaryActivate                                                       *)
LEMMA ProtectKept ==
  ASSUME Before, NEW p \in Proc, ProtectBegin(p)
  PROVE  Kept
  <1>. Places(pc) /\ Types /\ ToldOf(p)
    BY TypeParts DEF Before, CustodyInv, Told
  <1>1. PICK l \in {"foreign", "park"} :
          Signal(p, [pc EXCEPT ![Prim(p)] = l]) \/ pc' = [pc EXCEPT ![Prim(p)] = l]
    BY DEF ProtectBegin
  <1>. DEFINE f == [pc EXCEPT ![Prim(p)] = l]
  <1>2. l \in ProcPC /\ l \in Away /\ pc[Prim(p)] = "run"
    BY DEF ProcPC, Away, ProtectBegin
  <1>3. Places(f) /\ f[Prim(p)] = l /\ f[Dispatcher] = pc[Dispatcher]
    BY <1>2, PrimMoves, Names DEF Places
  <1>4. \A q \in Proc : f[Sec(q)] = pc[Sec(q)] /\ (q # p => f[Prim(q)] = pc[Prim(q)])
    BY <1>2, Names DEF Places
  <1>5. Signal(p, f) \/ pc' = f
    BY <1>1
  <1>. HIDE DEF f
  <1>6. /\ Places(pc') /\ pc'[Dispatcher] = f[Dispatcher]
        /\ \A q \in Proc : /\ pc'[Prim(q)] = f[Prim(q)] \/ (pc[Prim(q)] = "deactivateWait" /\ pc'[Prim(q)] = "deactivate")
                           /\ pc'[Sec(q)] = f[Sec(q)] \/ (pc[Sec(q)] = "secWait" /\ pc'[Sec(q)] = "top")
    BY <1>3, <1>5, SignalMoves
  <1>7. pc'[Prim(p)] = l
    BY <1>2, <1>3, <1>6
  <1>8. status' = [status EXCEPT ![p] = "ACTIVE"] /\ UNCHANGED <<worker, call, owed>>
    BY DEF ProtectBegin
  <1>9. pc[Sec(p)] \notin Busy /\ pc'[Sec(p)] \notin Busy
    BY <1>2, <1>4, <1>6 DEF ToldOf, Away, Busy, Service
  <1>10. Elsewhere(p)
    BY <1>4, <1>6, <1>8 DEF Elsewhere, QuietPrim, QuietSec, Away, Busy, Service, Types
  <1>11. ToldOf(p)'
    <2>1. status'[p] = "ACTIVE"
      BY <1>8 DEF Types
    <2>. QED
      BY <1>2, <1>7, <1>9, <2>1 DEF ToldOf, Busy
  <1>12. CallStep
    <2>1. \A q \in Proc : pc'[Prim(q)] \in Asking => pc[Prim(q)] \in Asking
      BY <1>2, <1>4, <1>6, <1>7 DEF Asking, Away
    <2>. QED
      BY <1>3, <1>6, <1>8, <2>1, Names DEF CallStep
  <1>13. StartersStay
    BY <1>2, <1>4, <1>6, <1>7, <1>8 DEF StartersStay, Away
  <1>14. CustodyStep
    <2>1. Holder(p)' = {}
      BY <1>2, <1>7, <1>9, AwayNext DEF Serving, Busy
    <2>2. Holder(p) # {}
      BY <1>2 DEF Holder, Away
    <2>. QED
      BY <1>8, <1>10, <2>1, <2>2, ElseHolds, LaysDown
  <1>15. Types'
    BY DEF ProtectBegin, Types, listvars
  <1>. QED
    BY <1>6, <1>10, <1>11, <1>12, <1>13, <1>14, <1>15, HandStep, TypePartsNext DEF Kept, Places

(* secondaryDeactivate                                                     *)
LEMMA DeactivateKept ==
  ASSUME Before, NEW p \in Proc, Deactivate(p)
  PROVE  Kept
  <1>. Places(pc) /\ Types /\ ToldOf(p)
    BY TypeParts DEF Before, CustodyInv, Told
  <1>1. UNCHANGED <<worker, call, owed>> /\ Types' /\ pc[Prim(p)] = "deactivate"
    BY DEF Deactivate, Types, listvars
  <1>2. CASE status[p] = "ACTIVE"
    <2>1. Goto(Prim(p), "protectEnd") /\ status' = [status EXCEPT ![p] = "INACTIVE"] /\ "protectEnd" \in ProcPC
      BY <1>2 DEF Deactivate, ProcPC
    <2>2. /\ Places(pc)' /\ pc'[Prim(p)] = "protectEnd" /\ pc'[Dispatcher] = pc[Dispatcher]
          /\ \A q \in Proc : pc'[Sec(q)] = pc[Sec(q)] /\ (q # p => pc'[Prim(q)] = pc[Prim(q)])
      BY <2>1, PrimGoes
    <2>3. status'[p] = "INACTIVE"
      BY <2>1 DEF Types
    <2>4. pc[Sec(p)] \notin Busy
      BY <1>2 DEF ToldOf
    <2>5. ToldOf(p)'
      BY <2>2, <2>3, <2>4 DEF ToldOf, Away, Busy
    <2>6. Elsewhere(p)
      BY <1>1, <2>1, <2>2 DEF Elsewhere, QuietPrim, QuietSec, Types
    <2>7. CallStep /\ StartersStay
      BY <1>1, <2>2, Names DEF CallStep, StartersStay, Asking
    <2>8. Holder(p) = {} /\ Holder(p)' = {"primary"}
      BY <1>1, <2>2, <2>4 DEF Holder, Serving, Away, Busy
    <2>. QED
      BY <1>1, <2>2, <2>5, <2>6, <2>7, <2>8, HandStep, ElseHolds, Takes, TypePartsNext DEF Kept
  <1>3. CASE status[p] # "ACTIVE"
    <2>1. Goto(Prim(p), "deactivateWait") /\ status' = status
      BY <1>3 DEF Deactivate
    <2>2. "deactivateWait" \in ProcPC \ Asking /\ "deactivateWait" \in Away /\ pc[Prim(p)] \in Away
      BY <1>1 DEF ProcPC, Asking, Away
    <2>. QED
      BY <1>1, <2>1, <2>2, LocalStep, TypePartsNext DEF Kept
  <1>. QED
    BY <1>2, <1>3

(* secondaryRun: the secondary worker takes over and hands back.           *)
LEMMA SecondaryKept ==
  ASSUME Before, NEW p \in Proc,
         SecondaryTop(p) \/ SecondaryEnter(p) \/ SecondaryLeave(p) \/ HandBack(p)
  PROVE  Kept
  <1>. Places(pc) /\ Types /\ ToldOf(p)
    BY TypeParts DEF Before, CustodyInv, Told
  <1>1. CASE SecondaryTop(p)
    <2>1. PICK l \in {"done", "secWait", "enter"} : Goto(Sec(p), l)
      BY <1>1 DEF SecondaryTop
    <2>2. l \in SecPC /\ pc[Sec(p)] = "top" /\ UNCHANGED <<worker, call, owed>>
      BY <1>1 DEF SecondaryTop, SecPC
    <2>3. Types'
      BY <1>1 DEF SecondaryTop, Types, listvars
    <2>4. /\ Places(pc)' /\ pc'[Sec(p)] = l /\ pc'[Dispatcher] = pc[Dispatcher]
          /\ \A q \in Proc : pc'[Prim(q)] = pc[Prim(q)] /\ (q # p => pc'[Sec(q)] = pc[Sec(q)])
      BY <2>1, <2>2, SecGoes
    <2>5. CASE status' = status /\ l # "enter"
      <3>1. pc[Sec(p)] \notin Busy \ {"handBack"} /\ l \notin Busy
        BY <2>2, <2>5 DEF Busy, Service
      <3>. QED
        BY <2>1, <2>2, <2>3, <2>5, <3>1, SecStep, TypePartsNext DEF Kept
    <2>6. CASE /\ status[p] \in {"ACTIVE", "RUN"} /\ l = "enter"
               /\ status' = [status EXCEPT ![p] = "RUN"]
      <3>1. pc[Prim(p)] \in Away /\ pc'[Prim(p)] \in Away
        BY <2>4, <2>6 DEF ToldOf
      <3>2. status'[p] = "RUN" /\ pc'[Sec(p)] = "enter"
        BY <2>4, <2>6 DEF Types
      <3>3. ToldOf(p)'
        BY <3>1, <3>2 DEF ToldOf, Service
      <3>4. Elsewhere(p)
        BY <2>2, <2>4, <2>6 DEF Elsewhere, QuietPrim, QuietSec, Types
      <3>5. CallStep /\ StartersStay
        BY <2>2, <2>4, Names DEF CallStep, StartersStay, Asking
      <3>6. Holder(p) = {} /\ Holder(p)' = {"secondary"}
        BY <2>2, <3>1, <3>2, HolderAway, AwayNext DEF Serving, Service
      <3>. QED
        BY <2>2, <2>3, <2>4, <3>3, <3>4, <3>5, <3>6, HandStep, ElseHolds, Takes, TypePartsNext DEF Kept
    <2>7. \/ status' = status /\ l # "enter"
          \/ /\ status[p] \in {"ACTIVE", "RUN"} /\ l = "enter"
             /\ status' = [status EXCEPT ![p] = "RUN"]
      <3>. DEFINE idle == status[p] = "INACTIVE" \/ (status[p] = "ACTIVE" /\ ~interrupt[p])
      <3>1. /\ Goto(Sec(p), IF status[p] = "STOP" THEN "done" ELSE IF idle THEN "secWait" ELSE "enter")
            /\ status' = [status EXCEPT ![p] = IF @ = "STOP" \/ idle THEN @ ELSE "RUN"]
        BY <1>1 DEF SecondaryTop
      <3>2. l = IF status[p] = "STOP" THEN "done" ELSE IF idle THEN "secWait" ELSE "enter"
        <4>1. Sec(p) \in DOMAIN pc
          BY Names DEF Places
        <4>. QED
          BY <2>1, <3>1, <4>1 DEF Goto
      <3>3. CASE status[p] = "STOP" \/ idle
        <4>1. status' = status
          BY <3>1, <3>3 DEF Types
        <4>. QED
          BY <3>2, <3>3, <4>1
      <3>4. CASE ~(status[p] = "STOP" \/ idle)
        <4>1. status' = [status EXCEPT ![p] = "RUN"] /\ l = "enter"
          BY <3>1, <3>2, <3>4
        <4>2. status[p] \in {"ACTIVE", "RUN"}
          BY <3>4 DEF Types
        <4>. QED
          BY <4>1, <4>2
      <3>. QED
        BY <3>3, <3>4
    <2>. QED
      BY <2>5, <2>6, <2>7
  <1>2. CASE SecondaryEnter(p)
    <2>1. /\ pc[Sec(p)] = "enter" /\ Goto(Sec(p), "loop") /\ "loop" \in SecPC
          /\ worker' = [worker EXCEPT ![p] = "secondary"] /\ UNCHANGED <<status, call, owed>>
      BY <1>2 DEF SecondaryEnter, SecPC, Service
    <2>2. /\ Places(pc)' /\ pc'[Sec(p)] = "loop" /\ pc'[Dispatcher] = pc[Dispatcher]
          /\ \A q \in Proc : pc'[Prim(q)] = pc[Prim(q)] /\ (q # p => pc'[Sec(q)] = pc[Sec(q)])
      BY <2>1, SecGoes
    <2>3. Types'
      BY <1>2 DEF SecondaryEnter, Types, listvars
    <2>4. ToldOf(p)'
      <3>1. status[p] = "RUN" /\ worker'[p] = "secondary"
        BY <2>1 DEF ToldOf, Busy, Types
      <3>. QED
        BY <2>1, <2>2, <3>1 DEF ToldOf
    <2>5. Elsewhere(p)
      BY <2>1, <2>2 DEF Elsewhere, QuietPrim, QuietSec, Types
    <2>6. CallStep /\ StartersStay
      BY <2>1, <2>2, Names DEF CallStep, StartersStay, Asking
    <2>7. Holder(p)' = Holder(p)
      BY <2>1, <2>2 DEF Holder, Serving, Service
    <2>. QED
      BY <2>1, <2>2, <2>3, <2>4, <2>5, <2>6, <2>7, HandStep, ElseHolds, Holds, TypePartsNext DEF Kept
  <1>3. CASE SecondaryLeave(p)
    <2>1. /\ pc[Sec(p)] = "leave" /\ Goto(Sec(p), "handBack") /\ "handBack" \in SecPC
          /\ worker' = [worker EXCEPT ![p] = "primary"] /\ UNCHANGED <<status, call, owed>>
      BY <1>3 DEF SecondaryLeave, SecPC
    <2>2. /\ Places(pc)' /\ pc'[Sec(p)] = "handBack" /\ pc'[Dispatcher] = pc[Dispatcher]
          /\ \A q \in Proc : pc'[Prim(q)] = pc[Prim(q)] /\ (q # p => pc'[Sec(q)] = pc[Sec(q)])
      BY <2>1, SecGoes
    <2>3. Types'
      BY <1>3 DEF SecondaryLeave, Types, listvars
    <2>4. status[p] = "RUN" /\ pc[Prim(p)] \in Away
      BY <2>1 DEF ToldOf, Busy
    <2>5. ToldOf(p)'
      BY <2>1, <2>2, <2>4 DEF ToldOf, Service
    <2>6. Elsewhere(p)
      BY <2>1, <2>2 DEF Elsewhere, QuietPrim, QuietSec, Types
    <2>7. CallStep /\ StartersStay
      BY <2>1, <2>2, Names DEF CallStep, StartersStay, Asking
    <2>8. Holder(p) # {} /\ Holder(p)' = {}
      BY <2>1, <2>2, <2>4 DEF Holder, Serving, Service
    <2>. QED
      BY <2>1, <2>2, <2>3, <2>5, <2>6, <2>7, <2>8, HandStep, ElseHolds, LaysDown, TypePartsNext DEF Kept
  <1>4. CASE HandBack(p)
    <2>. DEFINE f == [pc EXCEPT ![Sec(p)] = "top"]
    <2>1. /\ pc[Sec(p)] = "handBack" /\ UNCHANGED <<worker, call, owed>>
          /\ \/ pc' = f /\ status' = status
             \/ Signal(p, f) /\ status' = [status EXCEPT ![p] = "ACTIVE"]
      BY <1>4 DEF HandBack
    <2>2. Types'
      BY <1>4 DEF HandBack, Types, listvars
    <2>3. status[p] = "RUN" /\ pc[Prim(p)] \in Away
      BY <2>1 DEF ToldOf, Busy
    <2>4. Places(f) /\ f[Sec(p)] = "top" /\ f[Dispatcher] = pc[Dispatcher]
      <3>1. "top" \in SecPC
        BY DEF SecPC
      <3>. QED
        BY <3>1, SecMoves, Names DEF Places
    <2>5. \A q \in Proc : f[Prim(q)] = pc[Prim(q)] /\ (q # p => f[Sec(q)] = pc[Sec(q)])
      BY Names DEF Places
    <2>. HIDE DEF f
    <2>6. /\ Places(pc') /\ pc'[Dispatcher] = f[Dispatcher]
          /\ \A q \in Proc : /\ pc'[Prim(q)] = f[Prim(q)] \/ (pc[Prim(q)] = "deactivateWait" /\ pc'[Prim(q)] = "deactivate")
                             /\ pc'[Sec(q)] = f[Sec(q)] \/ (pc[Sec(q)] = "secWait" /\ pc'[Sec(q)] = "top")
      BY <2>1, <2>4, SignalMoves
    <2>7. pc'[Sec(p)] = "top" /\ pc'[Prim(p)] \in Away
      BY <2>1, <2>3, <2>4, <2>5, <2>6 DEF Away
    <2>8. status'[p] \in {"ACTIVE", "RUN"} /\ \A q \in Proc \ {p} : status'[q] = status[q]
      BY <2>1, <2>3 DEF Types
    <2>9. ToldOf(p)'
      BY <2>7, <2>8 DEF ToldOf, Busy, Service
    <2>10. Elsewhere(p)
      BY <2>1, <2>5, <2>6, <2>8 DEF Elsewhere, QuietPrim, QuietSec, Away, Busy, Service
    <2>11. CallStep
      <3>1. \A q \in Proc : pc'[Prim(q)] \in Asking => pc[Prim(q)] \in Asking
        BY <2>5, <2>6 DEF Asking
      <3>. QED
        BY <2>1, <2>4, <2>6, <3>1, Names DEF CallStep
    <2>12. StartersStay
      BY <2>1, <2>5, <2>6 DEF StartersStay
    <2>13. Holder(p)' = Holder(p)
      BY <2>1, <2>3, <2>7, HolderAway, AwayNext DEF Serving, Service
    <2>. QED
      BY <2>1, <2>2, <2>6, <2>9, <2>10, <2>11, <2>12, <2>13, HandStep, ElseHolds, Holds, TypePartsNext
      DEF Kept, Places
  <1>. QED
    BY <1>1, <1>2, <1>3, <1>4

(* A condition variable wakes without a signal.                            *)
LEMMA SpuriousKept ==
  ASSUME Before, NEW p \in Proc, Spurious(p)
  PROVE  Kept
  <1>. Places(pc) /\ Types
    BY TypeParts DEF Before
  <1>1. Signal(p, pc) /\ UNCHANGED <<status, worker, call, owed>>
    BY DEF Spurious, Signal, Goto, procvars
  <1>2. /\ Places(pc') /\ pc'[Dispatcher] = pc[Dispatcher]
        /\ \A q \in Proc : /\ pc'[Prim(q)] = pc[Prim(q)] \/ (pc[Prim(q)] = "deactivateWait" /\ pc'[Prim(q)] = "deactivate")
                           /\ pc'[Sec(q)] = pc[Sec(q)] \/ (pc[Sec(q)] = "secWait" /\ pc'[Sec(q)] = "top")
    BY <1>1, SignalMoves
  <1>3. Types'
    BY DEF Spurious, Types, procvars, listvars
  <1>4. \A q \in Proc : QuietPrim(q) /\ QuietSec(q)
    BY <1>2 DEF QuietPrim, QuietSec, Away, Busy, Service
  <1>5. CallStep
    <2>1. \A q \in Proc : pc'[Prim(q)] \in Asking => pc[Prim(q)] \in Asking
      BY <1>2 DEF Asking
    <2>. QED
      BY <1>1, <1>2, <2>1, Names DEF CallStep
  <1>6. CustodyInv'
    BY <1>1, <1>4, <1>5, QuietStep DEF Before, Quiet, StarterStep
  <1>. QED
    BY <1>1, <1>2, <1>3, <1>4, <1>6, Stutters, TypePartsNext DEF Kept, Places

-----------------------------------------------------------------------------
(* Two threads move at once.                                               *)
LEMMA PairMoves ==
  ASSUME Places(pc), NEW p \in Proc, NEW q \in Proc, p # q, NEW k \in ProcPC, NEW l \in ProcPC,
         pc' = [pc EXCEPT ![Prim(q)] = k, ![Prim(p)] = l]
  PROVE  /\ Places(pc') /\ pc'[Prim(q)] = k /\ pc'[Prim(p)] = l /\ pc'[Dispatcher] = pc[Dispatcher]
         /\ \A r \in Proc : pc'[Sec(r)] = pc[Sec(r)] /\ (r \notin {p, q} => pc'[Prim(r)] = pc[Prim(r)])
  <1>1. /\ pc'[Prim(q)] = k /\ pc'[Prim(p)] = l /\ pc'[Dispatcher] = pc[Dispatcher]
        /\ \A r \in Proc : pc'[Sec(r)] = pc[Sec(r)] /\ (r \notin {p, q} => pc'[Prim(r)] = pc[Prim(r)])
    BY Names DEF Places
  <1>2. pc' \in [Thread \cup {Dispatcher} -> ProcPC \cup SecPC \cup {"idle"}]
    BY Names DEF Places
  <1>3. \A r \in Proc : pc'[Prim(r)] \in ProcPC /\ pc'[Sec(r)] \in SecPC
    BY <1>1 DEF Places
  <1>. QED
    BY <1>1, <1>2, <1>3 DEF Places

(* chiProcessorTryStart: q waits for p, which has neither worker yet.      *)
LEMMA TryStartKept ==
  ASSUME Before, NEW q \in Proc, NEW p \in Proc, TryStart(q, p)
  PROVE  Kept
  <1>. Places(pc) /\ Types /\ Told /\ Calls /\ Starters
    BY TypeParts DEF Before, CustodyInv
  <1>1. pc[Prim(q)] = "run" /\ pc[Prim(p)] = "off" /\ p # q
    BY DEF TryStart
  <1>2. /\ Places(pc') /\ pc'[Prim(q)] = "starting" /\ pc'[Prim(p)] = "init"
        /\ pc'[Dispatcher] = pc[Dispatcher]
        /\ \A r \in Proc : pc'[Sec(r)] = pc[Sec(r)] /\ (r \notin {p, q} => pc'[Prim(r)] = pc[Prim(r)])
    <2>1. "starting" \in ProcPC /\ "init" \in ProcPC /\ pc' = [pc EXCEPT ![Prim(q)] = "starting", ![Prim(p)] = "init"]
      BY DEF ProcPC, TryStart
    <2>2. pc'[Prim(q)] = "starting" /\ pc'[Prim(p)] = "init"
      BY <1>1, <2>1, Names DEF Places
    <2>3. pc'[Dispatcher] = pc[Dispatcher]
      BY <1>1, <2>1, PairMoves
    <2>4. \A r \in Proc : pc'[Sec(r)] = pc[Sec(r)] /\ (r \notin {p, q} => pc'[Prim(r)] = pc[Prim(r)])
      BY <1>1, <2>1, PairMoves
    <2>5. Places(pc')
      BY <1>1, <2>1, PairMoves
    <2>. QED
      BY <2>2, <2>3, <2>4, <2>5
  <1>3. /\ status' = [status EXCEPT ![p] = "INACTIVE"] /\ worker' = [worker EXCEPT ![p] = "primary"]
        /\ call' = [call EXCEPT ![Prim(p)] = [NoCall EXCEPT !.to = Prim(q)]]
        /\ UNCHANGED <<lock, listvars, left, owed, told>>
    BY DEF TryStart
  <1>4. call'[Prim(p)].to = Prim(q) /\ \A c \in Caller \ {Prim(p)} : call'[c] = call[c]
    <2>1. Prim(p) \in Caller
      BY Names
    <2>. QED
      BY <1>3, <2>1 DEF Types, NoCall
  <1>5. Types'
    <2>1. [NoCall EXCEPT !.to = Prim(q)] \in CallRecords
      BY Names DEF NoCall, CallRecords, Kinds
    <2>2. call' \in [Caller -> CallRecords]
      BY <1>3, <2>1 DEF Types
    <2>. QED
      BY <1>3, <2>2 DEF TryStart, Types, listvars
  <1>6. Told'
    <2>. SUFFICES ASSUME NEW r \in Proc PROVE ToldOf(r)'
      BY DEF Told
    <2>1. ToldOf(r) /\ pc'[Sec(r)] = pc[Sec(r)]
      BY <1>2 DEF Told
    <2>2. CASE r = p
      <3>1. status'[r] = "INACTIVE" /\ pc[Sec(r)] \notin Busy /\ pc'[Prim(r)] = "init"
        BY <1>1, <1>2, <1>3, <2>1, <2>2 DEF ToldOf, Types, Away
      <3>. QED
        BY <2>1, <3>1 DEF ToldOf, Away, Busy
    <2>3. CASE r = q
      <3>1. status'[r] = status[r] /\ worker'[r] = worker[r] /\ pc'[Prim(r)] = "starting" /\ pc[Prim(r)] = "run"
        BY <1>1, <1>2, <1>3, <2>3 DEF Types
      <3>. QED
        BY <2>1, <3>1 DEF ToldOf, Away, Late
    <2>4. CASE r \notin {p, q}
      <3>1. status'[r] = status[r] /\ worker'[r] = worker[r] /\ QuietPrim(r) /\ QuietSec(r)
        BY <1>2, <1>3, <2>1, <2>4 DEF Types, QuietPrim, QuietSec
      <3>. QED
        BY <2>1, <3>1, ToldOfKept
    <2>. QED
      BY <2>2, <2>3, <2>4
  <1>7. Calls'
    <2>1. CallStep
      BY <1>2, <1>4, Names DEF CallStep, Asking
    <2>. QED
      BY <2>1, CallsKept
  <1>8. Starters'
    <2>1. \A r \in Proc : pc'[Prim(r)] = "init" => r = p \/ (pc[Prim(r)] = "init" /\ call'[Prim(r)] = call[Prim(r)])
      BY <1>1, <1>2, <1>4, Names
    <2>2. \A r \in Proc : pc[Prim(r)] = "starting" => pc'[Prim(r)] = "starting"
      BY <1>1, <1>2
    <2>3. \A r \in Proc : pc[Prim(r)] = "init" => call[Prim(r)].to # Prim(q)
      BY <1>1 DEF Starters
    <2>. QED
      BY <1>2, <1>4, <2>1, <2>2, <2>3 DEF Starters
  <1>9. CustodyStep
    <2>1. \A r \in Proc : Holder(r)' = Holder(r)
      <3>. SUFFICES ASSUME NEW r \in Proc PROVE Holder(r)' = Holder(r)
        OBVIOUS
      <3>1. pc'[Prim(r)] \in Away \cup {"off", "init"} <=> pc[Prim(r)] \in Away \cup {"off", "init"}
        BY <1>1, <1>2 DEF Away
      <3>. QED
        BY <1>2, <3>1 DEF Holder, Serving
    <2>. QED
      BY <1>3, <2>1, Holds
  <1>. QED
    BY <1>2, <1>5, <1>6, <1>7, <1>8, <1>9, TypePartsNext DEF Kept, CustodyInv, Places

(* initProcessor: the processor runs, or there is no thread left for it.   *)
LEMMA InitProcessorKept ==
  ASSUME Before, NEW p \in Proc, InitProcessor(p)
  PROVE  Kept
  <1>. Places(pc) /\ Types /\ Told /\ Calls /\ Starters
    BY TypeParts DEF Before, CustodyInv
  <1>1. pc[Prim(p)] = "init" /\ UNCHANGED <<status, worker, owed>>
    BY DEF InitProcessor, procvars
  <1>2. PICK q \in Proc : call[Prim(p)].to = Prim(q) /\ pc[Prim(q)] = "starting"
    BY <1>1 DEF Starters
  <1>3. p # q
    BY <1>1, <1>2
  <1>4. PICK k \in {"run", "off"}, l \in SecPC :
          /\ pc' = [pc EXCEPT ![Prim(p)] = k, ![Sec(p)] = l, ![Prim(q)] = "run"]
          /\ k = "run" => l = "top"
          /\ k = "off" => l = pc[Sec(p)]
    <2>1. CASE pc' = [pc EXCEPT ![Prim(p)] = "run", ![Sec(p)] = "top", ![Prim(q)] = "run"]
      BY <2>1 DEF SecPC
    <2>2. CASE pc' = [pc EXCEPT ![Prim(p)] = "off", ![Prim(q)] = "run"]
      <3>1. pc[Sec(p)] \in SecPC
        BY DEF Places
      <3>2. pc' = [pc EXCEPT ![Prim(p)] = "off", ![Sec(p)] = pc[Sec(p)], ![Prim(q)] = "run"]
        BY <2>2, Names DEF Places
      <3>. QED
        BY <3>1, <3>2
    <2>. QED
      BY <1>2, <2>1, <2>2 DEF InitProcessor
  <1>5. /\ pc'[Prim(p)] = k /\ pc'[Sec(p)] = l /\ pc'[Prim(q)] = "run" /\ pc'[Dispatcher] = pc[Dispatcher]
        /\ \A r \in Proc : /\ r \notin {p, q} => pc'[Prim(r)] = pc[Prim(r)]
                           /\ r # p => pc'[Sec(r)] = pc[Sec(r)]
    BY <1>3, <1>4, Names DEF Places
  <1>6. Places(pc')
    <2>1. pc' \in [Thread \cup {Dispatcher} -> ProcPC \cup SecPC \cup {"idle"}]
      <3>1. k \in ProcPC /\ "run" \in ProcPC
        BY DEF ProcPC
      <3>. QED
        BY <1>4, <3>1, Names DEF Places
    <2>2. \A r \in Proc : pc'[Prim(r)] \in ProcPC /\ pc'[Sec(r)] \in SecPC
      BY <1>5 DEF Places, ProcPC
    <2>. QED
      BY <1>5, <2>1, <2>2 DEF Places
  <1>7. /\ call' = [call EXCEPT ![Prim(p)] = NoCall]
        /\ \A c \in Caller \ {Prim(p)} : call'[c] = call[c]
    BY DEF InitProcessor, Types
  <1>8. Types'
    <2>1. NoCall \in CallRecords
      BY DEF NoCall, CallRecords, Kinds
    <2>2. call' \in [Caller -> CallRecords]
      BY <1>7, <2>1 DEF Types
    <2>3. listed' \subseteq Proc /\ alive' \subseteq Proc
      BY DEF InitProcessor, Types
    <2>4. UNCHANGED <<procvars, lock, listLock, left, owed, told>>
      BY DEF InitProcessor
    <2>. QED
      BY <2>2, <2>3, <2>4 DEF Types, procvars
  <1>9. pc[Sec(p)] \notin Busy /\ l \notin Busy
    <2>1. status[p] # "RUN" /\ ToldOf(p)
      BY <1>1 DEF Told, ToldOf, Away
    <2>. QED
      BY <1>4, <2>1 DEF ToldOf, Busy, Service
  <1>10. Told'
    <2>. SUFFICES ASSUME NEW r \in Proc PROVE ToldOf(r)'
      BY DEF Told
    <2>1. ToldOf(r) /\ status'[r] = status[r] /\ worker'[r] = worker[r]
      BY <1>1 DEF Told
    <2>2. CASE r = p
      <3>1. status[r] \notin {"ACTIVE", "RUN"} /\ status[r] # "STOP"
        BY <1>1, <2>1, <2>2 DEF ToldOf, Away, Late
      <3>2. pc'[Prim(r)] \in {"run", "off"} /\ pc'[Sec(r)] \notin Busy
        BY <1>5, <1>9, <2>2
      <3>. QED
        BY <2>1, <3>1, <3>2 DEF ToldOf, Away, Busy
    <2>3. CASE r = q
      <3>1. pc'[Prim(r)] = "run" /\ pc[Prim(r)] = "starting" /\ pc'[Sec(r)] = pc[Sec(r)]
        BY <1>2, <1>3, <1>5, <2>3
      <3>. QED
        BY <2>1, <3>1 DEF ToldOf, Away, Late
    <2>4. CASE r \notin {p, q}
      <3>1. QuietPrim(r) /\ QuietSec(r)
        BY <1>5, <2>4 DEF QuietPrim, QuietSec
      <3>. QED
        BY <2>1, <3>1, ToldOfKept
    <2>. QED
      BY <2>2, <2>3, <2>4
  <1>11. Calls'
    <2>1. CallStep
      BY <1>5, <1>7, Names DEF CallStep, Asking
    <2>. QED
      BY <2>1, CallsKept
  <1>12. Starters'
    <2>1. \A r \in Proc : pc'[Prim(r)] = "init" => r \notin {p, q} /\ pc[Prim(r)] = "init"
      BY <1>5
    <2>2. \A r \in Proc : pc'[Prim(r)] = "init" => call'[Prim(r)] = call[Prim(r)]
      BY <1>7, <2>1, Names
    <2>3. \A r \in Proc : pc'[Prim(r)] = "init" => call[Prim(r)].to # Prim(q)
      BY <1>1, <1>2, <2>1 DEF Starters
    <2>4. \A r \in Proc : pc[Prim(r)] = "starting" /\ r # q => pc'[Prim(r)] = "starting"
      BY <1>1, <1>5
    <2>. QED
      BY <2>1, <2>2, <2>3, <2>4 DEF Starters
  <1>13. CustodyStep
    <2>1. \A r \in Proc \ {p} : Holder(r)' = Holder(r)
      <3>. SUFFICES ASSUME NEW r \in Proc \ {p} PROVE Holder(r)' = Holder(r)
        OBVIOUS
      <3>1. pc'[Prim(r)] \in Away \cup {"off", "init"} <=> pc[Prim(r)] \in Away \cup {"off", "init"}
        BY <1>2, <1>5 DEF Away
      <3>2. pc'[Sec(r)] = pc[Sec(r)]
        BY <1>5
      <3>. QED
        BY <3>1, <3>2 DEF Holder, Serving
    <2>2. Holder(p) = {}
      BY <1>1, <1>9 DEF Holder, Serving, Busy
    <2>3. CASE k = "run"
      <3>1. Holder(p)' = {"primary"}
        BY <1>5, <1>9, <2>3 DEF Holder, Serving, Busy, Away
      <3>. QED
        BY <1>1, <2>1, <2>2, <3>1, Takes
    <2>4. CASE k = "off"
      <3>1. Holder(p)' = Holder(p)
        BY <1>5, <1>9, <2>2, <2>4 DEF Holder, Serving, Busy
      <3>. QED
        BY <1>1, <2>1, <3>1, Holds
    <2>. QED
      BY <2>3, <2>4
  <1>. QED
    BY <1>6, <1>8, <1>10, <1>11, <1>12, <1>13, TypePartsNext DEF Kept, CustodyInv, Places

(* secondaryStop: the secondary worker is told to end.                     *)
LEMMA StopSecondaryKept ==
  ASSUME Before, NEW p \in Proc, StopSecondary(p)
  PROVE  Kept
  <1>. Places(pc) /\ Types /\ ToldOf(p)
    BY TypeParts DEF Before, CustodyInv, Told
  <1>. DEFINE f == [pc EXCEPT ![Prim(p)] = "join"]
  <1>1. /\ pc[Prim(p)] = "stopSecondary" /\ status' = [status EXCEPT ![p] = "STOP"]
        /\ Signal(p, f) /\ UNCHANGED <<worker, call, owed>>
    BY DEF StopSecondary
  <1>2. Places(f) /\ f[Prim(p)] = "join" /\ f[Dispatcher] = pc[Dispatcher]
    <2>1. "join" \in ProcPC
      BY DEF ProcPC, Stopping
    <2>. QED
      BY <2>1, PrimMoves, Names DEF Places
  <1>3. \A q \in Proc : f[Sec(q)] = pc[Sec(q)] /\ (q # p => f[Prim(q)] = pc[Prim(q)])
    BY Names DEF Places
  <1>. HIDE DEF f
  <1>4. /\ Places(pc') /\ pc'[Dispatcher] = f[Dispatcher]
        /\ \A q \in Proc : /\ pc'[Prim(q)] = f[Prim(q)] \/ (pc[Prim(q)] = "deactivateWait" /\ pc'[Prim(q)] = "deactivate")
                           /\ pc'[Sec(q)] = f[Sec(q)] \/ (pc[Sec(q)] = "secWait" /\ pc'[Sec(q)] = "top")
    BY <1>1, <1>2, SignalMoves
  <1>5. pc'[Prim(p)] = "join" /\ status'[p] = "STOP"
    BY <1>1, <1>2, <1>4 DEF Types
  <1>6. pc[Sec(p)] \notin Busy /\ pc'[Sec(p)] \notin Busy
    BY <1>1, <1>3, <1>4 DEF ToldOf, Away, Busy, Service
  <1>7. ToldOf(p)'
    BY <1>5, <1>6 DEF ToldOf, Away, Late, Busy
  <1>8. Elsewhere(p)
    BY <1>1, <1>3, <1>4 DEF Elsewhere, QuietPrim, QuietSec, Away, Busy, Service, Types
  <1>9. CallStep
    <2>1. \A q \in Proc : pc'[Prim(q)] \in Asking => pc[Prim(q)] \in Asking
      BY <1>3, <1>4, <1>5 DEF Asking
    <2>. QED
      BY <1>1, <1>2, <1>4, <2>1, Names DEF CallStep
  <1>10. StartersStay
    BY <1>1, <1>3, <1>4, <1>5 DEF StartersStay
  <1>11. Holder(p)' = Holder(p)
    BY <1>1, <1>5, <1>6 DEF Holder, Serving, Away, Busy
  <1>12. Types'
    BY DEF StopSecondary, Types, listvars
  <1>. QED
    BY <1>1, <1>4, <1>7, <1>8, <1>9, <1>10, <1>11, <1>12, HandStep, ElseHolds, Holds, TypePartsNext
    DEF Kept, Places

(* The secondary worker has ended.                                         *)
LEMMA JoinKept ==
  ASSUME Before, NEW p \in Proc, Join(p)
  PROVE  Kept
  <1>. Places(pc) /\ Types
    BY TypeParts DEF Before
  <1>1. /\ pc[Prim(p)] = "join" /\ pc[Sec(p)] = "done"
        /\ pc' = [pc EXCEPT ![Prim(p)] = "unlist", ![Sec(p)] = "off"]
        /\ UNCHANGED <<status, worker, call, owed>>
    BY DEF Join, procvars
  <1>2. /\ pc'[Prim(p)] = "unlist" /\ pc'[Sec(p)] = "off" /\ pc'[Dispatcher] = pc[Dispatcher]
        /\ \A q \in Proc \ {p} : pc'[Prim(q)] = pc[Prim(q)] /\ pc'[Sec(q)] = pc[Sec(q)]
    BY <1>1, Names DEF Places
  <1>3. Places(pc)'
    <2>1. "unlist" \in ProcPC /\ "off" \in SecPC
      BY DEF ProcPC, SecPC, Stopping
    <2>2. pc' \in [Thread \cup {Dispatcher} -> ProcPC \cup SecPC \cup {"idle"}]
      BY <1>1, <2>1, Names DEF Places
    <2>. QED
      BY <1>2, <2>1, <2>2 DEF Places
  <1>4. \A q \in Proc : QuietPrim(q) /\ QuietSec(q)
    BY <1>1, <1>2 DEF QuietPrim, QuietSec, Late, Busy, Service
  <1>5. CallStep /\ StarterStep
    <2>1. \A c \in Caller : pc'[c] \in Asking => pc'[c] = pc[c]
      <3>. SUFFICES ASSUME NEW c \in Caller, pc'[c] \in Asking PROVE pc'[c] = pc[c]
        OBVIOUS
      <3>1. CASE c = Dispatcher
        BY <1>2, <3>1
      <3>2. CASE c # Dispatcher
        <4>1. PICK q \in Proc : c = Prim(q)
          BY <3>2, Names
        <4>. QED
          BY <1>2, <4>1 DEF Asking
      <3>. QED
        BY <3>1, <3>2
    <2>. QED
      BY <1>1, <2>1 DEF CallStep, StarterStep
  <1>6. CustodyInv'
    BY <1>1, <1>4, <1>5, QuietStep DEF Before, Quiet
  <1>7. Types'
    BY DEF Join, Types, procvars, listvars
  <1>. QED
    BY <1>1, <1>3, <1>4, <1>6, <1>7, Stutters, TypePartsNext DEF Kept

(* The processor leaves the list; its handshake is answered for good.      *)
LEMMA UnlistKept ==
  ASSUME Before, NEW p \in Proc, Unlist(p)
  PROVE  Kept
  <1>. Places(pc) /\ Types
    BY TypeParts DEF Before
  <1>1. /\ pc[Prim(p)] = "unlist" /\ owed' = owed \ {p}
        /\ pc' = [t \in DOMAIN pc |-> IF t = Prim(p) THEN "free"
                                      ELSE IF pc[t] = "exitWait" THEN "wait" ELSE pc[t]]
        /\ UNCHANGED <<status, worker, call>>
    BY DEF Unlist, procvars
  <1>2. /\ pc'[Prim(p)] = "free"
        /\ \A t \in Thread \cup {Dispatcher} :
             t # Prim(p) => pc'[t] = pc[t] \/ (pc[t] = "exitWait" /\ pc'[t] = "wait")
    BY <1>1, Names DEF Places
  <1>3. /\ pc'[Dispatcher] = pc[Dispatcher]
        /\ \A q \in Proc : pc'[Sec(q)] = pc[Sec(q)]
    <2>1. pc[Dispatcher] # "exitWait" /\ \A q \in Proc : pc[Sec(q)] # "exitWait"
      BY DEF Places, DispatcherPC, SecPC, Service
    <2>. QED
      BY <1>2, <2>1, Names
  <1>4. Places(pc)'
    <2>1. "free" \in ProcPC /\ "wait" \in ProcPC
      BY DEF ProcPC, Stopping
    <2>2. \A q \in Proc : pc'[Prim(q)] \in ProcPC /\ pc'[Sec(q)] \in SecPC
      BY <1>2, <1>3, <2>1, Names DEF Places
    <2>3. pc' \in [Thread \cup {Dispatcher} -> ProcPC \cup SecPC \cup {"idle"}]
      BY <1>1, <2>1 DEF Places
    <2>. QED
      BY <1>3, <2>2, <2>3 DEF Places
  <1>5. \A q \in Proc : QuietPrim(q) /\ QuietSec(q)
    BY <1>1, <1>2, <1>3, Names DEF QuietPrim, QuietSec, Custodial, Late, Away
  <1>6. CallStep /\ StarterStep
    <2>1. \A c \in Caller : pc'[c] \in Asking => pc'[c] = pc[c]
      BY <1>2, Names DEF Asking
    <2>. QED
      BY <1>1, <2>1 DEF CallStep, StarterStep
  <1>7. CustodyInv'
    BY <1>1, <1>5, <1>6, QuietStep DEF Before, Quiet
  <1>8. Types'
    BY DEF Unlist, Types, procvars
  <1>9. CustodyStep
    <2>1. Holder(p) # {}
      BY <1>1 DEF Holder, Away
    <2>2. [q \in Proc |-> Holder(q)]' = [q \in Proc |-> Holder(q)]
      BY <1>5, HolderKept
    <2>3. Custodian!Answer(p)
      BY <1>1, <2>1, <2>2 DEF Custodian!Answer
    <2>. QED
      BY <2>3 DEF CustodyStep, Custodian!Next
  <1>. QED
    BY <1>4, <1>7, <1>8, <1>9, TypePartsNext DEF Kept

(* The processor is laid down, or the main one goes on to the end.         *)
LEMMA FreeKept ==
  ASSUME Before, NEW p \in Proc, Free(p)
  PROVE  Kept
  <1>. Places(pc) /\ Types /\ ToldOf(p)
    BY TypeParts DEF Before, CustodyInv, Told
  <1>1. pc[Prim(p)] = "free" /\ UNCHANGED <<status, worker, call, owed>> /\ Types'
    BY DEF Free, Types, procvars
  <1>2. CASE p = Main
    <2>1. Goto(Prim(p), "destroy") /\ "destroy" \in ProcPC \ Asking
      BY <1>2 DEF Free, ProcPC, Stopping, Asking
    <2>2. pc[Prim(p)] \in Late \ {"off"} /\ "destroy" \in Late \ {"off"}
      BY <1>1 DEF Late
    <2>. QED
      BY <1>1, <2>1, <2>2, LocalStep, TypePartsNext DEF Kept
  <1>3. CASE p # Main
    <2>1. Goto(Prim(p), "off") /\ "off" \in ProcPC
      BY <1>3 DEF Free, ProcPC
    <2>2. /\ Places(pc)' /\ pc'[Prim(p)] = "off" /\ pc'[Dispatcher] = pc[Dispatcher]
          /\ \A q \in Proc : pc'[Sec(q)] = pc[Sec(q)] /\ (q # p => pc'[Prim(q)] = pc[Prim(q)])
      BY <2>1, PrimGoes
    <2>3. status[p] \notin {"ACTIVE", "RUN"} /\ pc[Sec(p)] \notin Busy
      BY <1>1 DEF ToldOf, Away
    <2>4. ToldOf(p)'
      BY <1>1, <2>2, <2>3 DEF ToldOf, Away, Late, Busy
    <2>5. Elsewhere(p)
      BY <1>1, <2>2 DEF Elsewhere, QuietPrim, QuietSec
    <2>6. CallStep /\ StartersStay
      BY <1>1, <2>2, Names DEF CallStep, StartersStay, Asking
    <2>7. Holder(p) # {} /\ Holder(p)' = {}
      BY <1>1, <2>2, <2>3 DEF Holder, Serving, Away, Busy
    <2>. QED
      BY <1>1, <2>2, <2>4, <2>5, <2>6, <2>7, HandStep, ElseHolds, LaysDown, TypePartsNext DEF Kept
  <1>. QED
    BY <1>2, <1>3

(* The main processor waits for the others, and destroys the runtime.      *)
LEMMA MainKept ==
  ASSUME Before, WaitProcessors \/ RuntimeDestroy
  PROVE  Kept
  <1>. Places(pc) /\ Types /\ Main \in Proc
    BY TypeParts, ProcAssumption DEF Before
  <1>1. CASE RuntimeDestroy
    <2>1. Goto(Prim(Main), "gone") /\ "gone" \in ProcPC \ Asking
      BY <1>1 DEF RuntimeDestroy, ProcPC, Stopping, Asking
    <2>2. pc[Prim(Main)] \in Late \ {"off"} /\ "gone" \in Late \ {"off"}
      BY <1>1 DEF RuntimeDestroy, Late
    <2>3. Types' /\ UNCHANGED <<status, worker, call, owed>>
      BY <1>1 DEF RuntimeDestroy, Types, procvars, listvars
    <2>. QED
      BY <2>1, <2>2, <2>3, LocalStep, TypePartsNext DEF Kept
  <1>2. CASE WaitProcessors
    <2>1. pc[Prim(Main)] \notin Custodial /\ left' = left
      BY <1>2 DEF WaitProcessors, Custodial, Away, Late
    <2>2. CASE Goto(Prim(Main), "stopSecondary") /\ UNCHANGED <<procvars, lock, listvars, call, owed, told>>
      <3>1. "stopSecondary" \in ProcPC \ Asking /\ "stopSecondary" \notin Custodial
        BY DEF ProcPC, Stopping, Asking, Custodial, Away, Late
      <3>2. Types' /\ UNCHANGED <<status, worker, call, owed>>
        BY <2>1, <2>2 DEF Types, procvars, listvars
      <3>. QED
        BY <2>1, <2>2, <3>1, <3>2, LocalStep, TypePartsNext DEF Kept
    <2>3. CASE Walk(Prim(Main), "EXIT", listed, "exitWait")
      <3>1. /\ Begin(Prim(Main), "EXIT", listed, "exitWait") /\ Goto(Prim(Main), "request")
            /\ listLock' = Prim(Main)
            /\ UNCHANGED <<procvars, lock, listed, alive, owed, told>>
        BY <2>3 DEF Walk
      <3>2. "EXIT" \in Kinds \ {"NONE"} /\ listed \subseteq Proc
        BY DEF Kinds, Types
      <3>. QED
        BY <2>1, <3>1, <3>2, AskingKept
    <2>. QED
      BY <1>2, <2>2, <2>3 DEF WaitProcessors
  <1>. QED
    BY <1>1, <1>2

-----------------------------------------------------------------------------
(* The initial state: only the main processor runs.                        *)
LEMMA InitHolds ==
  ASSUME Init
  PROVE  TypeOK /\ CustodyInv /\ Custodian!Init
  <1>1. /\ pc[Dispatcher] = "idle"
        /\ \A p \in Proc : /\ pc[Prim(p)] = IF p = Main THEN "run" ELSE "off"
                           /\ pc[Sec(p)] = IF p = Main THEN "top" ELSE "off"
    BY Names, ProcAssumption DEF Init
  <1>2. Places(pc)
    <2>1. {"run", "off"} \subseteq ProcPC /\ {"top", "off"} \subseteq SecPC /\ "idle" \in DispatcherPC
      BY DEF ProcPC, SecPC, DispatcherPC
    <2>2. pc \in [Thread \cup {Dispatcher} -> ProcPC \cup SecPC \cup {"idle"}]
      BY <2>1 DEF Init
    <2>. QED
      BY <1>1, <2>1, <2>2 DEF Places
  <1>3. Types
    <2>1. NoCall \in CallRecords
      BY DEF NoCall, CallRecords, Kinds
    <2>. QED
      BY <2>1, ProcAssumption, BoundAssumption DEF Init, Types
  <1>4. TypeOK
    BY <1>2, <1>3, TypeParts
  <1>5. Told
    <2>. SUFFICES ASSUME NEW p \in Proc PROVE ToldOf(p)
      BY DEF Told
    <2>1. status[p] = "INACTIVE" /\ pc[Prim(p)] \in {"run", "off"} /\ pc[Sec(p)] \in {"top", "off"}
      BY <1>1 DEF Init
    <2>2. {"run", "off"} \cap Away = {} /\ {"top", "off"} \cap (Busy \cup Service \cup {"leave"}) = {}
      BY DEF Away, Busy, Service
    <2>. QED
      BY <2>1, <2>2 DEF ToldOf
  <1>6. Calls
    BY <1>1, Names DEF Calls, Asking
  <1>7. Starters
    BY <1>1 DEF Starters
  <1>8. \A p \in Proc : Holder(p) = IF p = Main THEN {"primary"} ELSE {}
    BY <1>1 DEF Holder, Serving, Away, Service
  <1>9. Custodian!Init
    BY <1>8 DEF Custodian!Init, Init
  <1>. QED
    BY <1>4, <1>5, <1>6, <1>7, <1>9 DEF CustodyInv

(* Every step keeps the invariant and is a step of Custody, or a stutter.  *)
LEMMA StepKept ==
  ASSUME Before, [Next]_vars
  PROVE  Kept
  <1>1. CASE UNCHANGED vars
    <2>1. UNCHANGED <<pc, status, worker, call, owed>>
      BY <1>1 DEF vars, procvars
    <2>2. \A q \in Proc : QuietPrim(q) /\ QuietSec(q)
      BY <2>1 DEF QuietPrim, QuietSec
    <2>3. CallStep /\ StarterStep
      BY <2>1 DEF CallStep, StarterStep
    <2>4. CustodyInv'
      BY <2>1, <2>2, <2>3, QuietStep DEF Before, Quiet
    <2>5. TypeOK'
      BY <1>1 DEF Before, TypeOK, vars, procvars, listvars
    <2>. QED
      BY <2>1, <2>2, <2>4, <2>5, Stutters DEF Kept
  <1>2. CASE Next
    <2>1. ASSUME NEW k \in Kind, Dispatch(k) PROVE Kept
      BY <2>1, DispatchKept
    <2>2. CASE Request(Dispatcher)
      BY <2>2, RequestKept, Names
    <2>3. ASSUME NEW p \in Proc, Run(p) PROVE Kept
      BY <2>3, BumpKept, AwayKept, ProtectKept, TryStartKept DEF Run, GrowHeap
    <2>4. ASSUME NEW p \in Proc, Yield(p) \/ ForeignReturn(p) \/ ParkTimeout(p) PROVE Kept
      BY <2>4, CodeKept, AwayKept
    <2>5. ASSUME NEW p \in Proc, Proceed(p) PROVE Kept
      <3>1. CASE Request(Prim(p))
        BY <3>1, RequestKept, Names
      <3>2. CASE Serve(p, Prim(p))
        BY <3>2, PrimServes
      <3>3. CASE Restore(p) \/ Check(p) \/ Resume(p) \/ ProtectEnd(p)
        BY <3>3, CodeKept
      <3>8. CASE \/ Grow(p) \/ GrowStack(p) \/ StackOverflow(p) \/ LookLimit(p)
                 \/ WriteLimit(p, "zero") \/ WriteLimit(p, "fill")
        BY <3>8, BumpKept, LimitKept DEF Grow
      <3>4. CASE Park(p) \/ ExitProcessor(p)
        BY <3>4, AwayKept
      <3>5. CASE Deactivate(p)
        BY <3>5, DeactivateKept
      <3>6. CASE InitProcessor(p)
        BY <3>6, InitProcessorKept
      <3>7. CASE StopSecondary(p) \/ Join(p) \/ Unlist(p) \/ Free(p)
        BY <3>7, StopSecondaryKept, JoinKept, UnlistKept, FreeKept
      <3>. QED
        BY <2>5, <3>1, <3>2, <3>3, <3>4, <3>5, <3>6, <3>7, <3>8 DEF Proceed
    <2>6. ASSUME NEW p \in Proc, Secondary(p) PROVE Kept
      BY <2>6, SecondaryKept, SecServes DEF Secondary
    <2>7. ASSUME NEW p \in Proc, Spurious(p) PROVE Kept
      BY <2>7, SpuriousKept
    <2>8. CASE WaitProcessors \/ RuntimeDestroy
      BY <2>8, MainKept
    <2>9. CASE Gone
      BY <1>1, <2>9 DEF Gone
    <2>. QED
      BY <1>2, <2>1, <2>2, <2>3, <2>4, <2>5, <2>6, <2>7, <2>8, <2>9 DEF Next
  <1>. QED
    BY <1>1, <1>2

-----------------------------------------------------------------------------
(* The invariant holds in every state, whoever starts, asks and exits.     *)
THEOREM CustodyInvariant == Spec => [](TypeOK /\ CustodyInv)
  <1>1. Init => TypeOK /\ CustodyInv
    BY InitHolds
  <1>2. TypeOK /\ CustodyInv /\ [Next]_vars => (TypeOK /\ CustodyInv)'
    BY StepKept DEF Before, Kept
  <1>. QED
    BY <1>1, <1>2, PTL DEF Spec

(* The variables of the workers always have their types.                   *)
THEOREM ProcessorTypeCorrect == Spec => []TypeOK
  BY CustodyInvariant, PTL

(* The secondary worker serves requests only while the primary one is away *)
(* from compiled code (secondaryActivate, secondaryDeactivate).            *)
THEOREM OneWorkerServes == Spec => []OneWorker
  <1>1. CustodyInv => OneWorker
    <2>. SUFFICES ASSUME CustodyInv, NEW p \in Proc, Serving(p)
                  PROVE  pc[Prim(p)] \in Away
      BY DEF OneWorker
    <2>. QED
      BY DEF CustodyInv, Told, ToldOf, Serving, Busy
  <1>. QED
    BY <1>1, CustodyInvariant, PTL

(* The assertions of secondaryActivate, secondaryDeactivate, secondaryStop *)
(* never fail.                                                             *)
THEOREM StatusHolds == Spec => []StatusAsserted
  <1>1. TypeOK /\ CustodyInv => StatusAsserted
    <2>. SUFFICES ASSUME TypeOK, CustodyInv, NEW p \in Proc
                  PROVE  /\ pc[Prim(p)] \in {"run", "stopSecondary"} => status[p] = "INACTIVE"
                         /\ pc[Prim(p)] \in {"deactivate", "deactivateWait"} => status[p] \in {"ACTIVE", "RUN"}
      BY DEF StatusAsserted
    <2>1. status[p] \in {"INACTIVE", "ACTIVE", "RUN", "STOP"} /\ ToldOf(p)
      BY DEF TypeOK, CustodyInv, Told
    <2>. QED
      BY <2>1 DEF ToldOf, Away, Late
  <1>. QED
    BY <1>1, CustodyInvariant, PTL

(* The workers keep the promise of Custody: a processor is in the hands of *)
(* one worker at a time, is laid down before it is taken, and a handshake  *)
(* is answered by the worker who holds it.                                 *)
THEOREM CustodyImplemented == Spec => ImplementsCustody
  <1>1. Init => Custodian!Init
    BY InitHolds
  <1>2. TypeOK /\ CustodyInv /\ [Next]_vars => [Custodian!Next]_(Custodian!vars)
    BY StepKept DEF Before, Kept, CustodyStep
  <1>. QED
    BY <1>1, <1>2, CustodyInvariant, PTL DEF Spec, ImplementsCustody, Custodian!Spec

-----------------------------------------------------------------------------
(* No request to a processor is lost, for any set of processors.           *)
(* RequestInv is inductive on top of CustodyInv; it implies RequestAlive,  *)
(* NotAsleep and NoLostWakeup.  Its parameter F holds the processors that  *)
(* may have forgotten an interrupt: with all of them it is an invariant,   *)
(* and without one of them it is kept by every step of NoLostInterrupt.    *)

(* Where the primary worker of a processor is that does not exist.         *)
Nowhere == {"off", "init", "destroy", "gone"}
(* A thread asks a processor it has found in the list it holds, itself, or *)
(* one the program has a reference to.                                     *)
Rightful(c) ==
  \/ call[c].kind = "NOTIFY"
  \/ call[c].kind = "SCAVENGE" /\ c = Prim(call[c].to) /\ call[c].rest = {}
  \/ /\ call[c].kind \notin {"NOTIFY", "SCAVENGE"}
     /\ listLock = c /\ {call[c].to} \cup call[c].rest \subseteq listed

ListInv ==
  /\ \A p \in Proc : p \in alive <=> pc[Prim(p)] \notin Nowhere
  /\ \A p \in listed : pc[Prim(p)] \notin Nowhere \cup {"free"}
  /\ owed \subseteq listed
  /\ \A c \in Caller : pc[c] \in Asking => Rightful(c)

(* A handshake is seen: its trigger is set, or a worker just serves it;    *)
(* and the limit of a processor that is not in F is zero wherever compiled *)
(* code comes next.                                                        *)
HeldOf(F, p) ==
  /\ interrupt[p] \/ pc[Prim(p)] = "slice" \/ pc[Sec(p)] = "slice"
  /\ p \notin F =>
       (pc[Prim(p)] \in Armed \/ (pc[Prim(p)] \in Asking /\ call[Prim(p)].then = "run") => ~hl[p])

HeldInv(F) == \A p \in owed : HeldOf(F, p)

(* Who was told to wake has no time left to sleep.                         *)
SleepOf(p) == (p \in told => ~timeout[p]) /\ (pc[Prim(p)] = "parked" => timeout[p])

SleepInv == \A p \in Proc : SleepOf(p)

(* Only one worker waits for the condition variable at a time, and it is   *)
(* the one the next signal is meant for.                                   *)
WakeOf(p) ==
  /\ pc[Prim(p)] = "deactivateWait" => status[p] = "RUN"
  /\ status[p] = "RUN" => pc[Sec(p)] \in Busy \cup {"top"}
  /\ interrupt[p] /\ status[p] = "ACTIVE" /\ pc[Sec(p)] = "secWait" =>
       \E c \in Caller : call[c].to = p /\ pc[c] \in {"limit", "wake"}

WakeInv == \A p \in Proc : WakeOf(p)

RequestInv(F) == ListInv /\ HeldInv(F) /\ SleepInv /\ WakeInv

-----------------------------------------------------------------------------
(* What leaves the parts of the invariant as they are.                     *)
ListFrame ==
  /\ UNCHANGED <<listed, listLock, alive, call>> /\ owed' \subseteq owed
  /\ \A p \in Proc : \/ pc'[Prim(p)] = pc[Prim(p)]
                     \/ {pc[Prim(p)], pc'[Prim(p)]} \cap (Nowhere \cup {"free"}) = {}
  /\ \A c \in Caller : pc'[c] \in Asking => pc[c] \in Asking

HeldFrame(p) ==
  /\ interrupt[p] => interrupt'[p]
  /\ hl'[p] => hl[p]
  /\ call'[Prim(p)] = call[Prim(p)]
  /\ pc[Prim(p)] = "slice" => pc'[Prim(p)] = "slice"
  /\ pc[Sec(p)] = "slice" => pc'[Sec(p)] = "slice"
  /\ pc'[Prim(p)] \in Armed => pc[Prim(p)] \in Armed
  /\ pc'[Prim(p)] \in Asking => pc[Prim(p)] \in Asking

SleepFrame(p) ==
  /\ p \in told' => p \in told
  /\ timeout'[p] = timeout[p]
  /\ pc'[Prim(p)] = "parked" => pc[Prim(p)] = "parked"

WakeFrame(p) ==
  /\ status'[p] = status[p]
  /\ interrupt'[p] => interrupt[p]
  /\ pc'[Prim(p)] = "deactivateWait" => pc[Prim(p)] = "deactivateWait"
  /\ pc[Sec(p)] \in Busy \cup {"top"} => pc'[Sec(p)] \in Busy \cup {"top"}
  /\ pc'[Sec(p)] = "secWait" => pc[Sec(p)] = "secWait"

(* Requests to p on their way go on.                                       *)
Afoot(p) ==
  \A c \in Caller :
    call[c].to = p /\ pc[c] \in {"limit", "wake"} => call'[c].to = p /\ pc'[c] \in {"limit", "wake"}

(* The frames keep the parts: the one for the list,                        *)
LEMMA ListKept ==
  ASSUME listed \subseteq Proc, ListInv, ListFrame
  PROVE  ListInv'
  <1>1. \A p \in Proc : pc'[Prim(p)] \in Nowhere <=> pc[Prim(p)] \in Nowhere
    BY DEF ListFrame
  <1>2. \A p \in Proc : pc'[Prim(p)] \in Nowhere \cup {"free"} <=> pc[Prim(p)] \in Nowhere \cup {"free"}
    BY DEF ListFrame
  <1>3. \A c \in Caller : pc'[c] \in Asking => Rightful(c)'
    BY DEF ListInv, ListFrame, Rightful
  <1>4. UNCHANGED <<listed, alive>> /\ owed' \subseteq owed
    BY DEF ListFrame
  <1>5. \A p \in listed : pc'[Prim(p)] \notin Nowhere \cup {"free"}
    BY <1>2 DEF ListInv
  <1>. QED
    BY <1>1, <1>3, <1>4, <1>5 DEF ListInv

(* the one for a handshake that is owed,                                   *)
LEMMA HeldOfKept ==
  ASSUME NEW F, NEW p \in Proc, HeldOf(F, p), HeldFrame(p)
  PROVE  HeldOf(F, p)'
  BY DEF HeldOf, HeldFrame

(* the one for a sleeper,                                                  *)
LEMMA SleepOfKept ==
  ASSUME NEW p \in Proc, SleepOf(p), SleepFrame(p)
  PROVE  SleepOf(p)'
  BY DEF SleepOf, SleepFrame

(* and the one for those who wait, while requests go on.                   *)
LEMMA WakeOfKept ==
  ASSUME NEW p \in Proc, WakeOf(p), WakeFrame(p), Afoot(p)
  PROVE  WakeOf(p)'
  <1>1. /\ pc'[Prim(p)] = "deactivateWait" => status'[p] = "RUN"
        /\ status'[p] = "RUN" => pc'[Sec(p)] \in Busy \cup {"top"}
    BY DEF WakeOf, WakeFrame
  <1>2. ASSUME interrupt'[p], status'[p] = "ACTIVE", pc'[Sec(p)] = "secWait"
        PROVE  \E c \in Caller : call'[c].to = p /\ pc'[c] \in {"limit", "wake"}
    <2>1. PICK c \in Caller : call[c].to = p /\ pc[c] \in {"limit", "wake"}
      BY <1>2 DEF WakeOf, WakeFrame
    <2>. QED
      BY <2>1 DEF Afoot
  <1>. QED
    BY <1>1, <1>2 DEF WakeOf

(* A thread goes to its next place; the others stay.                       *)
LEMMA Goes ==
  ASSUME Places(pc), NEW t \in Thread \cup {Dispatcher}, NEW l, Goto(t, l)
  PROVE  pc'[t] = l /\ \A u \in Thread \cup {Dispatcher} : u # t => pc'[u] = pc[u]
  BY DEF Goto, Places

(* The workers and those who ask are threads.                              *)
LEMMA Threads ==
  /\ \A p \in Proc : Prim(p) \in Thread \cup {Dispatcher} /\ Sec(p) \in Thread \cup {Dispatcher}
  /\ \A c \in Caller : c \in Thread \cup {Dispatcher} /\ \A p \in Proc : c # Sec(p)
  BY Names

(* A worker goes on: it does not sleep, wait, ask, or end; and it comes to *)
(* compiled code only from where the heap limit has been seen to.          *)
Steady(k, l) ==
  /\ {k, l} \cap (Nowhere \cup {"free"}) = {}
  /\ k \notin {"limit", "wake"}
  /\ l \notin {"parked", "deactivateWait", "secWait"}
  /\ l \in Asking => k \in Asking

Calm(k, l) == Steady(k, l) /\ k # "slice" /\ (l \in Armed => k \in Armed)

(* A secondary worker that stands in goes on to do so.                     *)
Stands(t, l) == \A p \in Proc : t = Sec(p) /\ pc[t] \in Busy \cup {"top"} => l \in Busy \cup {"top"}

(* A calm step keeps every part.                                           *)
LEMMA CalmStep ==
  ASSUME NEW F, Before, RequestInv(F), NEW t \in Thread \cup {Dispatcher}, NEW l, Goto(t, l), Calm(pc[t], l), Stands(t, l),
         UNCHANGED <<status, interrupt, timeout, listed, listLock, alive, call, owed, told>>,
         \A p \in Proc : (hl'[p] => hl[p]) \/ (t = Prim(p) /\ l \notin Armed \cup Asking)
  PROVE  RequestInv(F)'
  <1>1. pc'[t] = l /\ \A u \in Thread \cup {Dispatcher} : u # t => pc'[u] = pc[u]
    BY Goes, TypeParts DEF Before
  <1>2. ListFrame
    BY <1>1, Threads DEF ListFrame, Calm, Steady
  <1>3. ASSUME NEW p \in owed PROVE HeldOf(F, p)'
    <2>1. p \in Proc /\ HeldOf(F, p)
      BY TypeParts DEF RequestInv, HeldInv, Before, Types
    <2>2. CASE hl'[p] => hl[p]
      <3>1. HeldFrame(p)
        BY <1>1, <2>1, <2>2, Threads DEF HeldFrame, Calm, Steady
      <3>. QED
        BY <2>1, <3>1, HeldOfKept
    <2>3. CASE t = Prim(p) /\ l \notin Armed \cup Asking
      <3>1. pc'[Prim(p)] = l /\ pc'[Sec(p)] = pc[Sec(p)] /\ pc[Prim(p)] # "slice"
        BY <1>1, <2>1, <2>3, Threads, Names DEF Calm
      <3>. QED
        BY <2>1, <2>3, <3>1 DEF HeldOf
    <2>. QED
      BY <2>1, <2>2, <2>3
  <1>4. \A p \in Proc : SleepFrame(p)
    BY <1>1, Threads DEF SleepFrame, Calm, Steady
  <1>5. \A p \in Proc : WakeFrame(p)
    BY <1>1, Threads DEF WakeFrame, Calm, Steady, Stands
  <1>6. \A q \in Proc : Afoot(q)
    BY <1>1, Threads DEF Afoot, Calm, Steady
  <1>7. listed \subseteq Proc
    BY TypeParts DEF Before, Types
  <1>. QED
    BY <1>2, <1>3, <1>4, <1>5, <1>6, <1>7, ListKept, SleepOfKept, WakeOfKept
    DEF RequestInv, HeldInv, SleepInv, WakeInv

(* A steady step of a worker of p keeps what it does not disturb.          *)
LEMMA SteadyStep ==
  ASSUME NEW F, Before, RequestInv(F), NEW p \in Proc, NEW t \in {Prim(p), Sec(p)}, NEW l,
         Goto(t, l), Steady(pc[t], l), Stands(t, l),
         UNCHANGED <<status, timeout, listed, listLock, alive, call, told>>, owed' \subseteq owed,
         \A q \in Proc \ {p} : hl'[q] = hl[q] /\ interrupt'[q] = interrupt[q],
         interrupt'[p] => interrupt[p],
         p \in owed' => HeldOf(F, p)'
  PROVE  RequestInv(F)'
  <1>1. pc'[t] = l /\ \A u \in Thread \cup {Dispatcher} : u # t => pc'[u] = pc[u]
    BY Goes, TypeParts, Threads DEF Before
  <1>2. ListFrame
    BY <1>1, Threads DEF ListFrame, Steady
  <1>3. ASSUME NEW q \in owed' PROVE HeldOf(F, q)'
    <2>1. q \in Proc /\ HeldOf(F, q)
      BY TypeParts DEF RequestInv, HeldInv, Before, Types
    <2>2. CASE q # p
      <3>1. pc'[Prim(q)] = pc[Prim(q)] /\ pc'[Sec(q)] = pc[Sec(q)]
        BY <1>1, <2>1, <2>2, Threads, Names
      <3>2. HeldFrame(q)
        BY <2>1, <2>2, <3>1 DEF HeldFrame
      <3>. QED
        BY <2>1, <3>2, HeldOfKept
    <2>. QED
      BY <2>2
  <1>4. \A q \in Proc : SleepFrame(q)
    BY <1>1, Threads DEF SleepFrame, Steady
  <1>5. \A q \in Proc : WakeFrame(q)
    BY <1>1, Threads DEF WakeFrame, Steady, Stands
  <1>6. \A q \in Proc : Afoot(q)
    BY <1>1, Threads DEF Afoot, Steady
  <1>7. listed \subseteq Proc
    BY TypeParts DEF Before, Types
  <1>. QED
    BY <1>2, <1>3, <1>4, <1>5, <1>6, <1>7, ListKept, SleepOfKept, WakeOfKept
    DEF RequestInv, HeldInv, SleepInv, WakeInv

(* Where the primary worker itself goes on, nobody else serves.            *)
LEMMA Seen ==
  ASSUME NEW F, Before, RequestInv(F), NEW p \in owed, pc[Prim(p)] \notin Away \cup {"slice"}
  PROVE  interrupt[p]
  <1>1. p \in Proc /\ HeldOf(F, p) /\ ToldOf(p)
    BY TypeParts DEF Before, RequestInv, HeldInv, Types, CustodyInv, Told
  <1>2. pc[Sec(p)] \notin Busy
    BY <1>1 DEF ToldOf
  <1>. QED
    BY <1>1, <1>2 DEF HeldOf, Busy, Service

(* The service routine.                                                    *)
LEMMA ServeKeeps ==
  ASSUME NEW F, Before, RequestInv(F), NEW p \in Proc, NEW t \in {Prim(p), Sec(p)}, Serve(p, t)
  PROVE  RequestInv(F)'
  <1>. Places(pc) /\ Types
    BY TypeParts DEF Before
  <1>0. t \in Thread \cup {Dispatcher} /\ Prim(p) # Sec(p)
    BY Threads, Names
  <1>1. CASE ServiceLoop(p, t)
    <2>1. UNCHANGED <<status, interrupt, hl, timeout, listed, listLock, alive, call, owed, told>>
      BY <1>1 DEF ServiceLoop, procvars, listvars
    <2>2. CASE interrupt[p] \/ t = Sec(p)
      <3>1. PICK l \in {"clear", "leave"} : Goto(t, l)
        BY <1>0, <1>1, <2>2 DEF ServiceLoop
      <3>2. Calm(pc[t], l) /\ Stands(t, l)
        BY <1>1 DEF ServiceLoop, Calm, Steady, Stands, Nowhere, Armed, Away, Asking, Busy, Service
      <3>. QED
        BY <1>0, <2>1, <3>1, <3>2, CalmStep
    <2>3. CASE ~interrupt[p] /\ t = Prim(p)
      <3>1. Goto(t, "restore") /\ pc[t] = "loop"
        BY <1>1, <2>3 DEF ServiceLoop
      <3>2. p \notin owed
        BY <2>3, <3>1, Seen DEF Away
      <3>3. Steady(pc[t], "restore") /\ Stands(t, "restore")
        BY <2>3, <3>1, Names DEF Steady, Stands, Nowhere, Asking
      <3>. QED
        BY <2>1, <3>1, <3>2, <3>3, SteadyStep
    <2>. QED
      BY <2>2, <2>3
  <1>2. CASE ServiceClear(p, t)
    <2>1. /\ UNCHANGED <<status, hl, timeout, listed, listLock, alive, call, owed, told>>
          /\ pc[t] = "clear" /\ Goto(t, "slice") /\ interrupt' = [interrupt EXCEPT ![p] = FALSE]
      BY <1>2 DEF ServiceClear, listvars
    <2>2. Steady(pc[t], "slice") /\ Stands(t, "slice")
      BY <2>1 DEF Steady, Stands, Nowhere, Asking, Busy, Service
    <2>3. ASSUME p \in owed' PROVE HeldOf(F, p)'
      <3>1. pc'[t] = "slice" /\ \A u \in Thread \cup {Dispatcher} : u # t => pc'[u] = pc[u]
        BY <1>0, <2>1, Goes
      <3>2. HeldOf(F, p)
        BY <2>1, <2>3 DEF RequestInv, HeldInv
      <3>3. CASE t = Prim(p)
        BY <3>1, <3>3 DEF HeldOf, Armed, Away, Asking
      <3>4. CASE t = Sec(p)
        <4>1. pc'[Prim(p)] = pc[Prim(p)] /\ pc'[Sec(p)] = "slice"
          BY <1>0, <3>1, <3>4, Threads
        <4>. QED
          BY <2>1, <3>2, <4>1 DEF HeldOf
      <3>. QED
        BY <3>3, <3>4
    <2>4. /\ \A q \in Proc \ {p} : interrupt'[q] = interrupt[q]
          /\ ~interrupt'[p]
      BY <2>1 DEF Types
    <2>. QED
      BY <2>1, <2>2, <2>3, <2>4, SteadyStep
  <1>3. CASE ServiceSlice(p, t)
    <2>1. /\ UNCHANGED <<status, interrupt, hl, timeout, listed, listLock, alive, call, told>>
          /\ pc[t] = "slice" /\ Goto(t, "serviced") /\ owed' = owed \ {p}
      BY <1>3 DEF ServiceSlice, listvars
    <2>2. Steady(pc[t], "serviced") /\ Stands(t, "serviced")
      BY <2>1 DEF Steady, Stands, Nowhere, Asking, Busy, Service
    <2>. QED
      BY <2>1, <2>2, SteadyStep
  <1>4. CASE ServiceExit(p, t)
    <2>1. UNCHANGED <<status, interrupt, hl, timeout, listed, listLock, alive, call, owed, told>>
      BY <1>4 DEF ServiceExit, procvars, listvars
    <2>2. pc[t] = "serviced" /\ (t = Sec(p) => worker[p] = "secondary")
      BY <1>4 DEF ServiceExit, Before, CustodyInv, Told, ToldOf, Service
    <2>3. PICK l \in {"exit", "loop"} : Goto(t, l) /\ (t = Sec(p) => l = "loop")
      BY <1>4, <2>2 DEF ServiceExit
    <2>4. Calm(pc[t], l) /\ Stands(t, l)
      BY <1>0, <2>2, <2>3, Names DEF Calm, Steady, Stands, Nowhere, Armed, Away, Asking, Busy, Service
    <2>. QED
      BY <1>0, <2>1, <2>3, <2>4, CalmStep
  <1>. QED
    BY <1>1, <1>2, <1>3, <1>4 DEF Serve

-----------------------------------------------------------------------------
(* chiProcessorRequest: a request begins, by one who may make it.          *)
LEMMA BeginKeeps ==
  ASSUME NEW F, Before, RequestInv(F), NEW c \in Caller, NEW kind, NEW S, S \subseteq Proc, NEW l,
         Begin(c, kind, S, l), Goto(c, "request"),
         pc[c] \notin Asking \cup Nowhere \cup {"free", "slice"},
         l = "run" => pc[c] \in Armed,
         UNCHANGED <<procvars, listed, alive, owed, told>>,
         \/ kind = "NOTIFY" /\ listLock' = listLock
         \/ kind = "SCAVENGE" /\ (\A q \in S : c = Prim(q)) /\ (\A q \in S : S = {q}) /\ listLock' = listLock
         \/ kind \notin {"NOTIFY", "SCAVENGE"} /\ S \subseteq listed /\ listLock = Null /\ listLock' = c
  PROVE  RequestInv(F)'
  <1>. Places(pc) /\ Types
    BY TypeParts DEF Before
  <1>1. pc'[c] = "request" /\ \A u \in Thread \cup {Dispatcher} : u # c => pc'[u] = pc[u]
    BY Goes, Threads
  <1>2. PICK q \in S : call' = [call EXCEPT ![c] = [kind |-> kind, to |-> q, rest |-> S \ {q}, then |-> l]]
    BY DEF Begin
  <1>3. /\ call'[c] = [kind |-> kind, to |-> q, rest |-> S \ {q}, then |-> l]
        /\ \A d \in Caller : d # c => call'[d] = call[d]
    BY <1>2 DEF Types
  <1>4. ListInv'
    <2>1. \A p \in Proc : pc'[Prim(p)] \in Nowhere \cup {"free"} <=> pc[Prim(p)] \in Nowhere \cup {"free"}
      BY <1>1, Threads DEF Nowhere
    <2>2. \A p \in Proc : pc'[Prim(p)] \in Nowhere <=> pc[Prim(p)] \in Nowhere
      BY <1>1, Threads DEF Nowhere
    <2>3. Rightful(c)'
      BY <1>3 DEF Rightful
    <2>4. ASSUME NEW d \in Caller, d # c, pc'[d] \in Asking PROVE Rightful(d)'
      <3>1. Rightful(d) /\ call'[d] = call[d] /\ listed' = listed
        BY <1>1, <1>3, <2>4, Threads DEF RequestInv, ListInv
      <3>2. listLock' = listLock \/ listLock = Null
        OBVIOUS
      <3>. QED
        BY <3>1, <3>2, NullAssumption DEF Rightful
    <2>. QED
      BY <2>1, <2>2, <2>3, <2>4 DEF RequestInv, ListInv, Types
  <1>5. ASSUME NEW p \in owed' PROVE HeldOf(F, p)'
    <2>1. p \in Proc /\ HeldOf(F, p) /\ UNCHANGED <<interrupt, hl>>
      BY DEF RequestInv, HeldInv, Types, procvars
    <2>2. pc'[Sec(p)] = pc[Sec(p)]
      BY <1>1, <2>1, Threads
    <2>3. CASE c = Prim(p)
      <3>1. pc[Prim(p)] # "slice" /\ pc'[Prim(p)] = "request" /\ call'[Prim(p)].then = l
        BY <1>1, <1>3, <2>3
      <3>. QED
        BY <2>1, <2>2, <2>3, <3>1 DEF HeldOf, Armed, Away
    <2>4. CASE c # Prim(p)
      <3>1. pc'[Prim(p)] = pc[Prim(p)] /\ call'[Prim(p)] = call[Prim(p)]
        BY <1>1, <1>3, <2>1, <2>4, Threads, Names
      <3>. QED
        BY <2>1, <2>2, <3>1 DEF HeldOf
    <2>. QED
      BY <2>3, <2>4
  <1>6. \A p \in Proc : SleepFrame(p)
    BY <1>1, Threads DEF SleepFrame, procvars
  <1>7. \A p \in Proc : WakeFrame(p)
    BY <1>1, Threads DEF WakeFrame, procvars
  <1>8. \A p \in Proc : Afoot(p)
    BY <1>1, <1>3, Threads DEF Afoot, Asking
  <1>. QED
    BY <1>4, <1>5, <1>6, <1>7, <1>8, SleepOfKept, WakeOfKept
    DEF RequestInv, HeldInv, SleepInv, WakeInv

(* The request goes on to the next processor, or back.                     *)
LEMMA NextKeeps ==
  ASSUME NEW F, Before, RequestInv(F), NEW c \in Caller, RequestNext(c)
  PROVE  RequestInv(F)'
  <1>. Places(pc) /\ Types
    BY TypeParts DEF Before
  <1>1. /\ pc[c] = "next" /\ Sound(call[c], c) /\ Rightful(c) /\ call[c] \in CallRecords
        /\ UNCHANGED <<procvars, listed, alive, owed, told>>
    BY DEF RequestNext, Before, CustodyInv, Calls, Asking, RequestInv, ListInv, Types
  <1>2. PICK l : /\ Goto(c, l)
                 /\ \/ /\ l = "request" /\ listLock' = listLock
                       /\ Begin(c, call[c].kind, call[c].rest, call[c].then)
                    \/ /\ l = call[c].then /\ call' = [call EXCEPT ![c] = NoCall]
                       /\ listLock' = IF listLock = c THEN Null ELSE listLock
    BY DEF RequestNext
  <1>3. pc'[c] = l /\ \A u \in Thread \cup {Dispatcher} : u # c => pc'[u] = pc[u]
    BY <1>2, Goes, Threads
  <1>4. l \notin Nowhere \cup {"free", "parked", "deactivateWait", "slice"}
    BY <1>1, <1>2 DEF CallRecords, Nowhere
  <1>5. /\ \A d \in Caller : d # c => call'[d] = call[d]
        /\ l = "request" => /\ call'[c].kind = call[c].kind /\ call'[c].then = call[c].then
                            /\ {call'[c].to} \cup call'[c].rest \subseteq call[c].rest
                            /\ listLock' = listLock
    <2>1. CASE Begin(c, call[c].kind, call[c].rest, call[c].then) /\ listLock' = listLock
      <3>1. PICK q \in call[c].rest :
              call' = [call EXCEPT ![c] = [kind |-> call[c].kind, to |-> q, rest |-> call[c].rest \ {q},
                                           then |-> call[c].then]]
        BY <2>1 DEF Begin
      <3>. QED
        BY <2>1, <3>1 DEF Types
    <2>2. CASE l = call[c].then /\ call' = [call EXCEPT ![c] = NoCall]
      BY <1>1, <2>2 DEF Types, CallRecords
    <2>. QED
      BY <1>2, <2>1, <2>2
  <1>6. l \in Asking => l = "request"
    BY <1>1, <1>2 DEF CallRecords, Asking
  <1>7. ListInv'
    <2>1. \A p \in Proc : pc'[Prim(p)] \in Nowhere \cup {"free"} <=> pc[Prim(p)] \in Nowhere \cup {"free"}
      BY <1>1, <1>3, <1>4, Threads DEF Nowhere
    <2>2. \A p \in Proc : pc'[Prim(p)] \in Nowhere <=> pc[Prim(p)] \in Nowhere
      BY <1>1, <1>3, <1>4, Threads DEF Nowhere
    <2>3. pc'[c] \in Asking => Rightful(c)'
      BY <1>1, <1>3, <1>5, <1>6 DEF Rightful
    <2>4. ASSUME NEW d \in Caller, d # c, pc'[d] \in Asking PROVE Rightful(d)'
      <3>1. Rightful(d) /\ call'[d] = call[d] /\ listed' = listed
        BY <1>1, <1>3, <1>5, <2>4, Threads DEF RequestInv, ListInv
      <3>2. listLock' = listLock \/ listLock = c
        BY <1>2
      <3>. QED
        BY <2>4, <3>1, <3>2 DEF Rightful
    <2>. QED
      BY <1>1, <2>1, <2>2, <2>3, <2>4 DEF RequestInv, ListInv, Types
  <1>8. ASSUME NEW p \in owed' PROVE HeldOf(F, p)'
    <2>1. p \in Proc /\ HeldOf(F, p) /\ UNCHANGED <<interrupt, hl>>
      BY <1>1 DEF RequestInv, HeldInv, Types, procvars
    <2>2. pc'[Sec(p)] = pc[Sec(p)]
      BY <1>3, <2>1, Threads
    <2>3. CASE c = Prim(p)
      <3>1. l \in Armed => call[c].then = "run"
        BY <1>1, <1>2 DEF CallRecords, Armed, Away
      <3>2. pc[Prim(p)] \in Asking /\ pc[Prim(p)] # "slice"
        BY <1>1, <2>3 DEF Asking
      <3>. QED
        BY <1>3, <1>5, <1>6, <2>1, <2>2, <2>3, <3>1, <3>2 DEF HeldOf
    <2>4. CASE c # Prim(p)
      <3>1. pc'[Prim(p)] = pc[Prim(p)] /\ call'[Prim(p)] = call[Prim(p)]
        BY <1>3, <1>5, <2>1, <2>4, Threads, Names
      <3>. QED
        BY <2>1, <2>2, <3>1 DEF HeldOf
    <2>. QED
      BY <2>3, <2>4
  <1>9. \A p \in Proc : SleepFrame(p)
    BY <1>1, <1>3, <1>4, Threads DEF SleepFrame, procvars
  <1>10. \A p \in Proc : WakeFrame(p)
    BY <1>1, <1>3, <1>4, Threads DEF WakeFrame, procvars
  <1>11. \A p \in Proc : Afoot(p)
    BY <1>1, <1>3, <1>5, Threads DEF Afoot
  <1>. QED
    BY <1>7, <1>8, <1>9, <1>10, <1>11, SleepOfKept, WakeOfKept
    DEF RequestInv, HeldInv, SleepInv, WakeInv

(* interruptProcessor: the trigger is set before the heap limit is zeroed. *)
LEMMA InterruptKeeps ==
  ASSUME NEW F, Before, RequestInv(F), NEW c \in Caller, RequestLock(c) \/ RequestInterrupt(c) \/ RequestLimit(c)
  PROVE  RequestInv(F)'
  <1>. Places(pc) /\ Types
    BY TypeParts DEF Before
  <1>. DEFINE q == call[c].to
  <1>1. PICK l \in {"next", "interrupt", "limit", "wake"} :
          /\ Goto(c, l)
          /\ pc[c] = "interrupt" => l = "limit"
          /\ pc[c] = "limit" => l = "wake"
    BY DEF RequestLock, RequestInterrupt, RequestLimit
  <1>2. pc'[c] = l /\ \A u \in Thread \cup {Dispatcher} : u # c => pc'[u] = pc[u]
    BY <1>1, Goes, Threads
  <1>3. pc[c] \in {"request", "interrupt", "limit"} /\ q \in Proc /\ Rightful(c)
    BY DEF RequestLock, RequestInterrupt, RequestLimit, Before, CustodyInv, Calls, Sound, Asking, RequestInv, ListInv
  <1>4. UNCHANGED <<status, timeout, listed, listLock, alive, call, told>>
    BY DEF RequestLock, RequestInterrupt, RequestLimit, listvars
  <1>5. /\ \A p \in Proc : interrupt[p] => interrupt'[p]
        /\ \A p \in Proc : hl'[p] => hl[p]
        /\ \A p \in Proc \ {q} : interrupt'[p] = interrupt[p]
        /\ interrupt'[q] = interrupt[q] \/ l = "limit"
    <2>1. CASE RequestLock(c)
      BY <2>1 DEF RequestLock
    <2>2. CASE RequestInterrupt(c)
      <3>1. interrupt' = [interrupt EXCEPT ![q] = TRUE] /\ hl' = hl /\ l = "limit"
        BY <1>1, <2>2 DEF RequestInterrupt
      <3>. QED
        BY <1>3, <3>1 DEF Types
    <2>3. CASE RequestLimit(c)
      <3>1. interrupt' = interrupt /\ hl' = [hl EXCEPT ![q] = FALSE]
        BY <2>3 DEF RequestLimit
      <3>. QED
        BY <1>3, <3>1 DEF Types
    <2>. QED
      BY <2>1, <2>2, <2>3
  <1>6. \/ owed' = owed
        \/ owed' = owed \cup {q} /\ q \in listed /\ interrupt'[q] /\ ~hl'[q]
    <2>1. CASE RequestLock(c) \/ RequestInterrupt(c)
      BY <2>1 DEF RequestLock, RequestInterrupt
    <2>2. CASE RequestLimit(c)
      <3>1. hl' = [hl EXCEPT ![q] = FALSE] /\ interrupt' = interrupt
        BY <2>2 DEF RequestLimit
      <3>2. ~hl'[q]
        BY <1>3, <3>1 DEF Types
      <3>3. owed' = owed \/ (owed' = owed \cup {q} /\ call[c].kind = "HANDSHAKE" /\ interrupt[q])
        BY <2>2 DEF RequestLimit
      <3>. QED
        BY <1>3, <3>1, <3>2, <3>3 DEF Rightful
    <2>. QED
      BY <2>1, <2>2
  <1>. HIDE DEF q
  <1>7. ListInv'
    <2>1. \A p \in Proc : pc'[Prim(p)] = pc[Prim(p)] \/ {pc[Prim(p)], pc'[Prim(p)]} \cap (Nowhere \cup {"free"}) = {}
      BY <1>2, <1>3, Threads DEF Nowhere
    <2>2. \A d \in Caller : pc'[d] \in Asking => Rightful(d)'
      BY <1>2, <1>3, <1>4, Threads DEF Rightful, RequestInv, ListInv
    <2>3. owed' \subseteq listed'
      BY <1>4, <1>6 DEF RequestInv, ListInv
    <2>. QED
      BY <1>4, <2>1, <2>2, <2>3 DEF RequestInv, ListInv, Types
  <1>8. ASSUME NEW p \in owed' PROVE HeldOf(F, p)'
    <2>1. CASE p \in owed
      <3>1. p \in Proc /\ HeldOf(F, p)
        BY <2>1 DEF RequestInv, HeldInv, Types
      <3>2. HeldFrame(p)
        BY <1>2, <1>3, <1>4, <1>5, <3>1, Threads DEF HeldFrame, Armed, Away, Asking
      <3>. QED
        BY <3>1, <3>2, HeldOfKept
    <2>2. CASE p \notin owed
      BY <1>6, <2>2 DEF HeldOf
    <2>. QED
      BY <2>1, <2>2
  <1>9. \A p \in Proc : SleepFrame(p)
    BY <1>2, <1>4, Threads DEF SleepFrame
  <1>10. \A p \in Proc : Afoot(p)
    BY <1>1, <1>2, <1>3, <1>4, Threads DEF Afoot
  <1>11. ASSUME NEW p \in Proc PROVE WakeOf(p)'
    <2>1. /\ WakeOf(p) /\ status' = status /\ pc'[Sec(p)] = pc[Sec(p)]
          /\ pc'[Prim(p)] = "deactivateWait" => pc[Prim(p)] = "deactivateWait"
      BY <1>2, <1>4, Threads DEF RequestInv, WakeInv
    <2>2. CASE interrupt'[p] = interrupt[p]
      <3>1. WakeFrame(p)
        BY <2>1, <2>2 DEF WakeFrame
      <3>. QED
        BY <1>10, <2>1, <3>1, WakeOfKept
    <2>3. CASE interrupt'[p] # interrupt[p]
      <3>1. p = q /\ pc'[c] = "limit" /\ call'[c].to = p
        BY <1>2, <1>4, <1>5, <2>3 DEF q
      <3>. QED
        BY <2>1, <3>1 DEF WakeOf
    <2>. QED
      BY <2>2, <2>3
  <1>. QED
    BY <1>7, <1>8, <1>9, <1>11, SleepOfKept DEF RequestInv, HeldInv, SleepInv, WakeInv

(* A signal wakes one of those who wait, if anybody does.                  *)
LEMMA SignalCases ==
  ASSUME Places(pc), NEW p \in Proc, NEW f, Places(f), Signal(p, f)
  PROVE  \/ /\ pc[Prim(p)] # "deactivateWait" /\ pc[Sec(p)] # "secWait" /\ pc' = f
         \/ /\ pc[Prim(p)] = "deactivateWait" /\ pc'[Prim(p)] = "deactivate"
            /\ \A u \in Thread \cup {Dispatcher} : u # Prim(p) => pc'[u] = f[u]
         \/ /\ pc[Sec(p)] = "secWait" /\ pc'[Sec(p)] = "top"
            /\ \A u \in Thread \cup {Dispatcher} : u # Sec(p) => pc'[u] = f[u]
  <1>1. CASE Waiting(p) = {}
    BY <1>1 DEF Waiting, Signal
  <1>2. CASE Waiting(p) # {}
    <2>1. PICK t \in Waiting(p) : pc' = [f EXCEPT ![t] = Awake(pc[t])]
      BY <1>2 DEF Signal
    <2>2. t \in Thread \cup {Dispatcher} /\ t \in {Prim(p), Sec(p)} /\ pc[t] \in {"deactivateWait", "secWait"}
      BY <2>1, Threads DEF Waiting
    <2>3. pc'[t] = Awake(pc[t]) /\ \A u \in Thread \cup {Dispatcher} : u # t => pc'[u] = f[u]
      BY <2>1, <2>2 DEF Places
    <2>4. CASE t = Prim(p)
      <3>1. pc[t] # "secWait"
        BY <2>4 DEF Places, ProcPC, Service, Away, Stopping
      <3>. QED
        BY <2>2, <2>3, <2>4, <3>1 DEF Awake
    <2>5. CASE t = Sec(p)
      <3>1. pc[t] # "deactivateWait"
        BY <2>5 DEF Places, SecPC, Service
      <3>. QED
        BY <2>2, <2>3, <2>5, <3>1 DEF Awake
    <2>. QED
      BY <2>2, <2>4, <2>5
  <1>. QED
    BY <1>1, <1>2

(* In which order the workers wait: not both at once, while the status is  *)
(* ACTIVE only the secondary one.                                          *)
LEMMA WaitsAlone ==
  ASSUME NEW F, RequestInv(F), NEW p \in Proc
  PROVE  pc[Prim(p)] = "deactivateWait" => status[p] = "RUN" /\ pc[Sec(p)] # "secWait"
  BY DEF RequestInv, WakeInv, WakeOf, Busy, Service

(* The sleepers wake: the request ends a suspension, and signals the       *)
(* secondary worker where it stands in.                                    *)
LEMMA WakeKeeps ==
  ASSUME NEW F, Before, RequestInv(F), NEW c \in Caller, RequestWake(c)
  PROVE  RequestInv(F)'
  <1>. Places(pc) /\ Types
    BY TypeParts DEF Before
  <1>. DEFINE q == call[c].to
              g == [pc EXCEPT ![c] = "next"]
              f == Rouse(c, g)
              ends == call[c].kind \in {"USER", "NOTIFY", "EXIT"}
  <1>1. /\ pc[c] = "wake" /\ q \in Proc
        /\ timeout' = [timeout EXCEPT ![q] = @ /\ ~ends]
        /\ told' = told \cup (IF ends THEN {q} ELSE {})
        /\ UNCHANGED <<status, interrupt, hl, listed, listLock, alive, call, owed>>
    BY DEF RequestWake, Before, CustodyInv, Calls, Sound, Asking, listvars
  <1>2. /\ g[c] = "next" /\ \A u \in Thread \cup {Dispatcher} : u # c => g[u] = pc[u]
        /\ g \in [Thread \cup {Dispatcher} -> ProcPC \cup SecPC \cup {"idle"}]
    BY Threads DEF Places, ProcPC
  <1>3. Places(g)
    <2>1. "next" \in ProcPC /\ "next" \in DispatcherPC
      BY DEF ProcPC, DispatcherPC
    <2>. QED
      BY <1>2, <2>1, Threads DEF Places
  <1>4. /\ f[c] = "next"
        /\ \A u \in Thread \cup {Dispatcher} : u \notin {c, Prim(q)} => f[u] = pc[u]
        /\ Prim(q) # c => f[Prim(q)] = IF ends /\ timeout[q] /\ pc[Prim(q)] = "parked"
                                       THEN "park" ELSE pc[Prim(q)]
        /\ Places(f)
    <2>1. CASE ends /\ timeout[q] /\ pc[Prim(q)] = "parked"
      <3>1. f = [g EXCEPT ![Prim(q)] = "park"] /\ Prim(q) # c
        BY <1>1, <2>1 DEF Rouse
      <3>2. "park" \in ProcPC
        BY DEF ProcPC, Away
      <3>. HIDE DEF f, g, q, ends
      <3>3. Places(f)
        BY <1>1, <1>3, <3>1, <3>2, PrimMoves
      <3>4. f[Prim(q)] = "park" /\ \A u \in Thread \cup {Dispatcher} : u # Prim(q) => f[u] = g[u]
        BY <1>1, <1>2, <3>1, Threads
      <3>. QED
        BY <1>2, <2>1, <3>1, <3>3, <3>4, Threads
    <2>2. CASE ~(ends /\ timeout[q] /\ pc[Prim(q)] = "parked")
      <3>1. f = g
        BY <2>2 DEF Rouse
      <3>. HIDE DEF f, g, q, ends
      <3>. QED
        BY <1>1, <1>2, <1>3, <2>2, <3>1, Threads
    <2>. QED
      BY <2>1, <2>2
  <1>5. IF status[q] = "ACTIVE" THEN Signal(q, f) ELSE pc' = f
    BY DEF RequestWake
  <1>. HIDE DEF f, g, q, ends
  <1>6. /\ status[q] = "ACTIVE" => pc'[Sec(q)] # "secWait"
        /\ pc'[Sec(q)] = pc[Sec(q)] \/ (pc[Sec(q)] = "secWait" /\ pc'[Sec(q)] = "top")
        /\ \A u \in Thread \cup {Dispatcher} : u # Sec(q) => pc'[u] = f[u]
    <2>1. Sec(q) # c /\ Sec(q) # Prim(q) /\ Sec(q) \in Thread \cup {Dispatcher}
      BY <1>1, Threads, Names
    <2>2. CASE status[q] = "ACTIVE"
      <3>1. pc[Prim(q)] # "deactivateWait"
        BY <1>1, <2>2, WaitsAlone
      <3>2. \/ pc[Sec(q)] # "secWait" /\ pc' = f
            \/ /\ pc[Sec(q)] = "secWait" /\ pc'[Sec(q)] = "top"
               /\ \A u \in Thread \cup {Dispatcher} : u # Sec(q) => pc'[u] = f[u]
        BY <1>1, <1>4, <1>5, <2>2, <3>1, SignalCases
      <3>. QED
        BY <1>4, <2>1, <3>2
    <2>3. CASE status[q] # "ACTIVE"
      BY <1>4, <1>5, <2>1, <2>3
    <2>. QED
      BY <2>2, <2>3
  <1>7. /\ pc'[c] = "next"
        /\ \A u \in Thread \cup {Dispatcher} : u \notin {c, Prim(q), Sec(q)} => pc'[u] = pc[u]
        /\ Prim(q) # c => pc'[Prim(q)] = IF ends /\ timeout[q] /\ pc[Prim(q)] = "parked"
                                         THEN "park" ELSE pc[Prim(q)]
    BY <1>1, <1>4, <1>6, Threads, Names
  <1>8. \A p \in Proc : \/ pc'[Prim(p)] = pc[Prim(p)]
                        \/ p = q /\ pc[Prim(p)] = "parked" /\ pc'[Prim(p)] = "park"
                        \/ Prim(p) = c /\ pc[Prim(p)] = "wake" /\ pc'[Prim(p)] = "next"
    <2>. SUFFICES ASSUME NEW p \in Proc
                  PROVE  \/ pc'[Prim(p)] = pc[Prim(p)]
                         \/ p = q /\ pc[Prim(p)] = "parked" /\ pc'[Prim(p)] = "park"
                         \/ Prim(p) = c /\ pc[Prim(p)] = "wake" /\ pc'[Prim(p)] = "next"
      OBVIOUS
    <2>1. CASE Prim(p) = c
      BY <1>1, <1>7, <2>1
    <2>2. CASE Prim(p) # c /\ p = q
      BY <1>7, <2>2
    <2>3. CASE Prim(p) # c /\ p # q
      <3>1. Prim(p) \notin {c, Prim(q), Sec(q)}
        BY <1>1, <2>3, Names
      <3>. QED
        BY <1>7, <3>1, Threads
    <2>. QED
      BY <2>1, <2>2, <2>3
  <1>9. \A p \in Proc : \/ pc'[Sec(p)] = pc[Sec(p)]
                        \/ p = q /\ pc[Sec(p)] = "secWait" /\ pc'[Sec(p)] = "top"
    BY <1>1, <1>6, <1>7, Threads, Names
  <1>10. ListInv'
    <2>1. \A p \in Proc : \/ pc'[Prim(p)] = pc[Prim(p)]
                          \/ {pc[Prim(p)], pc'[Prim(p)]} \cap (Nowhere \cup {"free"}) = {}
      BY <1>8 DEF Nowhere
    <2>2. \A d \in Caller : pc'[d] \in Asking => pc[d] \in Asking
      <3>. SUFFICES ASSUME NEW d \in Caller, pc'[d] \in Asking PROVE pc[d] \in Asking
        OBVIOUS
      <3>1. CASE d = Dispatcher
        BY <1>1, <1>7, <3>1, Names DEF Asking
      <3>2. CASE d # Dispatcher
        <4>1. PICK p \in Proc : d = Prim(p)
          BY <3>2, Names
        <4>. QED
          BY <1>8, <4>1 DEF Asking
      <3>. QED
        BY <3>1, <3>2
    <2>3. ListFrame
      BY <1>1, <2>1, <2>2 DEF ListFrame
    <2>. QED
      BY <2>3, ListKept DEF RequestInv, Types
  <1>11. ASSUME NEW p \in owed' PROVE HeldOf(F, p)'
    <2>1. p \in Proc /\ HeldOf(F, p)
      BY <1>1 DEF RequestInv, HeldInv, Types
    <2>2. HeldFrame(p)
      BY <1>1, <1>8, <1>9, <2>1 DEF HeldFrame, Armed, Away, Asking
    <2>. QED
      BY <2>1, <2>2, HeldOfKept
  <1>12. ASSUME NEW p \in Proc PROVE SleepOf(p)'
    <2>1. SleepOf(p) /\ (pc'[Prim(p)] = "parked" => pc[Prim(p)] = "parked")
      BY <1>8 DEF RequestInv, SleepInv
    <2>2. CASE p # q
      <3>1. SleepFrame(p)
        BY <1>1, <2>1, <2>2 DEF SleepFrame
      <3>. QED
        BY <2>1, <3>1, SleepOfKept
    <2>3. CASE p = q /\ ~ends
      <3>1. SleepFrame(p)
        BY <1>1, <2>1, <2>3 DEF SleepFrame, Types
      <3>. QED
        BY <2>1, <3>1, SleepOfKept
    <2>4. CASE p = q /\ ends
      <3>1. ~timeout'[p]
        BY <1>1, <2>4 DEF Types
      <3>2. pc'[Prim(p)] # "parked"
        BY <1>1, <1>7, <2>1, <2>4 DEF SleepOf
      <3>. QED
        BY <3>1, <3>2 DEF SleepOf
    <2>. QED
      BY <2>2, <2>3, <2>4
  <1>13. ASSUME NEW p \in Proc PROVE WakeOf(p)'
    <2>1. WakeOf(p) /\ UNCHANGED <<status, interrupt, call>>
      BY <1>1 DEF RequestInv, WakeInv
    <2>2. /\ pc'[Prim(p)] = "deactivateWait" => pc[Prim(p)] = "deactivateWait"
          /\ pc[Sec(p)] \in Busy \cup {"top"} => pc'[Sec(p)] \in Busy \cup {"top"}
          /\ pc'[Sec(p)] = "secWait" => pc[Sec(p)] = "secWait"
      BY <1>8, <1>9
    <2>3. CASE p # q
      <3>1. Afoot(p)
        <4>. SUFFICES ASSUME NEW d \in Caller, call[d].to = p, pc[d] \in {"limit", "wake"}
                      PROVE  pc'[d] \in {"limit", "wake"}
          BY <1>1 DEF Afoot
        <4>1. d # c
          BY <2>3 DEF q
        <4>2. CASE d = Dispatcher
          BY <1>1, <1>7, <4>1, <4>2, Names
        <4>3. CASE d # Dispatcher
          <5>1. PICK r \in Proc : d = Prim(r)
            BY <4>3, Names
          <5>. QED
            BY <1>8, <4>1, <5>1
        <4>. QED
          BY <4>2, <4>3
      <3>2. WakeFrame(p)
        BY <2>1, <2>2 DEF WakeFrame
      <3>. QED
        BY <2>1, <3>1, <3>2, WakeOfKept
    <2>4. CASE p = q
      BY <1>6, <2>1, <2>2, <2>4 DEF WakeOf
    <2>. QED
      BY <2>3, <2>4
  <1>. QED
    BY <1>10, <1>11, <1>12, <1>13 DEF RequestInv, HeldInv, SleepInv, WakeInv

-----------------------------------------------------------------------------
(* A step of the two workers of one processor.                             *)
LEMMA OneStep ==
  ASSUME NEW F, Before, RequestInv(F), NEW p \in Proc,
         \A u \in Thread \cup {Dispatcher} : u \notin {Prim(p), Sec(p)} => pc'[u] = pc[u],
         \/ pc'[Prim(p)] = pc[Prim(p)]
         \/ {pc[Prim(p)], pc'[Prim(p)]} \cap (Nowhere \cup {"free"} \cup Asking) = {},
         UNCHANGED <<listed, listLock, alive, call, owed>>, told' \subseteq told,
         \A q \in Proc \ {p} : /\ status'[q] = status[q] /\ interrupt'[q] = interrupt[q]
                               /\ hl'[q] = hl[q] /\ timeout'[q] = timeout[q],
         p \in owed => HeldOf(F, p)', SleepOf(p)', WakeOf(p)'
  PROVE  RequestInv(F)'
  <1>. Places(pc) /\ Types
    BY TypeParts DEF Before
  <1>1. \A q \in Proc \ {p} : pc'[Prim(q)] = pc[Prim(q)] /\ pc'[Sec(q)] = pc[Sec(q)]
    BY Threads, Names
  <1>2. \A c \in Caller : c # Prim(p) => pc'[c] = pc[c]
    BY Threads
  <1>3. ListFrame
    BY <1>1, <1>2, Names DEF ListFrame
  <1>4. ASSUME NEW q \in owed PROVE HeldOf(F, q)'
    <2>1. q \in Proc /\ HeldOf(F, q)
      BY DEF RequestInv, HeldInv, Types
    <2>2. CASE q # p
      <3>1. HeldFrame(q)
        BY <1>1, <2>1, <2>2 DEF HeldFrame
      <3>. QED
        BY <2>1, <3>1, HeldOfKept
    <2>. QED
      BY <2>2
  <1>5. \A q \in Proc : Afoot(q)
    BY <1>2 DEF Afoot, Asking
  <1>6. ASSUME NEW q \in Proc \ {p} PROVE SleepOf(q)' /\ WakeOf(q)'
    <2>1. SleepOf(q) /\ WakeOf(q)
      BY DEF RequestInv, SleepInv, WakeInv
    <2>2. SleepFrame(q)
      BY <1>1 DEF SleepFrame
    <2>3. WakeFrame(q)
      BY <1>1 DEF WakeFrame
    <2>. QED
      BY <1>5, <2>1, <2>2, <2>3, SleepOfKept, WakeOfKept
  <1>7. ListInv'
    BY <1>3, ListKept DEF RequestInv, Types
  <1>. QED
    BY <1>4, <1>6, <1>7 DEF RequestInv, HeldInv, SleepInv, WakeInv

(* A new block of the nursery leaves the limit to be written.              *)
LEMMA BumpKeeps ==
  ASSUME NEW F, Before, RequestInv(F), NEW p \in Proc, NEW from \in {"grow", "run"},
         NEW to \in {"regrow", "look"}, Bump(p, from, to)
  PROVE  RequestInv(F)'
  <1>1. pc[Prim(p)] = from /\ UNCHANGED <<procvars, listed, listLock, alive, owed, told>>
    BY DEF Bump, listvars
  <1>2. CASE Goto(Prim(p), to) /\ call' = call
    <2>1. Calm(pc[Prim(p)], to) /\ Stands(Prim(p), to)
      BY <1>1, Names DEF Calm, Steady, Stands, Nowhere, Armed, Away, Asking
    <2>. QED
      BY <1>1, <1>2, <2>1, Threads, CalmStep DEF procvars
  <1>3. CASE Begin(Prim(p), "SCAVENGE", {p}, to) /\ Goto(Prim(p), "request")
    <2>1. pc[Prim(p)] \notin Asking \cup Nowhere \cup {"free", "slice"} /\ Prim(p) \in Caller
      BY <1>1, Names DEF Asking, Nowhere
    <2>. QED
      BY <1>1, <1>3, <2>1, BeginKeeps
  <1>. QED
    BY <1>2, <1>3 DEF Bump

(* The exits of chiYield and the writes of chiGrowHeap: those that forget  *)
(* an interrupt are steps of processors in F.                              *)
LEMMA LimitKeeps ==
  ASSUME NEW F, Before, RequestInv(F), NEW p \in Proc,
         \/ GrowStack(p) \/ LookLimit(p) \/ WriteLimit(p, "zero")
         \/ p \in F /\ (StackOverflow(p) \/ WriteLimit(p, "fill"))
  PROVE  RequestInv(F)'
  <1>. Places(pc) /\ Types
    BY TypeParts DEF Before
  <1>1. CASE GrowStack(p) \/ LookLimit(p)
    <2>1. PICK l \in {"check", "zero", "fill"} : Goto(Prim(p), l)
      BY <1>1 DEF GrowStack, LookLimit
    <2>2. /\ pc[Prim(p)] \in {"stack", "look"}
          /\ UNCHANGED <<status, interrupt, hl, timeout, listed, listLock, alive, call, owed, told>>
      BY <1>1 DEF GrowStack, LookLimit, procvars, listvars
    <2>3. Calm(pc[Prim(p)], l) /\ Stands(Prim(p), l)
      BY <2>2, Names DEF Calm, Steady, Stands, Nowhere, Armed, Away, Asking
    <2>. QED
      BY <2>1, <2>2, <2>3, Threads, CalmStep
  <1>2. CASE WriteLimit(p, "zero") \/ (p \in F /\ (StackOverflow(p) \/ WriteLimit(p, "fill")))
    <2>1. /\ pc[Prim(p)] \in {"stack", "zero", "fill"} /\ Goto(Prim(p), "run")
          /\ UNCHANGED <<status, interrupt, timeout, listed, listLock, alive, call, owed, told>>
      BY <1>2 DEF StackOverflow, WriteLimit, procvars, listvars
    <2>2. \A q \in Proc \ {p} : hl'[q] = hl[q]
      BY <1>2 DEF StackOverflow, WriteLimit, procvars, Types
    <2>3. p \in F \/ ~hl'[p]
      BY <1>2 DEF WriteLimit, Types
    <2>4. Steady(pc[Prim(p)], "run") /\ Stands(Prim(p), "run")
      BY <2>1, Names DEF Steady, Stands, Nowhere, Asking
    <2>5. p \in owed => interrupt[p]
      BY <2>1, Seen DEF Away
    <2>6. p \in owed => HeldOf(F, p)'
      BY <2>1, <2>3, <2>5 DEF HeldOf
    <2>. QED
      BY <2>1, <2>2, <2>4, <2>6, SteadyStep
  <1>. QED
    BY <1>1, <1>2

(* Safe points: whatever writes the heap limit looks at the interrupt      *)
(* before compiled code goes on.                                           *)
LEMMA CodeKeeps ==
  ASSUME NEW F, Before, RequestInv(F), NEW p \in Proc,
         Yield(p) \/ Check(p) \/ Resume(p) \/ ProtectEnd(p)
  PROVE  RequestInv(F)'
  <1>. Places(pc) /\ Types
    BY TypeParts DEF Before
  <1>1. CASE Yield(p)
    <2>1. PICK l \in {"stack", "grow"} : Goto(Prim(p), l)
      BY <1>1 DEF Yield
    <2>2. Calm(pc[Prim(p)], l) /\ Stands(Prim(p), l)
      BY <1>1, Names DEF Yield, Calm, Steady, Stands, Nowhere, Armed, Away, Asking, Busy, Service
    <2>3. /\ UNCHANGED <<status, interrupt, timeout, listed, listLock, alive, call, owed, told>>
          /\ \A q \in Proc : (hl'[q] => hl[q]) \/ (Prim(p) = Prim(q) /\ l \notin Armed \cup Asking)
      BY <1>1 DEF Yield, Types, procvars, listvars, Armed, Away, Asking
    <2>. QED
      BY <2>1, <2>2, <2>3, Threads, CalmStep
  <1>2. CASE Check(p)
    <2>1. /\ pc[Prim(p)] = "check" /\ Goto(Prim(p), IF interrupt[p] THEN "loop" ELSE "run")
          /\ UNCHANGED <<status, interrupt, hl, timeout, listed, listLock, alive, call, owed, told>>
      BY <1>2 DEF Check, procvars, listvars
    <2>2. CASE interrupt[p]
      <3>1. Calm(pc[Prim(p)], "loop") /\ Stands(Prim(p), "loop")
        BY <2>1, Names DEF Calm, Steady, Stands, Nowhere, Armed, Away, Asking
      <3>. QED
        BY <2>1, <2>2, <3>1, Threads, CalmStep
    <2>3. CASE ~interrupt[p]
      <3>1. p \notin owed
        BY <2>1, <2>3, Seen DEF Away
      <3>2. Steady(pc[Prim(p)], "run") /\ Stands(Prim(p), "run")
        BY <2>1, Names DEF Steady, Stands, Nowhere, Asking
      <3>. QED
        BY <2>1, <2>3, <3>1, <3>2, SteadyStep
    <2>. QED
      BY <2>2, <2>3
  <1>3. CASE Resume(p)
    <2>1. Goto(Prim(p), "run")
      BY <1>3 DEF Resume
    <2>2. Calm(pc[Prim(p)], "run") /\ Stands(Prim(p), "run")
      BY <1>3, Names DEF Resume, Calm, Steady, Stands, Nowhere, Armed, Away, Asking, Busy, Service
    <2>3. /\ UNCHANGED <<status, interrupt, timeout, listed, listLock, alive, call, owed, told>>
          /\ \A q \in Proc : (hl'[q] => hl[q]) \/ (Prim(p) = Prim(q) /\ "run" \notin Armed \cup Asking)
      BY <1>3 DEF Resume, Types, procvars, listvars, Armed, Away, Asking
    <2>. QED
      BY <2>1, <2>2, <2>3, Threads, CalmStep
  <1>4. CASE ProtectEnd(p)
    <2>1. /\ pc[Prim(p)] = "protectEnd" /\ Goto(Prim(p), "protected")
          /\ interrupt' = [interrupt EXCEPT ![p] = @ \/ {"EXIT", "USER"} \cap trig[p] # {}]
          /\ UNCHANGED <<status, hl, timeout, listed, listLock, alive, call, owed, told>>
      BY <1>4 DEF ProtectEnd, listvars
    <2>2. pc'[Prim(p)] = "protected" /\ \A u \in Thread \cup {Dispatcher} : u # Prim(p) => pc'[u] = pc[u]
      BY <2>1, Goes, Threads
    <2>3. {pc[Prim(p)], pc'[Prim(p)]} \cap (Nowhere \cup {"free"} \cup Asking) = {}
      BY <2>1, <2>2 DEF Nowhere, Asking
    <2>4. pc'[Sec(p)] = pc[Sec(p)]
      BY <2>2, Threads, Names
    <2>5. p \in owed => HeldOf(F, p)'
      <3>1. interrupt[p] => interrupt'[p]
        BY <2>1 DEF Types
      <3>. QED
        BY <2>1, <2>2, <2>4, <3>1 DEF RequestInv, HeldInv, HeldOf, Armed
    <2>6. SleepOf(p)'
      BY <2>1, <2>2 DEF RequestInv, SleepInv, SleepOf
    <2>7. WakeOf(p)'
      <3>1. status[p] \notin {"ACTIVE", "RUN"}
        BY <2>1 DEF Before, CustodyInv, Told, ToldOf, Away
      <3>. QED
        BY <2>1, <2>2, <3>1 DEF WakeOf
    <2>8. \A q \in Proc \ {p} : interrupt'[q] = interrupt[q]
      BY <2>1 DEF Types
    <2>. QED
      BY <2>1, <2>2, <2>3, <2>5, <2>6, <2>7, <2>8, OneStep
  <1>. QED
    BY <1>1, <1>2, <1>3, <1>4

(* RESTORE_HEAP_REGS: the new limit, then the zero if somebody has asked.  *)
LEMMA RestoreKeeps ==
  ASSUME NEW F, Before, RequestInv(F), NEW p \in Proc, Restore(p)
  PROVE  RequestInv(F)'
  <1>. Places(pc) /\ Types
    BY TypeParts DEF Before
  <1>1. CASE \/ RestoreLimit(p, "regrow", "rearmGrow") \/ RestoreLimit(p, "restore", "rearmService")
             \/ RestoreLimit(p, "protected", "rearmProtect")
    <2>1. PICK l \in {"rearmGrow", "rearmService", "rearmProtect"} : Goto(Prim(p), l)
      BY <1>1 DEF RestoreLimit
    <2>2. /\ pc[Prim(p)] \in {"regrow", "restore", "protected"} /\ hl' = [hl EXCEPT ![p] = TRUE]
          /\ UNCHANGED <<status, interrupt, timeout, listed, listLock, alive, call, owed, told>>
      BY <1>1 DEF RestoreLimit, listvars
    <2>3. Calm(pc[Prim(p)], l) /\ Stands(Prim(p), l) /\ l \notin Armed \cup Asking
      BY <2>2, Names DEF Calm, Steady, Stands, Nowhere, Armed, Away, Asking
    <2>4. \A q \in Proc : (hl'[q] => hl[q]) \/ (Prim(p) = Prim(q) /\ l \notin Armed \cup Asking)
      BY <2>2, <2>3 DEF Types
    <2>. QED
      BY <2>1, <2>2, <2>3, <2>4, Threads, CalmStep
  <1>2. CASE KeepLimit(p, "restore", "resume") \/ KeepLimit(p, "protected", "run")
    <2>1. PICK l \in {"resume", "run"} : Goto(Prim(p), l)
      BY <1>2 DEF KeepLimit
    <2>2. /\ pc[Prim(p)] \in {"restore", "protected"}
          /\ UNCHANGED <<status, interrupt, hl, timeout, listed, listLock, alive, call, owed, told>>
      BY <1>2 DEF KeepLimit, procvars, listvars
    <2>3. Calm(pc[Prim(p)], l) /\ Stands(Prim(p), l)
      BY <2>2, Names DEF Calm, Steady, Stands, Nowhere, Armed, Away, Asking
    <2>. QED
      BY <2>1, <2>2, <2>3, Threads, CalmStep
  <1>3. CASE \/ Rearm(p, "rearmGrow", "stack") \/ HeapOverflow(p)
             \/ Rearm(p, "rearmService", "resume") \/ Rearm(p, "rearmProtect", "run")
    <2>1. PICK l \in {"stack", "resume", "run"} : Goto(Prim(p), l)
      BY <1>3 DEF HeapOverflow, Rearm
    <2>2. /\ pc[Prim(p)] \in {"rearmGrow", "rearmService", "rearmProtect"}
          /\ hl' = [hl EXCEPT ![p] = @ /\ ~interrupt[p]]
          /\ UNCHANGED <<status, interrupt, timeout, listed, listLock, alive, call, owed, told>>
      BY <1>3 DEF HeapOverflow, Rearm, listvars
    <2>3. Steady(pc[Prim(p)], l) /\ Stands(Prim(p), l)
      BY <2>2, Names DEF Steady, Stands, Nowhere, Asking
    <2>4. p \in owed => HeldOf(F, p)'
      <3>1. p \in owed => interrupt[p]
        BY <2>2, Seen DEF Away
      <3>2. interrupt[p] => ~hl'[p]
        BY <2>2 DEF Types
      <3>. QED
        BY <2>2, <3>1, <3>2 DEF HeldOf
    <2>5. \A q \in Proc \ {p} : hl'[q] = hl[q] /\ interrupt'[q] = interrupt[q]
      BY <2>2 DEF Types
    <2>. QED
      BY <2>1, <2>2, <2>3, <2>4, <2>5, SteadyStep
  <1>. QED
    BY <1>1, <1>2, <1>3 DEF Restore

(* chiProcessorSuspend, park, and the end of a sleep.                      *)
LEMMA SleepKeeps ==
  ASSUME NEW F, Before, RequestInv(F), NEW p \in Proc, Suspend(p) \/ Park(p) \/ ParkTimeout(p)
  PROVE  RequestInv(F)'
  <1>. Places(pc) /\ Types
    BY TypeParts DEF Before
  <1>1. /\ UNCHANGED <<status, interrupt, hl, listed, listLock, alive, call, owed>> /\ told' \subseteq told
        /\ \A q \in Proc \ {p} : timeout'[q] = timeout[q]
    BY DEF Suspend, Park, ParkTimeout, procvars, listvars, Types
  <1>2. \A u \in Thread \cup {Dispatcher} : u # Prim(p) => pc'[u] = pc[u]
    BY Goes, Threads DEF Suspend, Park, ParkTimeout
  <1>3. \/ pc'[Prim(p)] = pc[Prim(p)] /\ pc[Prim(p)] = "run"
        \/ pc[Prim(p)] \in {"park", "parked"} /\ pc'[Prim(p)] \in {"park", "parked", "deactivate"}
    BY Goes, Threads DEF Suspend, Park, ParkTimeout
  <1>4. pc'[Sec(p)] = pc[Sec(p)]
    BY <1>2, Threads, Names
  <1>5. SleepOf(p)'
    <2>1. CASE Suspend(p)
      <3>1. timeout'[p] /\ p \notin told'
        BY <2>1 DEF Suspend, Types
      <3>. QED
        BY <3>1 DEF SleepOf
    <2>2. CASE Park(p)
      <3>1. pc'[Prim(p)] = (IF timeout[p] THEN "parked" ELSE "deactivate") /\ UNCHANGED <<timeout, told>>
        BY <2>2, Goes, Threads DEF Park, procvars
      <3>. QED
        BY <3>1 DEF RequestInv, SleepInv, SleepOf
    <2>3. CASE ParkTimeout(p)
      <3>1. pc'[Prim(p)] = "park" /\ (timeout'[p] => timeout[p]) /\ told' = told
        BY <2>3, Goes, Threads DEF ParkTimeout, Types
      <3>. QED
        BY <3>1 DEF RequestInv, SleepInv, SleepOf
    <2>. QED
      BY <2>1, <2>2, <2>3
  <1>6. p \in owed => HeldOf(F, p)'
    BY <1>1, <1>3, <1>4 DEF RequestInv, HeldInv, HeldOf, Armed, Away
  <1>7. WakeOf(p)'
    <2>1. WakeFrame(p)
      BY <1>1, <1>3, <1>4 DEF WakeFrame
    <2>2. Afoot(p)
      BY <1>1, <1>2, <1>3, Threads DEF Afoot
    <2>. QED
      BY <2>1, <2>2, WakeOfKept DEF RequestInv, WakeInv
  <1>. QED
    BY <1>1, <1>2, <1>3, <1>5, <1>6, <1>7, OneStep DEF Nowhere, Asking

(* Back from foreign code, and to the end.                                 *)
LEMMA LeaveKeeps ==
  ASSUME NEW F, Before, RequestInv(F), NEW p \in Proc,
         ForeignReturn(p) \/ Stop(p) \/ ExitProcessor(p) \/ Exit(p) \/ \E q \in Proc : Notify(p, q)
  PROVE  RequestInv(F)'
  <1>. Places(pc) /\ Types
    BY TypeParts DEF Before
  <1>1. CASE ForeignReturn(p)
    <2>1. Goto(Prim(p), "deactivate")
      BY <1>1 DEF ForeignReturn
    <2>2. Calm(pc[Prim(p)], "deactivate") /\ Stands(Prim(p), "deactivate")
      BY <1>1, Names DEF ForeignReturn, Calm, Steady, Stands, Nowhere, Armed, Away, Asking, Busy, Service
    <2>3. /\ UNCHANGED <<status, interrupt, timeout, listed, listLock, alive, call, owed, told>>
          /\ \A q \in Proc : (hl'[q] => hl[q]) \/ (Prim(p) = Prim(q) /\ "deactivate" \notin Armed \cup Asking)
      BY <1>1 DEF ForeignReturn, Types, procvars, listvars, Armed, Away, Asking
    <2>. QED
      BY <2>1, <2>2, <2>3, Threads, CalmStep
  <1>2. CASE Stop(p)
    <2>1. Goto(Prim(p), "exit")
      BY <1>2 DEF Stop
    <2>2. Calm(pc[Prim(p)], "exit") /\ Stands(Prim(p), "exit")
      BY <1>2, Names DEF Stop, Calm, Steady, Stands, Nowhere, Armed, Away, Asking, Busy, Service
    <2>3. /\ UNCHANGED <<status, interrupt, timeout, listed, listLock, alive, call, owed, told>>
          /\ \A q \in Proc : (hl'[q] => hl[q]) \/ (Prim(p) = Prim(q) /\ "exit" \notin Armed \cup Asking)
      BY <1>2 DEF Stop, Types, procvars, listvars, Armed, Away, Asking
    <2>. QED
      BY <2>1, <2>2, <2>3, Threads, CalmStep
  <1>3. CASE ExitProcessor(p)
    <2>1. PICK l \in {"wait", "stopSecondary"} : Goto(Prim(p), l)
      BY <1>3 DEF ExitProcessor
    <2>2. Calm(pc[Prim(p)], l) /\ Stands(Prim(p), l)
      BY <1>3, Names DEF ExitProcessor, Calm, Steady, Stands, Nowhere, Armed, Away, Asking, Busy, Service
    <2>3. /\ UNCHANGED <<status, interrupt, timeout, listed, listLock, alive, call, owed, told>>
          /\ \A q \in Proc : (hl'[q] => hl[q]) \/ (Prim(p) = Prim(q) /\ l \notin Armed \cup Asking)
      BY <1>3 DEF ExitProcessor, Types, procvars, listvars, Armed, Away, Asking
    <2>. QED
      BY <2>1, <2>2, <2>3, Threads, CalmStep
  <1>4. CASE Exit(p)
    <2>1. /\ pc[Prim(p)] = "run" /\ Begin(Prim(p), "EXIT", listed, "exit") /\ Goto(Prim(p), "request")
          /\ listLock = Null /\ listLock' = Prim(p)
          /\ UNCHANGED <<procvars, listed, alive, owed, told>>
      BY <1>4 DEF Exit, Walk
    <2>2. pc[Prim(p)] \notin Asking \cup Nowhere \cup {"free", "slice"} /\ Prim(p) \in Caller /\ listed \subseteq Proc
      BY <2>1, Names DEF Asking, Nowhere, Types
    <2>. QED
      BY <2>1, <2>2, BeginKeeps
  <1>5. CASE \E q \in Proc : Notify(p, q)
    <2>1. PICK q \in Proc : Notify(p, q)
      BY <1>5
    <2>2. /\ pc[Prim(p)] = "run" /\ Begin(Prim(p), "NOTIFY", {q}, "run") /\ Goto(Prim(p), "request")
          /\ listLock' = listLock /\ UNCHANGED <<procvars, listed, alive, owed, told>>
      BY <2>1 DEF Notify, listvars
    <2>3. pc[Prim(p)] \notin Asking \cup Nowhere \cup {"free", "slice"} /\ pc[Prim(p)] \in Armed /\ Prim(p) \in Caller
      BY <2>2, Names DEF Asking, Nowhere, Armed
    <2>. QED
      BY <2>2, <2>3, BeginKeeps
  <1>. QED
    BY <1>1, <1>2, <1>3, <1>4, <1>5

-----------------------------------------------------------------------------
(* The dispatcher and the main processor ask whom they find in the list.   *)
LEMMA WalkKeeps ==
  ASSUME NEW F, Before, RequestInv(F), (\E k \in Kind : Dispatch(k)) \/ WaitProcessors
  PROVE  RequestInv(F)'
  <1>. Places(pc) /\ Types /\ Main \in Proc
    BY TypeParts, ProcAssumption DEF Before
  <1>1. ASSUME NEW k \in Kind, Dispatch(k) PROVE RequestInv(F)'
    <2>1. k \notin {"NOTIFY", "SCAVENGE"} /\ pc[Dispatcher] = "idle" /\ Dispatcher \in Caller
      BY <1>1, KindAssumption, Names DEF Dispatch
    <2>2. PICK S \in SUBSET listed : Walk(Dispatcher, k, S, "idle")
      BY <1>1 DEF Dispatch
    <2>3. /\ Begin(Dispatcher, k, S, "idle") /\ Goto(Dispatcher, "request")
          /\ listLock = Null /\ listLock' = Dispatcher
          /\ UNCHANGED <<procvars, listed, alive, owed, told>>
      BY <2>2 DEF Walk
    <2>4. pc[Dispatcher] \notin Asking \cup Nowhere \cup {"free", "slice"}
      BY <2>1 DEF Asking, Nowhere
    <2>5. S \subseteq Proc /\ S \subseteq listed
      BY DEF Types
    <2>. QED
      BY <2>1, <2>3, <2>4, <2>5, BeginKeeps
  <1>2. CASE WaitProcessors
    <2>1. pc[Prim(Main)] = "wait" /\ listLock = Null
      BY <1>2 DEF WaitProcessors
    <2>2. CASE Goto(Prim(Main), "stopSecondary") /\ UNCHANGED <<procvars, lock, listvars, call, owed, told>>
      <3>1. Calm(pc[Prim(Main)], "stopSecondary") /\ Stands(Prim(Main), "stopSecondary")
        BY <2>1, Names DEF Calm, Steady, Stands, Nowhere, Armed, Away, Asking
      <3>. QED
        BY <2>2, <3>1, Threads, CalmStep DEF procvars, listvars
    <2>3. CASE Walk(Prim(Main), "EXIT", listed, "exitWait")
      <3>1. /\ Begin(Prim(Main), "EXIT", listed, "exitWait") /\ Goto(Prim(Main), "request")
            /\ listLock' = Prim(Main)
            /\ UNCHANGED <<procvars, listed, alive, owed, told>>
        BY <2>3 DEF Walk
      <3>2. pc[Prim(Main)] \notin Asking \cup Nowhere \cup {"free", "slice"} /\ Prim(Main) \in Caller
        BY <2>1, Names DEF Asking, Nowhere
      <3>3. listed \subseteq Proc
        BY DEF Types
      <3>. QED
        BY <2>1, <3>1, <3>2, <3>3, BeginKeeps
    <2>. QED
      BY <1>2, <2>2, <2>3 DEF WaitProcessors
  <1>. QED
    BY <1>1, <1>2

(* A worker of p moves and signals the other: who moves where.             *)
LEMMA MovesAndSignals ==
  ASSUME Places(pc), NEW p \in Proc, NEW t \in {Prim(p), Sec(p)}, NEW l,
         IF t = Prim(p) THEN l \in ProcPC ELSE l \in SecPC,
         pc[t] \notin {"deactivateWait", "secWait"},
         Signal(p, [pc EXCEPT ![t] = l])
  PROVE  /\ \A u \in Thread \cup {Dispatcher} : u \notin {Prim(p), Sec(p)} => pc'[u] = pc[u]
         /\ t = Prim(p) => /\ pc'[Prim(p)] = l
                           /\ IF pc[Sec(p)] = "secWait" THEN pc'[Sec(p)] = "top" ELSE pc'[Sec(p)] = pc[Sec(p)]
         /\ t = Sec(p) => /\ pc'[Sec(p)] = l
                          /\ IF pc[Prim(p)] = "deactivateWait" THEN pc'[Prim(p)] = "deactivate"
                             ELSE pc'[Prim(p)] = pc[Prim(p)]
  <1>. DEFINE f == [pc EXCEPT ![t] = l]
  <1>1. t \in Thread \cup {Dispatcher} /\ Prim(p) # Sec(p) /\ {Prim(p), Sec(p)} \subseteq Thread \cup {Dispatcher}
    BY Threads, Names
  <1>2. f[t] = l /\ \A u \in Thread \cup {Dispatcher} : u # t => f[u] = pc[u]
    BY <1>1 DEF Places
  <1>3. Places(f)
    <2>1. CASE t = Prim(p)
      <3>1. f = [pc EXCEPT ![Prim(p)] = l] /\ l \in ProcPC
        BY <2>1
      <3>. HIDE DEF f
      <3>. QED
        BY <3>1, PrimMoves
    <2>2. CASE t # Prim(p)
      <3>1. f = [pc EXCEPT ![Sec(p)] = l] /\ l \in SecPC
        BY <2>2
      <3>. HIDE DEF f
      <3>. QED
        BY <3>1, SecMoves
    <2>. QED
      BY <2>1, <2>2
  <1>4. Signal(p, f)
    OBVIOUS
  <1>. HIDE DEF f
  <1>5. \/ pc[Prim(p)] # "deactivateWait" /\ pc[Sec(p)] # "secWait" /\ pc' = f
        \/ /\ pc[Prim(p)] = "deactivateWait" /\ pc'[Prim(p)] = "deactivate"
           /\ \A u \in Thread \cup {Dispatcher} : u # Prim(p) => pc'[u] = f[u]
        \/ /\ pc[Sec(p)] = "secWait" /\ pc'[Sec(p)] = "top"
           /\ \A u \in Thread \cup {Dispatcher} : u # Sec(p) => pc'[u] = f[u]
    BY <1>3, <1>4, SignalCases
  <1>. QED
    BY <1>1, <1>2, <1>5

(* secondaryActivate                                                       *)
LEMMA ProtectKeeps ==
  ASSUME NEW F, Before, RequestInv(F), NEW p \in Proc, ProtectBegin(p)
  PROVE  RequestInv(F)'
  <1>. Places(pc) /\ Types
    BY TypeParts DEF Before
  <1>1. /\ pc[Prim(p)] = "run" /\ status' = [status EXCEPT ![p] = "ACTIVE"]
        /\ UNCHANGED <<interrupt, hl, timeout, listed, listLock, alive, call, owed, told>>
    BY DEF ProtectBegin, listvars
  <1>2. PICK l \in {"foreign", "park"} :
          LET f == [pc EXCEPT ![Prim(p)] = l] IN IF interrupt[p] THEN Signal(p, f) ELSE pc' = f
    BY DEF ProtectBegin
  <1>3. /\ \A u \in Thread \cup {Dispatcher} : u \notin {Prim(p), Sec(p)} => pc'[u] = pc[u]
        /\ pc'[Prim(p)] = l
        /\ pc'[Sec(p)] = pc[Sec(p)] \/ (pc[Sec(p)] = "secWait" /\ pc'[Sec(p)] = "top")
        /\ interrupt[p] => pc'[Sec(p)] # "secWait"
    <2>1. CASE interrupt[p]
      <3>1. Signal(p, [pc EXCEPT ![Prim(p)] = l]) /\ l \in ProcPC
        BY <1>2, <2>1 DEF ProcPC, Away
      <3>2. \A u \in Thread \cup {Dispatcher} : u \notin {Prim(p), Sec(p)} => pc'[u] = pc[u]
        BY <1>1, <3>1, MovesAndSignals
      <3>3. /\ pc'[Prim(p)] = l
            /\ IF pc[Sec(p)] = "secWait" THEN pc'[Sec(p)] = "top" ELSE pc'[Sec(p)] = pc[Sec(p)]
        BY <1>1, <3>1, MovesAndSignals
      <3>. QED
        BY <3>2, <3>3
    <2>2. CASE ~interrupt[p]
      <3>1. Goto(Prim(p), l)
        BY <1>2, <2>2 DEF Goto
      <3>. QED
        BY <2>2, <3>1, Goes, Threads, Names
    <2>. QED
      BY <2>1, <2>2
  <1>4. status'[p] = "ACTIVE" /\ \A q \in Proc \ {p} : status'[q] = status[q]
    BY <1>1 DEF Types
  <1>5. p \in owed => HeldOf(F, p)'
    BY <1>1, <1>3 DEF RequestInv, HeldInv, HeldOf, Armed, Asking
  <1>6. SleepOf(p)'
    BY <1>1, <1>3 DEF RequestInv, SleepInv, SleepOf
  <1>7. WakeOf(p)'
    BY <1>1, <1>3, <1>4 DEF WakeOf
  <1>8. {pc[Prim(p)], pc'[Prim(p)]} \cap (Nowhere \cup {"free"} \cup Asking) = {}
    BY <1>1, <1>3 DEF Nowhere, Asking
  <1>. QED
    BY <1>1, <1>3, <1>4, <1>5, <1>6, <1>7, <1>8, OneStep

(* secondaryDeactivate                                                     *)
LEMMA DeactivateKeeps ==
  ASSUME NEW F, Before, RequestInv(F), NEW p \in Proc, Deactivate(p)
  PROVE  RequestInv(F)'
  <1>. Places(pc) /\ Types
    BY TypeParts DEF Before
  <1>1. /\ pc[Prim(p)] = "deactivate"
        /\ UNCHANGED <<interrupt, hl, timeout, listed, listLock, alive, call, owed, told>>
    BY DEF Deactivate, listvars
  <1>2. PICK l \in {"protectEnd", "deactivateWait"} :
          /\ Goto(Prim(p), l)
          /\ l = "protectEnd" => status' = [status EXCEPT ![p] = "INACTIVE"]
          /\ l = "deactivateWait" => status' = status /\ status[p] # "ACTIVE"
    BY DEF Deactivate
  <1>3. pc'[Prim(p)] = l /\ \A u \in Thread \cup {Dispatcher} : u # Prim(p) => pc'[u] = pc[u]
    BY <1>2, Goes, Threads
  <1>4. pc'[Sec(p)] = pc[Sec(p)]
    BY <1>3, Threads, Names
  <1>5. \A q \in Proc \ {p} : status'[q] = status[q]
    BY <1>2 DEF Types
  <1>6. p \in owed => HeldOf(F, p)'
    BY <1>1, <1>3, <1>4 DEF RequestInv, HeldInv, HeldOf, Armed, Away
  <1>7. SleepOf(p)'
    BY <1>1, <1>3 DEF RequestInv, SleepInv, SleepOf
  <1>8. WakeOf(p)'
    <2>1. CASE l = "protectEnd"
      <3>1. status'[p] = "INACTIVE"
        BY <1>2, <2>1 DEF Types
      <3>. QED
        BY <1>3, <2>1, <3>1 DEF WakeOf
    <2>2. CASE l = "deactivateWait"
      <3>1. status[p] = "RUN" /\ status' = status
        BY <1>1, <1>2, <2>2 DEF Before, CustodyInv, Told, ToldOf, Away
      <3>2. pc[Sec(p)] \in Busy \cup {"top"}
        BY <3>1 DEF RequestInv, WakeInv, WakeOf
      <3>. QED
        BY <1>4, <3>1, <3>2 DEF WakeOf
    <2>. QED
      BY <2>1, <2>2
  <1>9. {pc[Prim(p)], pc'[Prim(p)]} \cap (Nowhere \cup {"free"} \cup Asking) = {}
    BY <1>1, <1>3 DEF Nowhere, Asking
  <1>. QED
    BY <1>1, <1>3, <1>5, <1>6, <1>7, <1>8, <1>9, OneStep

(* secondaryRun                                                            *)
LEMMA SecondaryKeeps ==
  ASSUME NEW F, Before, RequestInv(F), NEW p \in Proc,
         SecondaryTop(p) \/ SecondaryEnter(p) \/ SecondaryLeave(p) \/ HandBack(p)
  PROVE  RequestInv(F)'
  <1>. Places(pc) /\ Types
    BY TypeParts DEF Before
  <1>0. Sec(p) \in Thread \cup {Dispatcher} /\ Sec(p) # Prim(p)
    BY Threads, Names
  <1>1. CASE SecondaryTop(p)
    <2>. DEFINE idle == status[p] = "INACTIVE" \/ (status[p] = "ACTIVE" /\ ~interrupt[p])
                l == IF status[p] = "STOP" THEN "done" ELSE IF idle THEN "secWait" ELSE "enter"
                s == IF status[p] = "STOP" \/ idle THEN status[p] ELSE "RUN"
    <2>1. /\ pc[Sec(p)] = "top" /\ Goto(Sec(p), l) /\ status' = [status EXCEPT ![p] = s]
          /\ UNCHANGED <<interrupt, hl, timeout, listed, listLock, alive, call, owed, told>>
      BY <1>1 DEF SecondaryTop, listvars
    <2>2. status'[p] = s /\ \A q \in Proc \ {p} : status'[q] = status[q]
      BY <2>1 DEF Types
    <2>. HIDE DEF l, s
    <2>3. pc'[Sec(p)] = l /\ \A u \in Thread \cup {Dispatcher} : u # Sec(p) => pc'[u] = pc[u]
      BY <1>0, <2>1, Goes
    <2>4. pc'[Prim(p)] = pc[Prim(p)]
      BY <1>0, <2>3, Threads
    <2>5. p \in owed => HeldOf(F, p)'
      BY <2>1, <2>4 DEF RequestInv, HeldInv, HeldOf
    <2>6. SleepOf(p)'
      BY <2>1, <2>4 DEF RequestInv, SleepInv, SleepOf
    <2>7. WakeOf(p)'
      <3>1. pc[Prim(p)] = "deactivateWait" => status[p] = "RUN"
        BY DEF RequestInv, WakeInv, WakeOf
      <3>2. CASE status[p] = "STOP" \/ status[p] = "INACTIVE" \/ (status[p] = "ACTIVE" /\ ~interrupt[p])
        <4>1. s = status[p] /\ s # "RUN"
          BY <3>2 DEF s
        <4>. QED
          BY <2>1, <2>2, <2>4, <3>1, <3>2, <4>1 DEF WakeOf
      <3>3. CASE ~(status[p] = "STOP" \/ status[p] = "INACTIVE" \/ (status[p] = "ACTIVE" /\ ~interrupt[p]))
        <4>1. s = "RUN" /\ l = "enter"
          BY <3>3 DEF s, l
        <4>. QED
          BY <2>2, <2>3, <4>1 DEF WakeOf, Busy
      <3>. QED
        BY <3>2, <3>3
    <2>. QED
      BY <2>1, <2>2, <2>3, <2>4, <2>5, <2>6, <2>7, OneStep
  <1>2. CASE SecondaryEnter(p) \/ SecondaryLeave(p) \/ (HandBack(p) /\ interrupt[p])
    <2>1. PICK l \in {"loop", "handBack", "top"} :
            Goto(Sec(p), l) /\ pc[Sec(p)] \in {"enter", "leave", "handBack"}
      BY <1>2 DEF SecondaryEnter, SecondaryLeave, HandBack, Goto
    <2>2. UNCHANGED <<status, interrupt, hl, timeout, listed, listLock, alive, call, owed, told>>
      BY <1>2 DEF SecondaryEnter, SecondaryLeave, HandBack, listvars
    <2>3. Calm(pc[Sec(p)], l) /\ Stands(Sec(p), l)
      BY <2>1 DEF Calm, Steady, Stands, Nowhere, Armed, Away, Asking, Busy, Service
    <2>. QED
      BY <1>0, <2>1, <2>2, <2>3, CalmStep
  <1>3. CASE HandBack(p) /\ ~interrupt[p]
    <2>1. /\ pc[Sec(p)] = "handBack" /\ status' = [status EXCEPT ![p] = "ACTIVE"]
          /\ Signal(p, [pc EXCEPT ![Sec(p)] = "top"]) /\ "top" \in SecPC
          /\ UNCHANGED <<interrupt, hl, timeout, listed, listLock, alive, call, owed, told>>
      BY <1>3 DEF HandBack, listvars, SecPC
    <2>2. \A u \in Thread \cup {Dispatcher} : u \notin {Prim(p), Sec(p)} => pc'[u] = pc[u]
      BY <1>0, <2>1, MovesAndSignals
    <2>3. /\ pc'[Sec(p)] = "top"
          /\ IF pc[Prim(p)] = "deactivateWait" THEN pc'[Prim(p)] = "deactivate"
             ELSE pc'[Prim(p)] = pc[Prim(p)]
      BY <1>0, <2>1, MovesAndSignals
    <2>4. status'[p] = "ACTIVE" /\ \A q \in Proc \ {p} : status'[q] = status[q]
      BY <2>1 DEF Types
    <2>5. p \in owed => HeldOf(F, p)'
      BY <2>1, <2>3 DEF RequestInv, HeldInv, HeldOf, Armed, Away, Asking
    <2>6. SleepOf(p)'
      BY <2>1, <2>3 DEF RequestInv, SleepInv, SleepOf
    <2>7. WakeOf(p)'
      BY <1>3, <2>1, <2>3, <2>4 DEF WakeOf
    <2>8. \/ pc'[Prim(p)] = pc[Prim(p)]
          \/ {pc[Prim(p)], pc'[Prim(p)]} \cap (Nowhere \cup {"free"} \cup Asking) = {}
      BY <2>3 DEF Nowhere, Asking
    <2>. QED
      BY <2>1, <2>2, <2>4, <2>5, <2>6, <2>7, <2>8, OneStep
  <1>. QED
    BY <1>1, <1>2, <1>3

(* A waiting worker wakes by itself.                                       *)
LEMMA SpuriousKeeps ==
  ASSUME NEW F, Before, RequestInv(F), NEW p \in Proc, Spurious(p)
  PROVE  RequestInv(F)'
  <1>. Places(pc) /\ Types
    BY TypeParts DEF Before
  <1>1. UNCHANGED <<status, interrupt, hl, timeout, listed, listLock, alive, call, owed, told>>
    BY DEF Spurious, procvars, listvars
  <1>2. PICK t \in Waiting(p) : Goto(t, Awake(pc[t]))
    BY DEF Spurious
  <1>3. t \in {Prim(p), Sec(p)} /\ t \in Thread \cup {Dispatcher} /\ Prim(p) # Sec(p)
    BY Threads, Names DEF Waiting
  <1>4. pc'[t] = Awake(pc[t]) /\ \A u \in Thread \cup {Dispatcher} : u # t => pc'[u] = pc[u]
    BY <1>2, <1>3, Goes
  <1>5. \/ t = Prim(p) /\ pc[t] = "deactivateWait" /\ pc'[t] = "deactivate" /\ pc'[Sec(p)] = pc[Sec(p)]
        \/ t = Sec(p) /\ pc[t] = "secWait" /\ pc'[t] = "top" /\ pc'[Prim(p)] = pc[Prim(p)]
    <2>1. CASE t = Prim(p)
      <3>1. pc[t] = "deactivateWait"
        BY <1>2, <2>1 DEF Waiting, Places, ProcPC, Service, Away, Stopping
      <3>. QED
        BY <1>3, <1>4, <2>1, <3>1, Threads DEF Awake
    <2>2. CASE t = Sec(p)
      <3>1. pc[t] = "secWait"
        BY <1>2, <2>2 DEF Waiting, Places, SecPC, Service
      <3>. QED
        BY <1>3, <1>4, <2>2, <3>1, Threads DEF Awake
    <2>. QED
      BY <1>3, <2>1, <2>2
  <1>6. p \in owed => HeldOf(F, p)'
    BY <1>1, <1>5 DEF RequestInv, HeldInv, HeldOf, Armed, Away, Asking
  <1>7. SleepOf(p)'
    BY <1>1, <1>5 DEF RequestInv, SleepInv, SleepOf
  <1>8. WakeOf(p)'
    <2>1. WakeFrame(p)
      BY <1>1, <1>5 DEF WakeFrame, Busy, Service
    <2>2. Afoot(p)
      BY <1>1, <1>3, <1>4, <1>5, Threads DEF Afoot
    <2>. QED
      BY <2>1, <2>2, WakeOfKept DEF RequestInv, WakeInv
  <1>9. \/ pc'[Prim(p)] = pc[Prim(p)]
        \/ {pc[Prim(p)], pc'[Prim(p)]} \cap (Nowhere \cup {"free"} \cup Asking) = {}
    BY <1>5 DEF Nowhere, Asking
  <1>. QED
    BY <1>1, <1>3, <1>4, <1>6, <1>7, <1>8, <1>9, OneStep

(* secondaryStop, and the join.                                            *)
LEMMA StopKeeps ==
  ASSUME NEW F, Before, RequestInv(F), NEW p \in Proc, StopSecondary(p) \/ Join(p)
  PROVE  RequestInv(F)'
  <1>. Places(pc) /\ Types
    BY TypeParts DEF Before
  <1>1. UNCHANGED <<interrupt, hl, timeout, listed, listLock, alive, call, owed, told>>
    BY DEF StopSecondary, Join, procvars, listvars
  <1>2. /\ \A u \in Thread \cup {Dispatcher} : u \notin {Prim(p), Sec(p)} => pc'[u] = pc[u]
        /\ pc'[Prim(p)] \in {"join", "unlist"} /\ pc[Prim(p)] \in {"stopSecondary", "join"}
        /\ pc[Sec(p)] = "slice" => pc'[Sec(p)] = "slice"
        /\ status'[p] \notin {"ACTIVE", "RUN"} /\ \A q \in Proc \ {p} : status'[q] = status[q]
    <2>1. CASE StopSecondary(p)
      <3>1. /\ pc[Prim(p)] = "stopSecondary" /\ status' = [status EXCEPT ![p] = "STOP"]
            /\ Signal(p, [pc EXCEPT ![Prim(p)] = "join"]) /\ "join" \in ProcPC
        BY <2>1 DEF StopSecondary, ProcPC, Stopping
      <3>2. \A u \in Thread \cup {Dispatcher} : u \notin {Prim(p), Sec(p)} => pc'[u] = pc[u]
        BY <3>1, MovesAndSignals
      <3>3. /\ pc'[Prim(p)] = "join"
            /\ IF pc[Sec(p)] = "secWait" THEN pc'[Sec(p)] = "top" ELSE pc'[Sec(p)] = pc[Sec(p)]
        BY <3>1, MovesAndSignals
      <3>. QED
        BY <3>1, <3>2, <3>3 DEF Types
    <2>2. CASE Join(p)
      <3>1. /\ pc[Prim(p)] = "join" /\ pc[Sec(p)] = "done" /\ status' = status
            /\ pc' = [pc EXCEPT ![Prim(p)] = "unlist", ![Sec(p)] = "off"]
        BY <2>2 DEF Join, procvars
      <3>2. /\ pc'[Prim(p)] = "unlist"
            /\ \A u \in Thread \cup {Dispatcher} : u \notin {Prim(p), Sec(p)} => pc'[u] = pc[u]
        BY <3>1, Threads, Names DEF Places
      <3>3. status[p] \notin {"ACTIVE", "RUN"}
        BY <3>1 DEF Before, CustodyInv, Told, ToldOf, Away
      <3>. QED
        BY <3>1, <3>2, <3>3
    <2>. QED
      BY <2>1, <2>2
  <1>3. p \in owed => HeldOf(F, p)'
    BY <1>1, <1>2 DEF RequestInv, HeldInv, HeldOf, Armed, Away, Asking
  <1>4. SleepOf(p)'
    BY <1>1, <1>2 DEF RequestInv, SleepInv, SleepOf
  <1>5. WakeOf(p)'
    BY <1>2 DEF WakeOf
  <1>6. {pc[Prim(p)], pc'[Prim(p)]} \cap (Nowhere \cup {"free"} \cup Asking) = {}
    BY <1>2 DEF Nowhere, Asking
  <1>. QED
    BY <1>1, <1>2, <1>3, <1>4, <1>5, <1>6, OneStep

-----------------------------------------------------------------------------
(* A processor leaves the list while nobody walks it.                      *)
LEMMA UnlistKeeps ==
  ASSUME NEW F, Before, RequestInv(F), NEW p \in Proc, Unlist(p)
  PROVE  RequestInv(F)'
  <1>. Places(pc) /\ Types
    BY TypeParts DEF Before
  <1>1. /\ pc[Prim(p)] = "unlist" /\ listLock = Null /\ listed' = listed \ {p}
        /\ owed' = owed \ {p} /\ told' \subseteq told
        /\ UNCHANGED <<status, interrupt, hl, timeout, listLock, alive, call>>
    BY DEF Unlist, procvars
  <1>2. /\ pc'[Prim(p)] = "free"
        /\ \A u \in Thread \cup {Dispatcher} : u # Prim(p) =>
             pc'[u] = pc[u] \/ (pc[u] = "exitWait" /\ pc'[u] = "wait")
    BY Threads DEF Unlist, Places
  <1>3. \A q \in Proc : pc'[Sec(q)] = pc[Sec(q)]
    <2>1. \A q \in Proc : pc[Sec(q)] # "exitWait" /\ Sec(q) # Prim(p)
      BY Names DEF Places, SecPC, Service
    <2>. QED
      BY <1>2, <2>1, Threads
  <1>4. \A q \in Proc \ {p} : pc'[Prim(q)] = pc[Prim(q)] \/ (pc[Prim(q)] = "exitWait" /\ pc'[Prim(q)] = "wait")
    BY <1>2, Threads, Names
  <1>5. \A c \in Caller : pc'[c] \in Asking => pc'[c] = pc[c] /\ c # Prim(p)
    BY <1>2, Threads DEF Asking
  <1>6. ListInv'
    <2>1. \A q \in Proc : pc'[Prim(q)] \in Nowhere <=> pc[Prim(q)] \in Nowhere
      BY <1>1, <1>2, <1>4 DEF Nowhere
    <2>2. \A q \in Proc \ {p} : pc'[Prim(q)] \in Nowhere \cup {"free"} <=> pc[Prim(q)] \in Nowhere \cup {"free"}
      BY <1>4 DEF Nowhere
    <2>3. ASSUME NEW c \in Caller, pc'[c] \in Asking PROVE Rightful(c)'
      <3>1. Rightful(c) /\ call' = call /\ listLock # c
        BY <1>1, <1>5, <2>3, NullAssumption DEF RequestInv, ListInv
      <3>. QED
        BY <3>1 DEF Rightful
    <2>. QED
      BY <1>1, <2>1, <2>2, <2>3 DEF RequestInv, ListInv, Types
  <1>7. ASSUME NEW q \in owed' PROVE HeldOf(F, q)'
    <2>1. q \in Proc \ {p} /\ HeldOf(F, q)
      BY <1>1 DEF RequestInv, HeldInv, Types
    <2>2. HeldFrame(q)
      BY <1>1, <1>3, <1>4, <2>1 DEF HeldFrame, Armed, Away, Asking
    <2>. QED
      BY <2>1, <2>2, HeldOfKept
  <1>8. ASSUME NEW q \in Proc PROVE SleepOf(q)' /\ WakeOf(q)'
    <2>1. SleepOf(q) /\ WakeOf(q)
      BY DEF RequestInv, SleepInv, WakeInv
    <2>2. pc'[Prim(q)] = pc[Prim(q)] \/ pc'[Prim(q)] \in {"free", "wait"}
      BY <1>2, <1>4
    <2>3. SleepFrame(q)
      BY <1>1, <2>2 DEF SleepFrame
    <2>4. WakeFrame(q)
      BY <1>1, <1>3, <2>2 DEF WakeFrame
    <2>5. Afoot(q)
      BY <1>1, <1>2, Threads DEF Afoot
    <2>. QED
      BY <2>1, <2>3, <2>4, <2>5, SleepOfKept, WakeOfKept
  <1>. QED
    BY <1>6, <1>7, <1>8 DEF RequestInv, HeldInv, SleepInv, WakeInv

(* Its mutexes are destroyed; the process ends.                            *)
LEMMA EndKeeps ==
  ASSUME NEW F, Before, RequestInv(F), NEW p \in Proc, Free(p) \/ (p = Main /\ RuntimeDestroy)
  PROVE  RequestInv(F)'
  <1>. Places(pc) /\ Types
    BY TypeParts DEF Before
  <1>1. PICK l \in {"destroy", "off", "gone"} : Goto(Prim(p), l)
    BY DEF Free, RuntimeDestroy
  <1>2. /\ pc[Prim(p)] \in {"free", "destroy"}
        /\ UNCHANGED <<status, interrupt, hl, timeout, listed, listLock, call, owed, told>>
    BY DEF Free, RuntimeDestroy, procvars, listvars
  <1>3. alive' = alive \ {p}
    <2>1. CASE Free(p)
      BY <2>1 DEF Free
    <2>2. CASE p = Main /\ RuntimeDestroy
      <3>1. p \notin alive /\ alive' = alive
        BY <2>2 DEF RuntimeDestroy, listvars, RequestInv, ListInv, Nowhere
      <3>. QED
        BY <3>1
    <2>. QED
      BY <2>1, <2>2
  <1>4. p \notin listed /\ p \notin owed
    BY <1>2 DEF RequestInv, ListInv, Nowhere
  <1>5. pc'[Prim(p)] = l /\ \A u \in Thread \cup {Dispatcher} : u # Prim(p) => pc'[u] = pc[u]
    BY <1>1, Goes, Threads
  <1>6. /\ \A q \in Proc \ {p} : pc'[Prim(q)] = pc[Prim(q)]
        /\ \A q \in Proc : pc'[Sec(q)] = pc[Sec(q)]
    BY <1>5, Threads, Names
  <1>7. ListInv'
    <2>1. ASSUME NEW q \in Proc PROVE q \in alive' <=> pc'[Prim(q)] \notin Nowhere
      BY <1>3, <1>5, <1>6 DEF RequestInv, ListInv, Nowhere
    <2>2. \A q \in listed : q \in Proc /\ q # p /\ pc'[Prim(q)] \notin Nowhere \cup {"free"}
      BY <1>4, <1>6 DEF RequestInv, ListInv, Types
    <2>3. ASSUME NEW c \in Caller, pc'[c] \in Asking PROVE Rightful(c)'
      <3>1. pc[c] \in Asking
        BY <1>5, <2>3, Threads DEF Asking
      <3>. QED
        BY <1>2, <3>1 DEF RequestInv, ListInv, Rightful
    <2>. QED
      BY <1>2, <2>1, <2>2, <2>3 DEF RequestInv, ListInv
  <1>8. ASSUME NEW q \in owed' PROVE HeldOf(F, q)'
    <2>1. q \in Proc \ {p} /\ HeldOf(F, q)
      BY <1>2, <1>4 DEF RequestInv, HeldInv, Types
    <2>2. HeldFrame(q)
      BY <1>2, <1>6, <2>1 DEF HeldFrame
    <2>. QED
      BY <2>1, <2>2, HeldOfKept
  <1>9. ASSUME NEW q \in Proc PROVE SleepOf(q)' /\ WakeOf(q)'
    <2>1. SleepOf(q) /\ WakeOf(q)
      BY DEF RequestInv, SleepInv, WakeInv
    <2>2. pc'[Prim(q)] = pc[Prim(q)] \/ pc'[Prim(q)] \in {"destroy", "off", "gone"}
      BY <1>5, <1>6
    <2>3. SleepFrame(q)
      BY <1>2, <2>2 DEF SleepFrame
    <2>4. WakeFrame(q)
      BY <1>2, <1>6, <2>2 DEF WakeFrame
    <2>5. Afoot(q)
      BY <1>2, <1>5, Threads DEF Afoot
    <2>. QED
      BY <2>1, <2>3, <2>4, <2>5, SleepOfKept, WakeOfKept
  <1>. QED
    BY <1>7, <1>8, <1>9 DEF RequestInv, HeldInv, SleepInv, WakeInv

(* chiProcessorTryStart: nobody has asked the new processor for anything.  *)
LEMMA TryStartKeeps ==
  ASSUME NEW F, Before, RequestInv(F), NEW q \in Proc, NEW p \in Proc, TryStart(q, p)
  PROVE  RequestInv(F)'
  <1>. Places(pc) /\ Types
    BY TypeParts DEF Before
  <1>1. /\ pc[Prim(q)] = "run" /\ pc[Prim(p)] = "off" /\ p # q
        /\ pc' = [pc EXCEPT ![Prim(q)] = "starting", ![Prim(p)] = "init"]
        /\ status' = [status EXCEPT ![p] = "INACTIVE"]
        /\ interrupt' = [interrupt EXCEPT ![p] = FALSE]
        /\ hl' = [hl EXCEPT ![p] = TRUE]
        /\ timeout' = [timeout EXCEPT ![p] = FALSE]
        /\ call' = [call EXCEPT ![Prim(p)] = [NoCall EXCEPT !.to = Prim(q)]]
        /\ UNCHANGED <<listed, listLock, alive, owed, told>>
    BY DEF TryStart, listvars
  <1>2. /\ pc'[Prim(q)] = "starting" /\ pc'[Prim(p)] = "init"
        /\ \A u \in Thread \cup {Dispatcher} : u \notin {Prim(p), Prim(q)} => pc'[u] = pc[u]
    BY <1>1, Threads, Names DEF Places
  <1>3. /\ \A r \in Proc \ {p, q} : pc'[Prim(r)] = pc[Prim(r)]
        /\ \A r \in Proc : pc'[Sec(r)] = pc[Sec(r)]
    BY <1>2, Threads, Names
  <1>4. \A c \in Caller : c # Prim(p) => call'[c] = call[c]
    BY <1>1 DEF Types
  <1>5. /\ status'[p] = "INACTIVE" /\ ~timeout'[p]
        /\ \A r \in Proc \ {p} : /\ status'[r] = status[r] /\ interrupt'[r] = interrupt[r]
                                 /\ hl'[r] = hl[r] /\ timeout'[r] = timeout[r]
    BY <1>1 DEF Types
  <1>6. p \notin listed /\ p \notin owed
    BY <1>1 DEF RequestInv, ListInv, Nowhere
  <1>7. \A c \in Caller : pc'[c] \in Asking => pc[c] \in Asking /\ c # Prim(p)
    BY <1>2, Threads DEF Asking
  <1>8. ListInv'
    <2>1. \A r \in Proc : pc'[Prim(r)] \in Nowhere <=> pc[Prim(r)] \in Nowhere
      BY <1>1, <1>2, <1>3 DEF Nowhere
    <2>2. \A r \in Proc : pc'[Prim(r)] \in Nowhere \cup {"free"} <=> pc[Prim(r)] \in Nowhere \cup {"free"}
      BY <1>1, <1>2, <1>3 DEF Nowhere
    <2>3. ASSUME NEW c \in Caller, pc'[c] \in Asking PROVE Rightful(c)'
      BY <1>1, <1>4, <1>7, <2>3 DEF RequestInv, ListInv, Rightful
    <2>. QED
      BY <1>1, <2>1, <2>2, <2>3 DEF RequestInv, ListInv, Types
  <1>9. ASSUME NEW r \in owed' PROVE HeldOf(F, r)'
    <2>1. r \in Proc \ {p} /\ HeldOf(F, r) /\ Prim(r) # Prim(p) /\ Prim(r) \in Caller
      BY <1>1, <1>6, Names DEF RequestInv, HeldInv, Types
    <2>2. HeldFrame(r)
      BY <1>1, <1>2, <1>3, <1>4, <1>5, <2>1 DEF HeldFrame, Armed, Asking
    <2>. QED
      BY <2>1, <2>2, HeldOfKept
  <1>10. \A r \in Proc : Afoot(r)
    BY <1>1, <1>2, <1>4, Threads DEF Afoot
  <1>11. ASSUME NEW r \in Proc PROVE SleepOf(r)' /\ WakeOf(r)'
    <2>1. CASE r = p
      BY <1>2, <1>5, <2>1 DEF SleepOf, WakeOf
    <2>2. CASE r # p
      <3>1. SleepOf(r) /\ WakeOf(r)
        BY DEF RequestInv, SleepInv, WakeInv
      <3>2. pc'[Prim(r)] = pc[Prim(r)] \/ pc'[Prim(r)] = "starting"
        BY <1>2, <1>3, <2>2
      <3>3. SleepFrame(r)
        BY <1>1, <1>5, <2>2, <3>2 DEF SleepFrame
      <3>4. WakeFrame(r)
        BY <1>3, <1>5, <2>2, <3>2 DEF WakeFrame
      <3>. QED
        BY <1>10, <3>1, <3>3, <3>4, SleepOfKept, WakeOfKept
    <2>. QED
      BY <2>1, <2>2
  <1>. QED
    BY <1>8, <1>9, <1>11 DEF RequestInv, HeldInv, SleepInv, WakeInv

(* initProcessor: into the list, or away again.                            *)
LEMMA InitProcessorKeeps ==
  ASSUME NEW F, Before, RequestInv(F), NEW p \in Proc, InitProcessor(p)
  PROVE  RequestInv(F)'
  <1>. Places(pc) /\ Types
    BY TypeParts DEF Before
  <1>1. /\ pc[Prim(p)] = "init" /\ call' = [call EXCEPT ![Prim(p)] = NoCall]
        /\ UNCHANGED <<status, interrupt, hl, timeout, listLock, owed, told>>
    BY DEF InitProcessor, procvars
  <1>2. PICK q \in Proc : call[Prim(p)].to = Prim(q) /\ pc[Prim(q)] = "starting"
    BY <1>1 DEF Before, CustodyInv, Starters
  <1>3. p # q
    BY <1>1, <1>2
  <1>4. PICK k \in {"run", "off"} :
          /\ pc'[Prim(q)] = "run" /\ pc'[Prim(p)] = k
          /\ \A u \in Thread \cup {Dispatcher} : u \notin {Prim(p), Prim(q), Sec(p)} => pc'[u] = pc[u]
          /\ k = "run" => /\ pc'[Sec(p)] = "top"
                          /\ listed' = listed \cup {p} /\ alive' = alive \cup {p}
          /\ k = "off" => /\ pc'[Sec(p)] = pc[Sec(p)] /\ listed' = listed /\ alive' = alive
    <2>1. CASE /\ listed' = listed \cup {p} /\ alive' = alive \cup {p}
               /\ pc' = [pc EXCEPT ![Prim(p)] = "run", ![Sec(p)] = "top", ![Prim(q)] = "run"]
      BY <1>3, <2>1, Threads, Names DEF Places
    <2>2. CASE /\ listed' = listed /\ alive' = alive
               /\ pc' = [pc EXCEPT ![Prim(p)] = "off", ![Prim(q)] = "run"]
      BY <1>3, <2>2, Threads, Names DEF Places
    <2>. QED
      BY <1>2, <2>1, <2>2 DEF InitProcessor
  <1>5. \A r \in Proc \ {p} : /\ pc'[Sec(r)] = pc[Sec(r)]
                              /\ r # q => pc'[Prim(r)] = pc[Prim(r)]
    BY <1>4, Threads, Names
  <1>6. \A c \in Caller : c # Prim(p) => call'[c] = call[c]
    BY <1>1 DEF Types
  <1>7. p \notin owed /\ listed \subseteq listed'
    BY <1>1, <1>4 DEF RequestInv, ListInv, Nowhere
  <1>8. \A c \in Caller : pc'[c] \in Asking => pc[c] \in Asking /\ c # Prim(p)
    BY <1>4, Threads DEF Asking
  <1>9. ListInv'
    <2>1. \A r \in Proc \ {p} : pc'[Prim(r)] \in Nowhere <=> pc[Prim(r)] \in Nowhere
      BY <1>2, <1>4, <1>5 DEF Nowhere
    <2>2. \A r \in Proc \ {p} : pc'[Prim(r)] \in Nowhere \cup {"free"} <=> pc[Prim(r)] \in Nowhere \cup {"free"}
      BY <1>2, <1>4, <1>5 DEF Nowhere
    <2>3. ASSUME NEW c \in Caller, pc'[c] \in Asking PROVE Rightful(c)'
      BY <1>1, <1>6, <1>7, <1>8, <2>3 DEF RequestInv, ListInv, Rightful
    <2>4. p \notin listed /\ p \notin alive
      BY <1>1 DEF RequestInv, ListInv, Nowhere
    <2>5. \A r \in Proc : r \in alive' <=> pc'[Prim(r)] \notin Nowhere
      BY <1>4, <2>1, <2>4 DEF RequestInv, ListInv, Nowhere
    <2>6. \A r \in listed' : pc'[Prim(r)] \notin Nowhere \cup {"free"}
      BY <1>4, <2>2, <2>4 DEF RequestInv, ListInv, Nowhere, Types
    <2>. QED
      BY <1>1, <1>7, <2>3, <2>5, <2>6 DEF RequestInv, ListInv
  <1>10. ASSUME NEW r \in owed' PROVE HeldOf(F, r)'
    <2>1. r \in Proc \ {p} /\ HeldOf(F, r) /\ Prim(r) # Prim(p) /\ Prim(r) \in Caller
      BY <1>1, <1>7, Names DEF RequestInv, HeldInv, Types
    <2>2. HeldFrame(r)
      BY <1>1, <1>2, <1>4, <1>5, <1>6, <2>1 DEF HeldFrame, Armed, Asking
    <2>. QED
      BY <2>1, <2>2, HeldOfKept
  <1>11. \A r \in Proc : Afoot(r)
    BY <1>1, <1>2, <1>4, <1>6, Threads DEF Afoot
  <1>12. ASSUME NEW r \in Proc PROVE SleepOf(r)' /\ WakeOf(r)'
    <2>1. SleepOf(r) /\ WakeOf(r)
      BY DEF RequestInv, SleepInv, WakeInv
    <2>2. pc'[Prim(r)] = pc[Prim(r)] \/ pc'[Prim(r)] \in {"run", "off"}
      BY <1>4, <1>5
    <2>3. SleepFrame(r)
      BY <1>1, <2>2 DEF SleepFrame
    <2>4. CASE r = p
      <3>1. status'[p] \notin {"ACTIVE", "RUN"}
        BY <1>1 DEF Before, CustodyInv, Told, ToldOf, Away
      <3>2. WakeOf(p)'
        BY <1>4, <3>1 DEF WakeOf
      <3>. QED
        BY <2>1, <2>3, <2>4, <3>2, SleepOfKept
    <2>5. CASE r # p
      <3>1. WakeFrame(r)
        BY <1>1, <1>5, <2>2, <2>5 DEF WakeFrame
      <3>. QED
        BY <1>11, <2>1, <2>3, <3>1, SleepOfKept, WakeOfKept
    <2>. QED
      BY <2>4, <2>5
  <1>. QED
    BY <1>9, <1>10, <1>12 DEF RequestInv, HeldInv, SleepInv, WakeInv

-----------------------------------------------------------------------------
(* In the beginning nobody has asked.                                      *)
LEMMA InitRequests ==
  ASSUME NEW F, Init
  PROVE  RequestInv(F)
  <1>1. /\ pc[Dispatcher] = "idle"
        /\ \A p \in Proc : /\ pc[Prim(p)] = IF p = Main THEN "run" ELSE "off"
                           /\ pc[Sec(p)] = IF p = Main THEN "top" ELSE "off"
    BY Names, ProcAssumption DEF Init
  <1>2. /\ listed = {Main} /\ alive = {Main} /\ owed = {} /\ told = {}
        /\ \A p \in Proc : status[p] = "INACTIVE" /\ ~timeout[p]
    BY DEF Init
  <1>3. ListInv
    <2>1. \A c \in Caller : pc[c] \notin Asking
      BY <1>1, Names DEF Asking
    <2>2. \A p \in Proc : pc[Prim(p)] \notin Nowhere <=> p = Main
      BY <1>1 DEF Nowhere
    <2>3. pc[Prim(Main)] \notin Nowhere \cup {"free"}
      BY <1>1, ProcAssumption DEF Nowhere
    <2>. QED
      BY <1>2, <2>1, <2>2, <2>3 DEF ListInv
  <1>4. HeldInv(F)
    BY <1>2 DEF HeldInv
  <1>5. SleepInv /\ WakeInv
    <2>1. \A p \in Proc : pc[Prim(p)] \in {"run", "off"}
      BY <1>1
    <2>2. SleepInv
      BY <1>2, <2>1 DEF SleepInv, SleepOf
    <2>3. WakeInv
      BY <1>2, <2>1 DEF WakeInv, WakeOf
    <2>. QED
      BY <2>2, <2>3
  <1>. QED
    BY <1>3, <1>4, <1>5 DEF RequestInv

(* A step that changes nothing.                                            *)
LEMMA StutterKeeps ==
  ASSUME NEW F, RequestInv(F), UNCHANGED vars
  PROVE  RequestInv(F)'
  <1>. UNCHANGED <<pc, status, interrupt, hl, timeout, listed, listLock, alive, call, owed, told>>
    BY DEF vars, procvars, listvars
  <1>1. ListInv' /\ HeldInv(F)'
    BY DEF RequestInv, ListInv, Rightful, HeldInv, HeldOf
  <1>2. SleepInv' /\ WakeInv'
    BY DEF RequestInv, SleepInv, SleepOf, WakeInv, WakeOf
  <1>. QED
    BY <1>1, <1>2 DEF RequestInv

(* Every step keeps the invariant, provided that those which may forget an *)
(* interrupt are of processors in F.                                       *)
LEMMA StepKeeps ==
  ASSUME NEW F, Before, RequestInv(F), [Next]_vars,
         \A p \in Proc : StackOverflow(p) \/ WriteLimit(p, "fill") => p \in F
  PROVE  RequestInv(F)'
  <1>1. CASE UNCHANGED vars \/ Gone
    BY <1>1, StutterKeeps DEF Gone
  <1>2. CASE Next
    <2>1. CASE (\E k \in Kind : Dispatch(k)) \/ WaitProcessors
      BY <2>1, WalkKeeps
    <2>2. ASSUME NEW c \in Caller, Request(c) PROVE RequestInv(F)'
      BY <2>2, InterruptKeeps, WakeKeeps, NextKeeps DEF Request
    <2>3. ASSUME NEW p \in Proc, Run(p) PROVE RequestInv(F)'
      BY <2>3, BumpKeeps, SleepKeeps, ProtectKeeps, LeaveKeeps, TryStartKeeps DEF Run, GrowHeap
    <2>4. ASSUME NEW p \in Proc, Yield(p) \/ ForeignReturn(p) \/ ParkTimeout(p) PROVE RequestInv(F)'
      BY <2>4, CodeKeeps, LeaveKeeps, SleepKeeps
    <2>5. ASSUME NEW p \in Proc, Proceed(p) PROVE RequestInv(F)'
      <3>1. CASE Request(Prim(p)) \/ Serve(p, Prim(p))
        BY <2>2, <3>1, ServeKeeps, Names
      <3>2. CASE Restore(p) \/ Check(p) \/ Resume(p) \/ ProtectEnd(p)
        BY <3>2, CodeKeeps, RestoreKeeps
      <3>3. CASE Park(p) \/ ExitProcessor(p) \/ Deactivate(p)
        BY <3>3, SleepKeeps, LeaveKeeps, DeactivateKeeps
      <3>4. CASE InitProcessor(p) \/ StopSecondary(p) \/ Join(p) \/ Unlist(p) \/ Free(p)
        BY <3>4, InitProcessorKeeps, StopKeeps, UnlistKeeps, EndKeeps
      <3>5. CASE \/ Grow(p) \/ GrowStack(p) \/ StackOverflow(p) \/ LookLimit(p)
                 \/ WriteLimit(p, "zero") \/ WriteLimit(p, "fill")
        BY <3>5, BumpKeeps, LimitKeeps DEF Grow
      <3>. QED
        BY <2>5, <3>1, <3>2, <3>3, <3>4, <3>5 DEF Proceed
    <2>6. ASSUME NEW p \in Proc, Secondary(p) \/ Spurious(p) PROVE RequestInv(F)'
      BY <2>6, SecondaryKeeps, ServeKeeps, SpuriousKeeps DEF Secondary
    <2>7. CASE RuntimeDestroy
      BY <2>7, EndKeeps, ProcAssumption
    <2>. QED
      BY <1>1, <1>2, <2>1, <2>2, <2>3, <2>4, <2>5, <2>6, <2>7, Names DEF Next
  <1>. QED
    BY <1>1, <1>2

-----------------------------------------------------------------------------
(* The invariant holds in every state, together with CustodyInv.           *)
THEOREM RequestInvariant == Spec => [](TypeOK /\ CustodyInv /\ RequestInv(Proc))
  <1>1. Init => RequestInv(Proc)
    BY InitRequests
  <1>2. (TypeOK /\ CustodyInv) /\ RequestInv(Proc) /\ [Next]_vars => RequestInv(Proc)'
    BY StepKeeps DEF Before
  <1>. QED
    BY <1>1, <1>2, CustodyInvariant, PTL DEF Spec

(* Of the handshakes that were asked for, chiYield and chiGrowHeap forget  *)
(* those alone that come to a stack which cannot grow, or between the look *)
(* at the interrupt and the write of the limit; every other one holds      *)
(* compiled code up at its next safe point.                                *)
THEOREM InterruptsHold == Spec => NoLostInterrupt
  <1>. DEFINE Heeded == \A p \in Proc :
                Forgotten(p)' => Forgotten(p) \/ StackOverflow(p) \/ WriteLimit(p, "fill")
  <1>1. ASSUME TypeOK /\ CustodyInv /\ RequestInv(Proc), [Next]_vars
        PROVE  Heeded
    <2>. SUFFICES ASSUME NEW p \in Proc, ~Forgotten(p), ~StackOverflow(p), ~WriteLimit(p, "fill")
                  PROVE  ~Forgotten(p)'
      OBVIOUS
    <2>. DEFINE Others == Proc \ {p}
    <2>1. \A q \in Proc : StackOverflow(q) \/ WriteLimit(q, "fill") => q \in Others
      OBVIOUS
    <2>2. p \notin Others
      OBVIOUS
    <2>3. RequestInv(Others)
      BY <1>1 DEF RequestInv, HeldInv, HeldOf, Forgotten, Blind, Asking
    <2>. HIDE DEF Others
    <2>4. RequestInv(Others)'
      BY <1>1, <2>1, <2>3, StepKeeps DEF Before
    <2>. QED
      BY <2>2, <2>4 DEF RequestInv, HeldInv, HeldOf, Forgotten, Blind, Asking
  <1>. QED
    BY <1>1, RequestInvariant, PTL DEF Spec, NoLostInterrupt

(* The secondary worker does not sleep on a request while it stands in.    *)
THEOREM WakeupsArrive == Spec => []NoLostWakeup
  <1>1. RequestInv(Proc) => NoLostWakeup
    BY DEF RequestInv, WakeInv, WakeOf, NoLostWakeup
  <1>. QED
    BY <1>1, RequestInvariant, PTL

(* A processor told to wake does not fall asleep in chiProcessorPark.      *)
THEOREM NeverAsleep == Spec => []NotAsleep
  <1>1. TypeOK /\ RequestInv(Proc) => NotAsleep
    BY DEF TypeOK, RequestInv, SleepInv, SleepOf, NotAsleep
  <1>. QED
    BY <1>1, RequestInvariant, PTL

(* A request that walks the list uses the mutexes of live processors only. *)
THEOREM RequestsAlive == Spec => []RequestAlive
  <1>1. TypeOK /\ CustodyInv /\ RequestInv(Proc) => RequestAlive
    <2>. SUFFICES ASSUME TypeOK, CustodyInv, RequestInv(Proc), NEW c \in Caller, pc[c] \in Asking,
                         call[c].kind # "NOTIFY"
                  PROVE  call[c].to \in alive
      BY DEF RequestAlive, Asking
    <2>1. Rightful(c) /\ call[c].to \in Proc
      BY DEF RequestInv, ListInv, CustodyInv, Calls, Sound
    <2>2. CASE call[c].kind = "SCAVENGE"
      <3>1. pc[Prim(call[c].to)] \notin Nowhere
        BY <2>1, <2>2 DEF Rightful, Nowhere, Asking
      <3>. QED
        BY <2>1, <3>1 DEF RequestInv, ListInv
    <2>3. CASE call[c].kind # "SCAVENGE"
      <3>1. call[c].to \in listed
        BY <2>1, <2>3 DEF Rightful
      <3>. QED
        BY <2>1, <3>1 DEF RequestInv, ListInv
    <2>. QED
      BY <2>2, <2>3
  <1>. QED
    BY <1>1, RequestInvariant, PTL

=============================================================================
