------------------------------ MODULE StackScan ------------------------------
(***************************************************************************)
(* Who scans a stack for the collector (stack.c, mark.c, scavenger.c).     *)
(*                                                                         *)
(* A stack is locked while its thread runs.  The marker skips a stack that *)
(* it cannot lock and trusts that somebody else scans it: the processor    *)
(* that activates it, if it is not black then, or the scavenger in the     *)
(* snapshot of a processor that has deactivated it, which left it dirty.   *)
(*                                                                         *)
(* A behaviour begins with all processors in phase SYNC2 and leads to the  *)
(* end of the mark phase.  Registers are counted with the stack: they are  *)
(* saved on it when it is deactivated.  There is one field of a shared     *)
(* object through which processors exchange objects; objects have no       *)
(* fields.  Barrier and snapshot are single steps here (see GC for finer   *)
(* ones), as are scans under the lock of a stack.                          *)
(***************************************************************************)
EXTENDS Naturals, FiniteSets

CONSTANTS
  Runners,  \* processors
  Stacks,   \* stacks, each of a thread of its own
  Refs,     \* objects
  Overlap   \* whether the phase may change while a processor scavenges in SYNC2

VARIABLES
  global, local,  \* the phase of the collector and of each processor
  running,        \* the stacks that are active
  holder,         \* who has the lock of a stack, if not nobody
  onStack,        \* what is on a stack
  dirtyOf,        \* whose list of dirty objects a stack is in, if any
  stackColor,     \* white, gray or black
  found,          \* stacks the marker has found white and is about to shade
  gray,           \* stacks in a gray vector
  field,          \* the field of the shared object, a set of at most one
  fieldScanned,   \* whether that object is black
  state,          \* of an object: none, minor, or in the major heap white or marked
  slice,          \* what a processor scavenges: nothing, a plain scavenge, its snapshot
  todoStacks      \* dirty stacks it has not come to

vars == <<global, local, running, holder, onStack, dirtyOf, stackColor, found, gray, field,
          fieldScanned, state, slice, todoStacks>>

Nobody == "nobody"

(* No processor is called nobody, so that a lock without a holder is free. *)
RunnersValid == Nobody \notin Runners

Init ==
  /\ global = "SYNC2" /\ local = [p \in Runners |-> "SYNC2"]
  /\ running = [p \in Runners |-> {}]
  /\ holder = [s \in Stacks |-> Nobody]
  /\ state \in [Refs -> {"none", "white"}]
  /\ onStack \in [Stacks -> SUBSET {o \in Refs : state[o] = "white"}]
  /\ dirtyOf = [s \in Stacks |-> Nobody]
  /\ stackColor = [s \in Stacks |-> "white"]
  /\ found = {} /\ gray = {} /\ field = {} /\ fieldScanned = FALSE
  /\ slice = [p \in Runners |-> "no"]
  /\ todoStacks = [p \in Runners |-> {}]

(* chiMark of some objects: those of the minor heap are skipped.           *)
Marked(set) == [o \in Refs |-> IF o \in set /\ state[o] = "white" THEN "marked" ELSE state[o]]

Rest == UNCHANGED <<global, local, found, gray, slice, todoStacks>>

-----------------------------------------------------------------------------
(* Processors that run.                                                    *)

(* Broken: it leaves that to the marker.                                   *)
ScansActivated_never(p, s) == FALSE

(* scanActivatedStack: whether it scans.                                   *)
ScansActivated(p, s) == local[p] = "ASYNC" /\ stackColor[s] # "black"

(* chiStackActivate.  A thread that moves to another processor has been    *)
(* promoted before, so that its stack is not dirty any more (migrate).     *)
Activate(p, s) ==
  /\ slice[p] = "no" /\ running[p] = {}
  /\ holder[s] = Nobody /\ dirtyOf[s] \in {p, Nobody}
  /\ holder' = [holder EXCEPT ![s] = p]
  /\ running' = [running EXCEPT ![p] = {s}]
  /\ stackColor' = [stackColor EXCEPT ![s] = IF ScansActivated(p, s) THEN "black" ELSE @]
  /\ state' = IF ScansActivated(p, s) THEN Marked(onStack[s]) ELSE state
  /\ UNCHANGED <<onStack, dirtyOf, field, fieldScanned>> /\ Rest

(* chiStackDeactivate                                                      *)
Deactivate(p) ==
  \E s \in running[p] :
    /\ running' = [running EXCEPT ![p] = {}]
    /\ dirtyOf' = [dirtyOf EXCEPT ![s] = p]
    /\ holder' = [holder EXCEPT ![s] = Nobody]
    /\ UNCHANGED <<onStack, stackColor, field, fieldScanned, state>> /\ Rest

(* The thread allocates in the minor heap, loads, drops and stores.        *)
New(p, o) ==
  \E s \in running[p] :
    /\ state[o] = "none"
    /\ state' = [state EXCEPT ![o] = "minor"]
    /\ onStack' = [onStack EXCEPT ![s] = @ \cup {o}]
    /\ UNCHANGED <<running, holder, dirtyOf, stackColor, field, fieldScanned>> /\ Rest

Load(p) ==
  \E s \in running[p] :
    /\ onStack' = [onStack EXCEPT ![s] = @ \cup field]
    /\ UNCHANGED <<running, holder, dirtyOf, stackColor, field, fieldScanned, state>> /\ Rest

Pop(p, o) ==
  \E s \in running[p] :
    /\ o \in onStack[s]
    /\ onStack' = [onStack EXCEPT ![s] = @ \ {o}]
    /\ UNCHANGED <<running, holder, dirtyOf, stackColor, field, fieldScanned, state>> /\ Rest

(* chiFieldWrite with chiMarkBarrier.                                      *)
Store(p, o) ==
  \E s \in running[p] :
    /\ o \in onStack[s] /\ state[o] \in {"white", "marked"}
    /\ state' = Marked(field \cup IF local[p] = "SYNC2" THEN {o} ELSE {})
    /\ field' = {o}
    /\ UNCHANGED <<running, holder, onStack, dirtyOf, stackColor, fieldScanned>> /\ Rest

-----------------------------------------------------------------------------
(* The service routine of a processor.                                     *)
Threads == UNCHANGED <<global, running, field, fieldScanned, found, gray, onStack>>

(* chiGCSlice decides by the phase it reads now.                           *)
SliceBegin(p) ==
  /\ running[p] = {} /\ slice[p] = "no"
  /\ slice' = [slice EXCEPT ![p] =
                 IF global = "ASYNC" /\ local[p] = "SYNC2" THEN "snapshot" ELSE "plain"]
  /\ todoStacks' = [todoStacks EXCEPT ![p] = {s \in Stacks : dirtyOf[s] = p}]
  /\ UNCHANGED <<local, holder, dirtyOf, stackColor, state>> /\ Threads

(* scanDirtyStack                                                          *)
ScanLock(p, s) ==
  /\ s \in todoStacks[p] /\ holder[s] = Nobody
  /\ holder' = [holder EXCEPT ![s] = p]
  /\ UNCHANGED <<local, dirtyOf, stackColor, state, slice, todoStacks>> /\ Threads

(* copy, for what is on a stack: young objects stay in the minor heap or   *)
(* are promoted, with the colour new objects have; the snapshot marks.     *)
Scavenged(p, s, keep) ==
  [o \in Refs |->
     IF o \in onStack[s] /\ state[o] = "minor" /\ o \notin keep
     THEN IF slice[p] = "snapshot" \/ local[p] = "ASYNC" THEN "marked" ELSE "white"
     ELSE IF o \in onStack[s] /\ state[o] = "white" /\ slice[p] = "snapshot" THEN "marked"
     ELSE state[o]]

ScanDirtyStack(p, s) ==
  /\ s \in todoStacks[p] /\ holder[s] = p
  /\ \E keep \in SUBSET {o \in onStack[s] : state[o] = "minor"} :
       /\ state' = Scavenged(p, s, keep)
       /\ dirtyOf' = [dirtyOf EXCEPT ![s] = IF keep = {} THEN Nobody ELSE p]
  /\ stackColor' = [stackColor EXCEPT ![s] = IF slice[p] = "snapshot" THEN "black" ELSE @]
  /\ holder' = [holder EXCEPT ![s] = Nobody]
  /\ todoStacks' = [todoStacks EXCEPT ![p] = @ \ {s}]
  /\ UNCHANGED <<local, slice>> /\ Threads

SliceEnd(p) ==
  /\ slice[p] # "no" /\ todoStacks[p] = {}
  /\ local' = [local EXCEPT ![p] = IF slice[p] = "snapshot" THEN "ASYNC" ELSE @]
  /\ slice' = [slice EXCEPT ![p] = "no"]
  /\ UNCHANGED <<holder, dirtyOf, stackColor, state, todoStacks>> /\ Threads

-----------------------------------------------------------------------------
(* The collector.                                                          *)
Programs == UNCHANGED <<local, running, holder, onStack, dirtyOf, field, slice, todoStacks>>

(* All are in SYNC2, so gcPoll lets the phase change.                      *)
Advance ==
  /\ global = "SYNC2" /\ (Overlap \/ \A p \in Runners : slice[p] = "no")
  /\ global' = "ASYNC"
  /\ UNCHANGED <<stackColor, found, gray, fieldScanned, state>> /\ Programs

Marking == \E p \in Runners : local[p] = "ASYNC"

(* The marker comes to the thread of a stack (scanThread): doMark looks at *)
(* the colour and sets it in two steps ...                                 *)
ScanThread(s) ==
  /\ Marking /\ stackColor[s] = "white" /\ s \notin found
  /\ found' = found \cup {s}
  /\ UNCHANGED <<global, stackColor, gray, fieldScanned, state>> /\ Programs

ShadeStack(s) ==
  /\ s \in found
  /\ found' = found \ {s}
  /\ stackColor' = [stackColor EXCEPT ![s] = "gray"]
  /\ gray' = gray \cup {s}
  /\ UNCHANGED <<global, fieldScanned, state>> /\ Programs

(* ... and to the stack (scanStack), which may be locked or black.         *)
ScanStack(s) ==
  /\ s \in gray
  /\ LET scan == holder[s] = Nobody /\ stackColor[s] # "black"
     IN  /\ stackColor' = [stackColor EXCEPT ![s] = IF scan THEN "black" ELSE @]
         /\ state' = IF scan THEN Marked(onStack[s]) ELSE state
  /\ gray' = gray \ {s}
  /\ UNCHANGED <<global, found, fieldScanned>> /\ Programs

(* ... and to the shared object.                                           *)
ScanField ==
  /\ Marking /\ ~fieldScanned
  /\ fieldScanned' = TRUE
  /\ state' = Marked(field)
  /\ UNCHANGED <<global, stackColor, found, gray>> /\ Programs

Next ==
  \/ \E p \in Runners : \/ Deactivate(p) \/ Load(p) \/ SliceBegin(p) \/ SliceEnd(p)
                        \/ \E s \in Stacks : Activate(p, s) \/ ScanLock(p, s) \/ ScanDirtyStack(p, s)
                        \/ \E o \in Refs : New(p, o) \/ Pop(p, o) \/ Store(p, o)
  \/ Advance \/ ScanField
  \/ \E s \in Stacks : ScanThread(s) \/ ShadeStack(s) \/ ScanStack(s)

Spec == Init /\ [][Next]_vars

-----------------------------------------------------------------------------
(* All have taken their snapshot, and nothing is left to be scanned.       *)
MarkEnded ==
  /\ \A p \in Runners : local[p] = "ASYNC" /\ slice[p] = "no"
  /\ fieldScanned /\ found \cup gray = {} /\ \A s \in Stacks : stackColor[s] # "white"

(* However often a stack is activated while the marker comes to it, what   *)
(* is on it in the end is not garbage.                                     *)
StacksScanned ==
  MarkEnded => \A o \in field \cup UNION {onStack[s] : s \in Stacks} : state[o] # "white"

(* Does not hold: nor is the stack itself, as chiObjectGarbage does not    *)
(* spare gray objects of the cycle that has ended.                         *)
StacksBlack == MarkEnded => \A s \in Stacks : stackColor[s] = "black"

(* Does not hold (an assertion of scanDirtyStack): once a processor has    *)
(* taken its snapshot its dirty stacks are black.                          *)
DirtyStacksBlack ==
  \A p \in Runners, s \in Stacks :
    local[p] = "ASYNC" /\ slice[p] = "plain" /\ holder[s] = p /\ s \in todoStacks[p] => stackColor[s] = "black"

=============================================================================
