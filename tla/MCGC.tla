------------------------------- MODULE MCGC -------------------------------
(***************************************************************************)
(* Instances of GC for TLC: symmetries, and the constraints that cut the   *)
(* larger instances down to the executions a run is about.  A constraint   *)
(* keeps TLC from continuing behind a state; what led there is checked.    *)
(***************************************************************************)
EXTENDS GCSafety, TLC

CONSTANT Leaf  \* objects that never hold a reference

(* Objects are interchangeable where nothing but Leaf tells them apart.    *)
HeapSymmetry == Permutations(Obj \ Leaf)

(* So are the processors other than the main one, and objects.             *)
ProcSymmetry == HeapSymmetry \cup Permutations(Proc \ {Main})

(* One whole collection.                                                   *)
OneCycle == epoch[Main] = 0 \/ phase = "IDLE"

(* One whole collection, and the first handshake of the next one.          *)
FirstCycle == OneCycle \/ (epoch[Main] = 1 /\ phase = "SYNC1")

(* The main processor is interrupted while it runs compiled code, not once *)
(* more while it serves an interrupt.                                      *)
Between == interrupt[Main] => pc[Main] \in {"run", "starting", "barrier", "write"}

(* The timer only interrupts a processor that lags behind the phase.       *)
Prompt == \A p \in listed : interrupt[p] => p = Main \/ lphase[p] # phase

(* A collection starts when every object and processor exists, and no      *)
(* processor is started or stopped until it ends.                          *)
Populated ==
  phase # "IDLE" => /\ \A o \in Obj : color[o] # Free
                    /\ \A p \in Proc : pc[p] \notin {"off", "init", "inherit", "destroy", "unlist"}

(* References lead from other objects to leaves only.                      *)
Shape ==
  /\ \A o \in Obj : field[o] \in (IF o \in Leaf THEN {Null} ELSE Leaf \cup {Null})
  /\ \A p \in Proc : store[p].obj \notin Leaf /\ store[p].val \in Leaf \cup {Null}

(* No nursery is exhausted: processors follow the phases and do no slices. *)
NoScavenge == \A p \in Proc : ~scavenge[p]

=============================================================================
