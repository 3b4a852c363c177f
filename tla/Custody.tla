------------------------------ MODULE Custody ------------------------------
(***************************************************************************)
(* What the workers of a processor promise (native/processor.c): a         *)
(* processor, its heap and its collector state are in the hands of one     *)
(* worker at a time, it is handed over only after it has been laid down,   *)
(* and a handshake is answered by the worker who holds the processor.      *)
(***************************************************************************)
CONSTANTS Proc, Main

VARIABLES
  holder,  \* the workers that hold a processor
  asked    \* the processors with an unanswered handshake

vars == <<holder, asked>>

Worker == {"primary", "secondary"}

Init ==
  /\ holder = [p \in Proc |-> IF p = Main THEN {"primary"} ELSE {}]
  /\ asked = {}

Take(p, w) ==
  /\ holder[p] = {}
  /\ holder' = [holder EXCEPT ![p] = {w}]
  /\ UNCHANGED asked

LayDown(p) ==
  /\ holder[p] # {}
  /\ holder' = [holder EXCEPT ![p] = {}]
  /\ UNCHANGED asked

Ask(p) ==
  /\ asked' = asked \cup {p}
  /\ UNCHANGED holder

(* The answer, or the end of the processor.                                *)
Answer(p) ==
  /\ holder[p] # {}
  /\ asked' = asked \ {p}
  /\ UNCHANGED holder

Next == \E p \in Proc : \/ \E w \in Worker : Take(p, w)
                        \/ LayDown(p) \/ Ask(p) \/ Answer(p)

Spec == Init /\ [][Next]_vars

=============================================================================
