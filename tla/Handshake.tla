----------------------------- MODULE Handshake -----------------------------
(***************************************************************************)
(* What the phase handshake of the concurrent collector promises: the      *)
(* global phase advances cyclically, and only when every processor has     *)
(* acknowledged the current one; a processor acknowledges each phase in    *)
(* turn and never runs ahead of or more than one phase behind the global   *)
(* phase.  Processors come and go; a new one takes over the acknowledged   *)
(* phase of the processor that started it.                                 *)
(***************************************************************************)
EXTENDS GCPhase

CONSTANTS Proc,   \* processors
          Main    \* the processor that controls the global phase

VARIABLES phase,   \* global phase
          ack,     \* the phase each member has acknowledged
          member   \* the processors that take part

vars == <<phase, ack, member>>

Init ==
  /\ phase = "IDLE"
  /\ ack = [p \in Proc |-> "IDLE"]
  /\ member \in {S \in SUBSET Proc : Main \in S}

Advance ==
  /\ \A p \in member : ack[p] = phase
  /\ phase' = Succ[phase]
  /\ UNCHANGED <<ack, member>>

Acknowledge(p) ==
  /\ p \in member
  /\ ack[p] # phase
  /\ ack' = [ack EXCEPT ![p] = phase]
  /\ UNCHANGED <<phase, member>>

Enter(p, q) ==
  /\ p \notin member
  /\ q \in member
  /\ member' = member \cup {p}
  /\ ack' = [ack EXCEPT ![p] = ack[q]]
  /\ UNCHANGED phase

Leave(p) ==
  /\ p \in member \ {Main}
  /\ member' = member \ {p}
  /\ ack' = [ack EXCEPT ![p] = "IDLE"]
  /\ UNCHANGED phase

Next ==
  \/ Advance
  \/ \E p \in Proc : Acknowledge(p) \/ Leave(p)
  \/ \E p, q \in Proc : Enter(p, q)

Spec == Init /\ [][Next]_vars

=============================================================================
