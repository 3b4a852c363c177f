------------------------------ MODULE GCPhase ------------------------------
(***************************************************************************)
(* The phases of the on-the-fly collector (ChiGCPhase) and their cycle:    *)
(* two handshakes (SYNC1, SYNC2) before the asynchronous mark phase.       *)
(***************************************************************************)

Phase == {"IDLE", "SYNC1", "SYNC2", "ASYNC"}

Succ == [IDLE |-> "SYNC1", SYNC1 |-> "SYNC2", SYNC2 |-> "ASYNC", ASYNC |-> "IDLE"]
Pred == [IDLE |-> "ASYNC", SYNC1 |-> "IDLE", SYNC2 |-> "SYNC1", ASYNC |-> "SYNC2"]

=============================================================================
