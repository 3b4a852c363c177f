------------------------------ MODULE GCColor ------------------------------
(***************************************************************************)
(* The colours of objects in the major heap (include/chili/base.h) and the *)
(* mark state that gives them a meaning (gc.c).  A colour byte holds an    *)
(* epoch number and a SHADED bit; the byte wraps, so only EpochMod epochs  *)
(* are distinguished (64 in the code: uint8_t with _CHI_COLOR_EPOCH = 4).  *)
(* A mark state of epoch e calls the unshaded colour of e white, its       *)
(* shaded colour gray and the unshaded colour of the next epoch black.     *)
(***************************************************************************)
EXTENDS Naturals

CONSTANT EpochMod  \* number of epochs a colour byte can tell apart

ASSUME EpochModAssumption == EpochMod \in Nat /\ EpochMod >= 3

Epoch == 0 .. EpochMod - 1
Color == [epoch : Epoch, shaded : BOOLEAN]

(* Broken: the addition is not cut to the width of the colour byte.        *)
NextEpoch_wide(e) == e + 1

NextEpoch(e) == IF e = EpochMod - 1 THEN 0 ELSE e + 1

White(e) == [epoch |-> e, shaded |-> FALSE]
Gray(e)  == [epoch |-> e, shaded |-> TRUE]
Black(e) == [epoch |-> NextEpoch(e), shaded |-> FALSE]

(* chiObjectGarbage: an object is dead for a sweeper of epoch e when it is *)
(* neither white or gray of e nor black of e.                              *)
Garbage(c, e) == c.epoch # e /\ c # Black(e)

=============================================================================
