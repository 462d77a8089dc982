---------------------------- MODULE EffectSlots ----------------------------
(***************************************************************************)
(* What the effect pool promises to the USB host, without saying how: the  *)
(* host asks for an effect and is given an identifier nobody uses, hands   *)
(* identifiers back one by one or all at once, and may at any moment find  *)
(* the device hung.  FfbPool implements it.                                *)
(***************************************************************************)
CONSTANT Ids        \* the identifiers the device can give out

VARIABLES
  inUse,            \* identifiers the device keeps a slot for
  granted,          \* identifiers the host believes it owns
  hung              \* TRUE once the firmware blinks an error code forever

vars == <<inUse, granted, hung>>

Init ==
  /\ inUse = {}
  /\ granted = {}
  /\ hung = FALSE

\* A request is answered with an identifier whose slot is not in use.
Grant ==
  /\ ~hung
  /\ \E e \in Ids \ inUse :
       /\ inUse' = inUse \cup {e}
       /\ granted' = granted \cup {e}
  /\ UNCHANGED hung

\* The host gives up the identifiers S; the device may keep the slots of some.
Release ==
  /\ ~hung
  /\ \E S \in SUBSET granted :
       /\ granted' = granted \ S
       /\ \E R \in SUBSET S : inUse' = inUse \ R
  /\ UNCHANGED hung

\* A device reset: nothing is owned and nothing is in use.
Clear ==
  /\ ~hung
  /\ inUse' = {}
  /\ granted' = {}
  /\ UNCHANGED hung

Hang ==
  /\ ~hung
  /\ hung' = TRUE
  /\ UNCHANGED <<inUse, granted>>

Next == Grant \/ Release \/ Clear \/ Hang

Spec == Init /\ [][Next]_vars

=============================================================================
