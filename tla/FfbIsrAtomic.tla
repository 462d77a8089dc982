---------------------------- MODULE FfbIsrAtomic ----------------------------
(***************************************************************************)
(* FfbIsr implements FfbPool as long as the host creates nothing between a *)
(* report and the end of its handling: what FfbPool does in one step,      *)
(* freeEffect, freeAllEffects and ffb_init do instruction by instruction.  *)
(* A host that does not wait may spoil the pool; the next reset for whose  *)
(* end it does wait makes the pool good again.                             *)
(***************************************************************************)
EXTENDS FfbIsr

VARIABLES
  trust,      \* history: "kept", "lost" to a hasty create, or "regaining" by a reset
  rested      \* history: the pool when it could be trusted and nothing was handled

\* The pool; identifiers in a report that waits are still the host's.
Pool == [estate |-> estate, pblocks |-> pblocks, used |-> used, slotsAvail |-> slotsAvail,
         nextID |-> nextID, halted |-> halted, held |-> held \cup bank.eids]

\* The pool as ffb_init leaves it.
FreshPool == [estate |-> [e \in Eids |-> Free], pblocks |-> [e \in Eids |-> [i \in {0, 1} |-> 0]],
              used |-> {}, slotsAvail |-> MaxEffects - 2, nextID |-> 2, halted |-> 0, held |-> {}]

AllAtRest == bank = NoReport /\ doing = "none"

AtomicInit == IsrInit /\ rested = Pool /\ trust = "kept"

\* Bound: one hasty create, until a reset is on its way.
HastyCreate == trust # "lost" /\ ~AllAtRest /\ Interrupt /\ trust' = "lost"

AtomicNext ==
  /\ \/ AllAtRest /\ Interrupt /\ UNCHANGED trust
     \/ HastyCreate
     \/ /\ OutReports
        /\ trust' = CASE trust = "lost" /\ bank.op # "reset" /\ bank'.op = "reset"  -> "regaining"
                      [] trust = "regaining" /\ bank = NoReport /\ doing' = "none" -> "kept"
                      [] OTHER -> trust
  /\ rested' = IF trust' # "kept" THEN FreshPool ELSE IF doing' = "none" THEN Pool' ELSE rested

AtomicSpec == AtomicInit /\ [][AtomicNext]_<<vars, rested, trust>>

Atomic == INSTANCE FfbPool WITH
            estate <- rested.estate, pblocks <- rested.pblocks, used <- rested.used,
            slotsAvail <- rested.slotsAvail, nextID <- rested.nextID,
            halted <- rested.halted, held <- rested.held

\* When the host awaits the end of every report before it creates, the
\* handlers, instruction by instruction, do what FfbPool does in one step
\* (freeEffect, freeAllEffects, ffb_init).  Where it does not, FfbPool is
\* reset, and from the end of the next awaited Device Reset on the pool is
\* FfbPool's again, whatever the hasty creates had done to it.
ImplementsPool == Atomic!Spec

=============================================================================
