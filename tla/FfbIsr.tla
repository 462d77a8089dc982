------------------------------- MODULE FfbIsr -------------------------------
(***************************************************************************)
(* The effect pool of FfbPool when it is used from two contexts.  Create   *)
(* Effect is a control request: with INTERRUPT_CONTROL_ENDPOINT            *)
(* (LUFAConfig.h) it runs to its end inside an interrupt, between any two  *)
(* instructions of the main loop.  Block Free, Set Effect and Device Reset *)
(* wait in the OUT endpoint until ffb_Task reads them, and freeEffect and  *)
(* ffb_init are followed here instruction by instruction as far as they    *)
(* touch the pool: a load and a store of one byte are two steps.           *)
(* One thing is coarser than the machine: the memset that begins ffb_init  *)
(* is one step, so no create comes between two of the bytes it clears.     *)
(***************************************************************************)
EXTENDS FfbPool

CONSTANT
  SlotBound     \* bound: no Block Free is read when slotsAvail has drifted this far

ASSUME IsrAssumption == SlotBound \in Nat

Operations == {"set", "free", "freeAll", "reset"}

Idle == "idle"
\* A report in the endpoint: what to do, and with which effects.
NoReport == [op |-> "none", eids |-> {}]
Reports == {NoReport} \cup [op : Operations, eids : SUBSET Eids]

\* error_loop codes are 6 and 7; this one stands for the write through the
\* NULL that getEffectBlock(MAX_EFFECTS) returns.
OutOfRange == 1

VARIABLES
  bank,         \* the report that waits in the OUT endpoint
  doing,        \* the report that ffb_Task handles, or "none"
  pc,           \* the next step of freeEffect or ffb_init, or Idle
  target,       \* the effect that freeEffect is freeing
  scan,         \* freeAllEffects: the effects still to visit
  register      \* the byte the main loop has loaded and not yet stored

main == <<doing, pc, target, scan, register>>
vars == <<poolVars, bank, main>>

IsrInit ==
  /\ Init
  /\ bank = NoReport
  /\ doing = "none" /\ pc = Idle /\ target = 2 /\ scan = {} /\ register = {}

-----------------------------------------------------------------------------
(* The interrupt: allocEffectBlock as a whole. *)

IsrCreate ==
  /\ nextID \in Eids
  /\ CreateEffect
  /\ UNCHANGED <<bank, main>>

IsrCreateFails ==
  /\ CreateWhenFull \/ (nextID \in Eids /\ CreateWithoutBlocks)
  /\ UNCHANGED <<bank, main>>

\* slotsAvail promises a slot and nextID is past the last one.
IsrCreateBeyond ==
  /\ Running /\ slotsAvail > 0 /\ nextID \notin Eids
  /\ halted' = OutOfRange
  /\ UNCHANGED <<estate, pblocks, used, slotsAvail, nextID, held, bank, main>>

-----------------------------------------------------------------------------
(* The host writes a report to the OUT endpoint. *)

Write(op, eids, keeps) ==
  /\ Running /\ bank = NoReport
  /\ bank' = [op |-> op, eids |-> eids] /\ held' = keeps
  /\ UNCHANGED <<estate, pblocks, used, slotsAvail, nextID, halted, main>>

HostSets  == \E e \in held : Write("set", {e}, held)
HostFrees == \E e \in held : Write("free", {e}, held \ {e})
HostFreesAll == Write("freeAll", held, {})
HostResets   == Write("reset", held, {})

-----------------------------------------------------------------------------
(* The main loop reads the report and handles it. *)

Take(op) == Running /\ doing = "none" /\ bank.op = op /\ bank' = NoReport

TakeSet ==
  /\ Take("set")
  /\ estate' = [e \in Eids |-> estate[e] \cup IF e \in bank.eids THEN {"SentToDevice"} ELSE {}]
  /\ UNCHANGED <<pblocks, used, slotsAvail, nextID, halted, held, main>>

TakeFree ==
  /\ Take("free") /\ slotsAvail < SlotBound
  /\ doing' = "free" /\ target' \in bank.eids /\ pc' = "free"
  /\ UNCHANGED <<poolVars, scan, register>>

TakeFreeAll ==
  /\ Take("freeAll") /\ slotsAvail < SlotBound
  /\ doing' = "freeAll" /\ scan' = Eids
  /\ UNCHANGED <<poolVars, pc, target, register>>

TakeReset ==
  /\ Take("reset")
  /\ doing' = "reset" /\ pc' = "clear"
  /\ UNCHANGED <<poolVars, target, scan, register>>

\* freeAllEffects: the next effect of the loop.
ScanOne ==
  /\ Running /\ pc = Idle /\ scan # {}
  /\ scan' = scan \ {Min(scan)}
  /\ IF estate[Min(scan)] = {"Allocated"} THEN target' = Min(scan) /\ pc' = "free"
     ELSE UNCHANGED <<target, pc>>
  /\ UNCHANGED <<poolVars, bank, doing, register>>

\* The handler returns to ffb_Task.
Return ==
  /\ Running /\ doing # "none" /\ pc = Idle /\ scan = {}
  /\ doing' = "none"
  /\ UNCHANGED <<poolVars, bank, pc, target, scan, register>>

\* Mutant of FreeOrder: only the first parameter block is freed.
FreeOrderOneBlock(step) ==
  CASE step = "free"   -> "test"   [] step = "rewind" -> "load0"
    [] step = "load0"  -> "store0" [] step = "store0" -> "load"
    [] step = "load1"  -> "store1" [] step = "store1" -> "load"
    [] step = "load"   -> "store"  [] step = "store"  -> Idle

\* The steps of freeEffect in their order; "test" leads to "rewind" only when
\* nextID is higher than the freed effect.
FreeOrder(step) ==
  CASE step = "free"   -> "test"   [] step = "rewind" -> "load0"
    [] step = "load0"  -> "store0" [] step = "store0" -> "load1"
    [] step = "load1"  -> "store1" [] step = "store1" -> "load"
    [] step = "load"   -> "store"  [] step = "store"  -> Idle

At(step) == Running /\ pc = step /\ pc' = FreeOrder(step) /\ UNCHANGED <<bank, doing, target, scan>>

FreeState ==
  /\ At("free")
  /\ estate' = [estate EXCEPT ![target] = Free]
  /\ UNCHANGED <<pblocks, used, slotsAvail, nextID, halted, held, register>>

TestNext ==
  /\ Running /\ pc = "test"
  /\ pc' = IF target < nextID THEN "rewind" ELSE "load0"
  /\ UNCHANGED <<poolVars, bank, doing, target, scan, register>>

\* Mutant of RewindNext: nextID is moved back one slot too far.
RewindNextTooFar ==
  /\ At("rewind")
  /\ nextID' = target - 1
  /\ UNCHANGED <<estate, pblocks, used, slotsAvail, halted, held, register>>

RewindNext ==
  /\ At("rewind")
  /\ nextID' = target
  /\ UNCHANGED <<estate, pblocks, used, slotsAvail, halted, held, register>>

\* The bits of used[] in the byte of bit b.
ByteOf(b) == {c \in Blocks : c \div ByteWidth = b \div ByteWidth}

\* freeParamBlock of the effect's block i: load the byte, ...
LoadBlocks(i) ==
  /\ At(IF i = 0 THEN "load0" ELSE "load1")
  /\ LET bit == ClearedBit(pblocks[target][i])
     IN register' = [bit |-> bit, byte |-> used \cap ByteOf(bit)]
  /\ UNCHANGED poolVars

\* ... clear the bit and store it (past the end of used[] nothing is lost).
StoreBlocks(i) ==
  /\ At(IF i = 0 THEN "store0" ELSE "store1")
  /\ used' = (used \ ByteOf(register.bit)) \cup (register.byte \ {register.bit})
  /\ register' = {}
  /\ UNCHANGED <<estate, pblocks, slotsAvail, nextID, halted, held>>

LoadSlots ==
  /\ At("load")
  /\ register' = slotsAvail
  /\ UNCHANGED poolVars

StoreSlots ==
  /\ At("store")
  /\ slotsAvail' = register + 1 /\ register' = {}
  /\ UNCHANGED <<estate, pblocks, used, nextID, halted, held>>

\* ffb_init: memset, then nextID, then slotsAvail.
InitClear ==
  /\ Running /\ pc = "clear" /\ pc' = "next"
  /\ estate' = [e \in Eids |-> Free]
  /\ pblocks' = [e \in Eids |-> [i \in {0, 1} |-> 0]]
  /\ used' = {} /\ slotsAvail' = 0 /\ nextID' = 0
  /\ UNCHANGED <<halted, held, bank, doing, target, scan, register>>

InitNextID ==
  /\ Running /\ pc = "next" /\ pc' = "slots"
  /\ nextID' = 2
  /\ UNCHANGED <<estate, pblocks, used, slotsAvail, halted, held, bank, doing, target, scan, register>>

InitSlots ==
  /\ Running /\ pc = "slots" /\ pc' = Idle
  /\ slotsAvail' = MaxEffects - 2
  /\ UNCHANGED <<estate, pblocks, used, nextID, halted, held, bank, doing, target, scan, register>>

Interrupt == IsrCreate \/ IsrCreateFails \/ IsrCreateBeyond

OutReports ==
  \/ HostSets \/ HostFrees \/ HostFreesAll \/ HostResets
  \/ TakeSet \/ TakeFree \/ TakeFreeAll \/ TakeReset \/ ScanOne \/ Return
  \/ FreeState \/ TestNext \/ RewindNext
  \/ \E i \in {0, 1} : LoadBlocks(i) \/ StoreBlocks(i)
  \/ LoadSlots \/ StoreSlots
  \/ InitClear \/ InitNextID \/ InitSlots

IsrNext == Interrupt \/ OutReports

IsrSpec == IsrInit /\ [][IsrNext]_vars

-----------------------------------------------------------------------------

Steps == {Idle, "free", "test", "rewind", "load0", "store0", "load1", "store1", "load", "store",
          "clear", "next", "slots"}

\* Types; slotsAvail may drift above the number of slots, nextID is 0 only
\* inside ffb_init.
IsrTypeOK ==
  /\ estate \in [Eids -> SUBSET Flag]
  /\ pblocks \in [Eids -> [{0, 1} -> Blocks \cup {NoBlock}]]
  /\ used \subseteq Blocks /\ held \subseteq Eids
  /\ slotsAvail \in 0 .. SlotBound + Cardinality(Eids)
  /\ nextID \in {0} \cup 2 .. MaxEffects
  /\ halted \in {0, PoolFull, NoBlockLeft, OutOfRange}
  /\ bank \in Reports
  /\ doing \in Operations \cup {"none"} /\ pc \in Steps /\ target \in Eids /\ scan \subseteq Eids


=============================================================================
