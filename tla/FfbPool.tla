------------------------------ MODULE FfbPool ------------------------------
(***************************************************************************)
(* The effect memory pool of the adapter (struct memPool in ffb.h and the  *)
(* functions of ffb.c that allocate and free effect blocks and their       *)
(* parameter blocks), driven by the reports of a USB host.                 *)
(*                                                                         *)
(* The host is a disciplined one: it names only identifiers the device     *)
(* gave it and that it has not given back (variable held).  Bytes are      *)
(* ByteWidth bits wide, so that the arithmetic on used[] can be checked at *)
(* a reduced scale: the code has MaxEffects = 12 and ByteWidth = 8.        *)
(***************************************************************************)
EXTENDS Integers, FiniteSets, FiniteSetsExt

CONSTANTS
  MaxEffects,       \* MAX_EFFECTS: slots 0 and 1 are never given out
  ByteWidth         \* bits in one byte of pool.used

ASSUME PoolAssumption ==
  /\ MaxEffects \in Nat /\ MaxEffects > 2
  /\ ByteWidth \in Nat /\ ByteWidth > 0
  /\ (2 * MaxEffects) % ByteWidth = 0   \* used[] has no spare bits (24 of 3 * 8)

Eids    == 2 .. MaxEffects - 1          \* the effects the pool hands out
Blocks  == 0 .. 2 * MaxEffects - 1      \* MAX_EFFECTS * (MAX_AXES + 1)
NoBlock == -1                           \* 0xFF, "no parameter block left"

\* The bits of enum eState that the pool's code looks at or that protect an
\* effect from freeAllEffects.  Free is the empty set of bits.
Flag == {"Allocated", "SentToDevice", "HasEnvelope"}
Free == {}

\* Argument of error_loop; 0 means the firmware is running.
PoolFull    == 6
NoBlockLeft == 7

VARIABLES
  estate,           \* effects[eid].state
  pblocks,          \* effects[eid].paramBlocks
  used,             \* positions of the bits set in used[]
  slotsAvail,
  nextID,
  halted,           \* code of the error_loop the firmware is caught in
  held              \* the identifiers the host believes it owns

poolVars == <<estate, pblocks, used, slotsAvail, nextID, halted, held>>

Running == halted = 0

FreeSlots == {e \in Eids : estate[e] = Free}
Live == {e \in Eids : estate[e] # Free}

(***************************************************************************)
(* Parameter blocks.                                                       *)
(***************************************************************************)

\* Mutant of LowestClear: the first bit of the first byte that is not full.
LowestClearOfByte(bits) ==
  IF Blocks \subseteq bits THEN NoBlock
  ELSE Min({b \in Blocks : \E c \in Blocks \ bits : c \div ByteWidth = b \div ByteWidth})

\* allocParamBlock: the lowest clear bit of a bit map.
LowestClear(bits) ==
  IF Blocks \subseteq bits THEN NoBlock ELSE Min(Blocks \ bits)

\* freeParamBlock: the position of the bit it clears.  The byte index is
\* rounded up, so it is the bit of `index' only when ByteWidth divides index.
ClearedBit(index) ==
  ((index + ByteWidth - 1) \div ByteWidth) * ByteWidth + (index % ByteWidth)

\* The bits that freeing the effects S clears (those past the end of used[]
\* land in the message buffer behind it and are lost).
ClearedBits(S) == {ClearedBit(pblocks[e][i]) : e \in S, i \in {0, 1}}

(***************************************************************************)
(* Effect blocks.                                                          *)
(***************************************************************************)

\* Mutant of ScanFree: nextID moves on without looking at the state.
ScanFreeBlind(from) == from

\* The scan that moves nextID on: the first free slot from `from' on.
ScanFree(from) ==
  Min({i \in from .. MaxEffects - 1 : estate[i] = Free} \cup {MaxEffects})

Init ==
  /\ estate = [e \in Eids |-> Free]
  /\ pblocks = [e \in Eids |-> [i \in {0, 1} |-> 0]]
  /\ used = {}
  /\ slotsAvail = MaxEffects - 2
  /\ nextID = 2
  /\ halted = 0
  /\ held = {}

\* Create with no slot left: error_loop(6), before any answer is written.
CreateWhenFull ==
  /\ Running
  /\ slotsAvail = 0
  /\ halted' = PoolFull
  /\ UNCHANGED <<estate, pblocks, used, slotsAvail, nextID, held>>

\* Create: the slot nextID and two parameter blocks.
CreateEffect ==
  /\ Running
  /\ slotsAvail > 0
  /\ LET b0 == LowestClear(used)
         b1 == LowestClear(used \cup {b0})
     IN /\ b0 # NoBlock /\ b1 # NoBlock
        /\ pblocks' = [pblocks EXCEPT ![nextID] = [i \in {0, 1} |-> IF i = 0 THEN b0 ELSE b1]]
        /\ used' = used \cup {b0, b1}
  /\ estate' = [estate EXCEPT ![nextID] = {"Allocated"}]
  /\ slotsAvail' = slotsAvail - 1
  /\ nextID' = ScanFree(nextID + 1)
  /\ held' = held \cup {nextID}
  /\ UNCHANGED halted

\* Mutant of CreateWithoutBlocks: slotsAvail is not given back.
CreateWithoutBlocksKeepsSlot ==
  /\ Running /\ slotsAvail > 0 /\ Cardinality(Blocks \ used) < 2
  /\ nextID' = ScanFree(nextID + 1)
  /\ slotsAvail' = slotsAvail - 1
  /\ halted' = NoBlockLeft
  /\ UNCHANGED <<estate, pblocks, used, held>>

\* Create that runs out of parameter blocks: slotsAvail is given back, but
\* nextID has moved on, a first block stays taken, and error_loop(7) follows.
CreateWithoutBlocks ==
  /\ Running
  /\ slotsAvail > 0
  /\ LET b0 == LowestClear(used)
         b1 == LowestClear(used \cup {b0})
     IN \/ /\ b0 = NoBlock
           /\ pblocks' = [pblocks EXCEPT ![nextID][0] = NoBlock]
           /\ UNCHANGED used
        \/ /\ b0 # NoBlock /\ b1 = NoBlock
           /\ pblocks' = [pblocks EXCEPT ![nextID] = [i \in {0, 1} |-> IF i = 0 THEN b0 ELSE NoBlock]]
           /\ used' = used \cup {b0}
  /\ nextID' = ScanFree(nextID + 1)
  /\ halted' = NoBlockLeft
  /\ UNCHANGED <<estate, slotsAvail, held>>

\* Mutant of SetEffect: the state is assigned instead of or-ed.
SetEffectOverwrites(e) ==
  /\ Running /\ e \in held
  /\ estate' = [estate EXCEPT ![e] = {"SentToDevice"}]
  /\ UNCHANGED <<pblocks, used, slotsAvail, nextID, halted, held>>

\* Set Effect uploads the effect on its first call.
SetEffect(e) ==
  /\ Running
  /\ e \in held
  /\ estate' = [estate EXCEPT ![e] = @ \cup {"SentToDevice"}]
  /\ UNCHANGED <<pblocks, used, slotsAvail, nextID, halted, held>>

SetEnvelope(e) ==
  /\ Running
  /\ e \in held
  /\ estate' = [estate EXCEPT ![e] = @ \cup {"HasEnvelope"}]
  /\ UNCHANGED <<pblocks, used, slotsAvail, nextID, halted, held>>

\* Mutant of FreeEffects: nextID is not moved back to the freed slot.
FreeEffectsNoRewind(S) ==
  /\ estate' = [e \in Eids |-> IF e \in S THEN Free ELSE estate[e]]
  /\ used' = used \ ClearedBits(S)
  /\ slotsAvail' = slotsAvail + Cardinality(S)
  /\ UNCHANGED <<pblocks, halted, nextID>>

\* The effect of calling freeEffect on each effect of S.
FreeEffects(S) ==
  /\ estate' = [e \in Eids |-> IF e \in S THEN Free ELSE estate[e]]
  /\ nextID' = Min(S \cup {nextID})
  /\ used' = used \ ClearedBits(S)
  /\ slotsAvail' = slotsAvail + Cardinality(S)
  /\ UNCHANGED <<pblocks, halted>>

\* Block Free of one effect.
BlockFree(e) ==
  /\ Running
  /\ e \in held
  /\ FreeEffects({e})
  /\ held' = held \ {e}

\* Block Free of all effects (index 0xFF or 0x7F): freeAllEffects passes over
\* every effect whose state is anything but exactly Allocated.
BlockFreeAll ==
  /\ Running
  /\ FreeEffects({e \in Eids : estate[e] = {"Allocated"}})
  /\ held' = {}

\* Mutant of DeviceReset: slots 0 and 1 are counted as available.
DeviceResetCountsAll ==
  /\ Running
  /\ estate' = [e \in Eids |-> Free]
  /\ pblocks' = [e \in Eids |-> [i \in {0, 1} |-> 0]]
  /\ used' = {} /\ slotsAvail' = MaxEffects /\ nextID' = 2 /\ held' = {}
  /\ UNCHANGED halted

\* Device Control, Reset: ffb_init clears the whole device structure.
DeviceReset ==
  /\ Running
  /\ estate' = [e \in Eids |-> Free]
  /\ pblocks' = [e \in Eids |-> [i \in {0, 1} |-> 0]]
  /\ used' = {}
  /\ slotsAvail' = MaxEffects - 2
  /\ nextID' = 2
  /\ held' = {}
  /\ UNCHANGED halted

Next ==
  \/ CreateWhenFull
  \/ CreateEffect
  \/ CreateWithoutBlocks
  \/ \E e \in Eids : SetEffect(e) \/ SetEnvelope(e) \/ BlockFree(e)
  \/ BlockFreeAll
  \/ DeviceReset

Spec == Init /\ [][Next]_poolVars

-----------------------------------------------------------------------------

\* Every variable keeps the range its C type and the code give it
\* (struct memPool, ffb.h).
TypeOK ==
  /\ estate \in [Eids -> SUBSET Flag]
  /\ pblocks \in [Eids -> [{0, 1} -> Blocks \cup {NoBlock}]]
  /\ used \in SUBSET Blocks
  /\ slotsAvail \in 0 .. MaxEffects - 2
  /\ nextID \in 2 .. MaxEffects
  /\ halted \in {0, PoolFull, NoBlockLeft}
  /\ held \in SUBSET Eids

\* slotsAvail, which allocEffectBlock trusts instead of looking at the slots,
\* is the number of free slots through every order of create, free one, free
\* all and reset (ffb.c:224-272).
SlotAccounting == slotsAvail = Cardinality(FreeSlots)

\* nextID, the slot the next create writes to without checking its state or
\* its range, is the lowest free slot, and MAX_EFFECTS only when none is free
\* (the scan in allocEffectBlock, the rewind in freeEffect).
NextIsLowestFree == Running => nextID = Min(FreeSlots \cup {MaxEffects})

\* The host's view of the pool and the pool agree on what is at stake: an
\* effect the host holds still has its slot, whatever was created, freed or
\* freed wholesale in between, and a slot that nobody has touched since its
\* creation (the one freeAllEffects will take back) belongs to the host.
HostView ==
  /\ \A e \in held : "Allocated" \in estate[e]
  /\ \A e \in Eids : estate[e] = {"Allocated"} => e \in held

\* The two parameter blocks of a live effect exist and differ, whatever the
\* bit map has become, so that an effect's envelope never overwrites its own
\* type-specific parameters (getParamBlock, copyParameters).
BlocksOfLiveEffects ==
  \A e \in Live : /\ \A i \in {0, 1} : pblocks[e][i] \in Blocks
                  /\ pblocks[e][0] # pblocks[e][1]

\* The pool does what EffectSlots promises the host.
Slots == INSTANCE EffectSlots WITH
           Ids <- Eids, inUse <- Live, granted <- held, hung <- ~Running

ImplementsSlots == Slots!Spec

\* The inductive invariant behind all of these.
PoolInv ==
  TypeOK /\ SlotAccounting /\ NextIsLowestFree /\ HostView /\ BlocksOfLiveEffects

(***************************************************************************)
(* A claim of the source that the code does not meet.                      *)
(***************************************************************************)

\* ffb.h: "each effect uses 1 parameter_effect_block ... and 1 or 2 type
\* spcific blocks": no two live effects use the same parameter block.
OwnBlocks ==
  \A e, f \in Live : \A i, j \in {0, 1} : e # f => pblocks[e][i] # pblocks[f][j]

=============================================================================
