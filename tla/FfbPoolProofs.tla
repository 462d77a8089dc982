--------------------------- MODULE FfbPoolProofs ---------------------------
(***************************************************************************)
(* Proofs about the effect pool, for every number of effects and every     *)
(* byte width.                                                             *)
(*                                                                         *)
(* First, handler by handler (FfbPool): PoolInv is an inductive invariant, *)
(* and the pool implements EffectSlots.                                    *)
(*                                                                         *)
(* Then, instruction by instruction (FfbIsr and FfbIsrAtomic): whatever    *)
(* creates interrupt whatever instructions, every variable keeps its type  *)
(* and slotsAvail drifts by at most one for each effect that is freed      *)
(* (IsrInv); and the handlers implement FfbPool (IsrImplementsPool):       *)
(* FreedPartly says, for each instruction, which part of the one step of   *)
(* FfbPool has been done since the handler started from the pool in rested.*)
(***************************************************************************)
EXTENDS FfbIsrAtomic, NatLemmas, FiniteSetTheorems

\* The lowest free slot, or the end marker MAX_EFFECTS.
LEMMA LowestFreeSlot ==
  /\ FreeSlots \in SUBSET Eids
  /\ Min(FreeSlots \cup {MaxEffects}) \in FreeSlots \cup {MaxEffects}
  /\ \A y \in FreeSlots \cup {MaxEffects} : Min(FreeSlots \cup {MaxEffects}) <= y
<1>1. FreeSlots \in SUBSET Eids /\ FreeSlots \cup {MaxEffects} \in SUBSET Nat
  BY PoolAssumption DEF FreeSlots, Eids
<1>. QED
  BY <1>1, MinIsLeast

\* The slots of the pool can be counted, as slotsAvail does.
LEMMA FreeSlotsFinite == IsFiniteSet(FreeSlots) /\ IsFiniteSet(Eids)
<1>1. IsFiniteSet(Eids)
  BY PoolAssumption, FS_Interval DEF Eids
<1>. QED
  BY <1>1, FS_Subset DEF FreeSlots

\* MAX_EFFECTS - 2, the number ffb_init and ffb_onPIDPool give, is the number
\* of slots that can be given out.
LEMMA PoolSize == Cardinality(Eids) = MaxEffects - 2
<1>1. /\ 2 \in Int /\ MaxEffects - 1 \in Int
      /\ (IF 2 > MaxEffects - 1 THEN 0 ELSE (MaxEffects - 1) - 2 + 1) = MaxEffects - 2
  BY PoolAssumption
<1>2. Cardinality(2 .. MaxEffects - 1) = IF 2 > MaxEffects - 1 THEN 0 ELSE (MaxEffects - 1) - 2 + 1
  BY <1>1, FS_Interval
<1>. QED
  BY <1>1, <1>2 DEF Eids

\* A create that passes the slotsAvail test writes to a free slot that exists.
LEMMA NextSlotIsFree ==
  ASSUME PoolInv, Running, slotsAvail > 0
  PROVE  /\ nextID \in Eids /\ estate[nextID] = Free
         /\ \A e \in Eids : e < nextID => estate[e] # Free
<1>1. FreeSlots # {}
  BY FS_EmptySet DEF PoolInv, SlotAccounting
<1>2. nextID \in FreeSlots
  <2>1. PICK e \in FreeSlots : nextID <= e
    BY <1>1, LowestFreeSlot DEF PoolInv, NextIsLowestFree
  <2>2. e < MaxEffects /\ e \in Nat
    BY <2>1, LowestFreeSlot, PoolAssumption DEF Eids
  <2>3. nextID \in FreeSlots \cup {MaxEffects}
    BY LowestFreeSlot DEF PoolInv, NextIsLowestFree
  <2>. QED
    BY <2>1, <2>2, <2>3, PoolAssumption
<1>3. \A e \in FreeSlots : nextID <= e
  BY LowestFreeSlot DEF PoolInv, NextIsLowestFree
<1>4. nextID \in Eids /\ estate[nextID] = Free
  BY <1>2 DEF FreeSlots
<1>. QED
  BY <1>3, <1>4, PoolAssumption DEF FreeSlots, Eids

\* allocParamBlock returns a clear bit of the map or no block at all.
LEMMA LowestClearIsClear ==
  ASSUME NEW bits
  PROVE  \/ LowestClear(bits) = NoBlock
         \/ LowestClear(bits) \in Blocks \ bits
<1>1. Blocks \in SUBSET Nat
  BY PoolAssumption DEF Blocks
<1>2. CASE Blocks \subseteq bits
  BY <1>2 DEF LowestClear
<1>3. CASE ~(Blocks \subseteq bits)
  <2>1. Min(Blocks \ bits) \in Blocks \ bits
    BY <1>1, <1>3, MinIsLeast
  <2>. QED
    BY <1>3, <2>1 DEF LowestClear
<1>. QED
  BY <1>2, <1>3

-----------------------------------------------------------------------------
(* Create. *)

\* The scan that follows a create finds the lowest slot that is still free.
LEMMA ScanAfterCreate ==
  ASSUME PoolInv, Running, slotsAvail > 0
  PROVE  /\ ScanFree(nextID + 1) \in nextID + 1 .. MaxEffects
         /\ estate' = [estate EXCEPT ![nextID] = {"Allocated"}]
              => ScanFree(nextID + 1) = Min(FreeSlots \cup {MaxEffects})'
<1> DEFINE S == {i \in nextID + 1 .. MaxEffects - 1 : estate[i] = Free} \cup {MaxEffects}
<1>1. nextID \in Eids /\ \A e \in Eids : e < nextID => estate[e] # Free
  BY NextSlotIsFree
<1>2. S \in SUBSET Nat /\ S # {} /\ S \subseteq nextID + 1 .. MaxEffects
  BY <1>1, PoolAssumption DEF Eids
<1>3. ScanFree(nextID + 1) \in S
  BY <1>2, MinIsLeast DEF ScanFree
<1>4. ASSUME estate' = [estate EXCEPT ![nextID] = {"Allocated"}]
      PROVE  ScanFree(nextID + 1) = Min(FreeSlots \cup {MaxEffects})'
  <2> DEFINE T == {i \in Eids : estate'[i] = Free} \cup {MaxEffects}
  <2>1. ASSUME NEW i \in Eids
        PROVE  estate'[i] = Free <=> i > nextID /\ estate[i] = Free
    <3>1. CASE i = nextID
      BY <1>1, <1>4, <3>1, PoolAssumption DEF Eids, Free, PoolInv, TypeOK
    <3>2. CASE i # nextID
      <4>1. estate'[i] = estate[i]
        BY <1>4, <3>2 DEF PoolInv, TypeOK
      <4>. QED
        BY <1>1, <3>2, <4>1, PoolAssumption DEF Eids
    <3>. QED
      BY <3>1, <3>2
  <2>2. S = T
    BY <1>1, <2>1, PoolAssumption DEF Eids
  <2>. QED
    BY <2>2 DEF ScanFree, FreeSlots
<1>. QED
  BY <1>2, <1>3, <1>4

\* allocEffectBlock takes the slot nextID, counts it, finds the next free one,
\* and gives it two different parameter blocks.
LEMMA CreateEffectPreserves ==
  ASSUME PoolInv, CreateEffect
  PROVE  PoolInv'
<1> USE DEF PoolInv
<1> DEFINE b0 == LowestClear(used)
           b1 == LowestClear(used \cup {b0})
<1>1. /\ nextID \in Eids /\ estate[nextID] = Free
      /\ slotsAvail > 0 /\ Running
  BY NextSlotIsFree DEF CreateEffect
<1>2. /\ b0 \in Blocks \ used /\ b1 \in Blocks \ (used \cup {b0})
      /\ pblocks' = [pblocks EXCEPT ![nextID] = [i \in {0, 1} |-> IF i = 0 THEN b0 ELSE b1]]
      /\ used' = used \cup {b0, b1}
  BY LowestClearIsClear DEF CreateEffect
<1>3. estate' = [estate EXCEPT ![nextID] = {"Allocated"}] /\ halted' = halted
      /\ slotsAvail' = slotsAvail - 1 /\ held' = held \cup {nextID}
      /\ nextID' = ScanFree(nextID + 1)
  BY DEF CreateEffect
<1>4. TypeOK'
  <2>1. nextID' \in 2 .. MaxEffects
    BY <1>1, <1>3, ScanAfterCreate, PoolAssumption DEF Eids
  <2>2. slotsAvail' \in 0 .. MaxEffects - 2
    BY <1>1, <1>3, PoolAssumption DEF TypeOK
  <2>3. pblocks' \in [Eids -> [{0, 1} -> Blocks \cup {NoBlock}]]
    <3>1. [i \in {0, 1} |-> IF i = 0 THEN b0 ELSE b1] \in [{0, 1} -> Blocks \cup {NoBlock}]
      BY <1>2
    <3>. QED
      BY <1>2, <3>1 DEF TypeOK
  <2>. QED
    BY <1>1, <1>2, <1>3, <2>1, <2>2, <2>3 DEF TypeOK, Flag
<1>5. SlotAccounting'
  <2>1. FreeSlots' = FreeSlots \ {nextID}
    BY <1>1, <1>3 DEF TypeOK, FreeSlots, Free
  <2>2. nextID \in FreeSlots
    BY <1>1 DEF FreeSlots
  <2>. QED
    BY <1>3, <2>1, <2>2, FreeSlotsFinite, FS_RemoveElement DEF SlotAccounting
<1>6. NextIsLowestFree'
  BY <1>1, <1>3, ScanAfterCreate DEF NextIsLowestFree
<1>7. HostView'
  BY <1>1, <1>3 DEF HostView, TypeOK, Free
<1>8. BlocksOfLiveEffects'
  BY <1>1, <1>2, <1>3 DEF BlocksOfLiveEffects, TypeOK, Live
<1>. QED
  BY <1>4, <1>5, <1>6, <1>7, <1>8

\* The error path of allocEffectBlock leaves the count of slots right, but not
\* nextID, which is why NextIsLowestFree is claimed of a running firmware only.
LEMMA CreateWithoutBlocksPreserves ==
  ASSUME PoolInv, CreateWithoutBlocks
  PROVE  PoolInv'
<1> USE DEF PoolInv
<1>1. /\ nextID \in Eids /\ estate[nextID] = Free
      /\ nextID' \in nextID + 1 .. MaxEffects
  BY NextSlotIsFree, ScanAfterCreate DEF CreateWithoutBlocks
<1>2. /\ halted' = NoBlockLeft
      /\ estate' = estate /\ slotsAvail' = slotsAvail /\ held' = held
  BY DEF CreateWithoutBlocks
<1>3. /\ pblocks' \in [Eids -> [{0, 1} -> Blocks \cup {NoBlock}]]
      /\ \A e \in Eids : e # nextID => pblocks'[e] = pblocks[e]
      /\ used' \in SUBSET Blocks
  <2> DEFINE b0 == LowestClear(used)
  <2>1. CASE pblocks' = [pblocks EXCEPT ![nextID][0] = NoBlock] /\ used' = used
    BY <1>1, <2>1 DEF TypeOK
  <2>2. CASE /\ b0 # NoBlock
             /\ pblocks' = [pblocks EXCEPT ![nextID] = [i \in {0, 1} |-> IF i = 0 THEN b0 ELSE NoBlock]]
             /\ used' = used \cup {b0}
    <3>1. b0 \in Blocks
      BY <2>2, LowestClearIsClear
    <3>2. [i \in {0, 1} |-> IF i = 0 THEN b0 ELSE NoBlock] \in [{0, 1} -> Blocks \cup {NoBlock}]
      BY <3>1
    <3>. QED
      BY <1>1, <2>2, <3>1, <3>2 DEF TypeOK
  <2>. QED
    BY <2>1, <2>2 DEF CreateWithoutBlocks
<1>4. TypeOK'
  BY <1>1, <1>2, <1>3, PoolAssumption DEF TypeOK, Eids
<1>5. SlotAccounting' /\ HostView'
  BY <1>2 DEF SlotAccounting, HostView, FreeSlots
<1>6. NextIsLowestFree'
  BY <1>2 DEF NextIsLowestFree, Running, NoBlockLeft
<1>7. BlocksOfLiveEffects'
  BY <1>1, <1>2, <1>3 DEF BlocksOfLiveEffects, Live
<1>. QED
  BY <1>4, <1>5, <1>6, <1>7

-----------------------------------------------------------------------------
(* Free. *)

\* Freeing a set S of live effects, whatever bits of used[] that clears,
\* leaves the bookkeeping of slots exact.
LEMMA FreeEffectsPreserves ==
  ASSUME PoolInv, Running, NEW S \in SUBSET Live, FreeEffects(S),
         held' \in SUBSET (held \ S),
         \A e \in Eids \ S : estate[e] = {"Allocated"} => e \in held'
  PROVE  PoolInv'
<1> USE DEF PoolInv
<1>1. /\ estate' = [e \in Eids |-> IF e \in S THEN Free ELSE estate[e]]
      /\ nextID' = Min(S \cup {nextID}) /\ used' = used \ ClearedBits(S)
      /\ slotsAvail' = slotsAvail + Cardinality(S)
      /\ pblocks' = pblocks /\ halted' = halted
  BY DEF FreeEffects
<1>2. S \in SUBSET Eids /\ S \cap FreeSlots = {} /\ FreeSlots \in SUBSET Eids
  BY DEF Live, FreeSlots
<1>3. FreeSlots' = FreeSlots \cup S
  BY <1>1, <1>2 DEF FreeSlots, Free
<1>4. SlotAccounting' /\ slotsAvail' \in 0 .. MaxEffects - 2
  <2>1. IsFiniteSet(S) /\ IsFiniteSet(FreeSlots)
    BY <1>2, FreeSlotsFinite, FS_Subset
  <2>2. Cardinality(FreeSlots \cup S) = Cardinality(FreeSlots) + Cardinality(S)
    <3>1. Cardinality(FreeSlots \cup S)
            = Cardinality(FreeSlots) + Cardinality(S) - Cardinality(FreeSlots \cap S)
      BY <2>1, FS_Union
    <3>2. FreeSlots \cap S = {}
      BY <1>2
    <3>3. Cardinality(FreeSlots) \in Nat /\ Cardinality(S) \in Nat
      BY <2>1, FS_CardinalityType
    <3>4. Cardinality(FreeSlots \cap S) = 0
      BY <3>2, FS_EmptySet
    <3>. QED
      BY <3>1, <3>3, <3>4
  <2>3. Cardinality(Eids) = MaxEffects - 2
    BY PoolSize
  <2>4. /\ Cardinality(FreeSlots \cup S) \in Nat
        /\ Cardinality(FreeSlots \cup S) <= MaxEffects - 2
    BY <1>2, <2>3, FreeSlotsFinite, FS_Subset, FS_CardinalityType
  <2>. QED
    BY <1>1, <1>3, <2>2, <2>4, PoolAssumption DEF SlotAccounting
<1>5. NextIsLowestFree' /\ nextID' \in 2 .. MaxEffects
  <2> DEFINE T == FreeSlots \cup S \cup {MaxEffects}
             m == Min(S \cup {nextID})
  <2>1. nextID \in FreeSlots \cup {MaxEffects} /\ \A y \in FreeSlots \cup {MaxEffects} : nextID <= y
    BY LowestFreeSlot DEF NextIsLowestFree
  <2>2. S \cup {nextID} \in SUBSET Nat /\ T \in SUBSET Nat
    <3>1. Eids \in SUBSET Nat /\ MaxEffects \in Nat
      BY PoolAssumption DEF Eids
    <3>. QED
      BY <1>2, <2>1, <3>1
  <2>3. m \in S \cup {nextID} /\ \A y \in S \cup {nextID} : m <= y
    BY <2>2, MinIsLeast
  <2>4. m \in T /\ \A y \in T : m <= y
    <3>1. m \in T /\ m \in Nat /\ nextID \in Nat /\ m <= nextID
      BY <2>1, <2>2, <2>3
    <3>2. ASSUME NEW y \in T, y \notin S PROVE m <= y
      <4>1. nextID <= y /\ y \in Nat
        BY <2>1, <2>2, <3>2
      <4>. QED
        BY <3>1, <4>1
    <3>3. \A y \in S : m <= y
      BY <2>3
    <3> HIDE DEF m, T
    <3>. QED
      BY <3>1, <3>2, <3>3
  <2>5. Min(T) = m
    BY <2>2, <2>4, MinIsUnique
  <2>6. Min(FreeSlots \cup {MaxEffects})' = Min(T)
    BY <1>3
  <2>7. m \in 2 .. MaxEffects
    <3>1. \A y \in T : y \in 2 .. MaxEffects
      BY <1>2, PoolAssumption DEF Eids
    <3> HIDE DEF m, T
    <3>. QED
      BY <2>4, <3>1
  <2>. QED
    BY <1>1, <2>5, <2>6, <2>7 DEF NextIsLowestFree
<1>6. TypeOK'
  BY <1>1, <1>4, <1>5 DEF TypeOK, Free
<1>7. HostView'
  BY <1>1 DEF HostView, TypeOK, Free
<1>8. BlocksOfLiveEffects'
  BY <1>1 DEF BlocksOfLiveEffects, Live
<1>. QED
  BY <1>4, <1>5, <1>6, <1>7, <1>8

-----------------------------------------------------------------------------
(* The invariant. *)

\* ffb_init leaves an empty pool in order.
LEMMA InitPoolInv == Init => PoolInv
<1> SUFFICES ASSUME Init PROVE PoolInv
  OBVIOUS
<1>1. TypeOK
  BY PoolAssumption DEF Init, TypeOK, Free, Blocks, Eids
<1>2. FreeSlots = Eids
  BY DEF Init, FreeSlots
<1>3. SlotAccounting
  BY <1>2, PoolSize DEF Init, SlotAccounting
<1>4. NextIsLowestFree
  <2>1. Min(FreeSlots \cup {MaxEffects}) = Min(Eids \cup {MaxEffects})
    BY <1>2
  <2>2. 2 \in Eids \cup {MaxEffects} /\ \A y \in Eids \cup {MaxEffects} : 2 <= y
    BY PoolAssumption DEF Eids
  <2>3. Eids \cup {MaxEffects} \in SUBSET Nat
    BY PoolAssumption DEF Eids
  <2>4. Min(Eids \cup {MaxEffects}) = 2
    BY <2>2, <2>3, MinIsUnique
  <2>. QED
    BY <2>1, <2>4 DEF NextIsLowestFree, Init
<1>5. HostView /\ BlocksOfLiveEffects
  BY DEF Init, HostView, BlocksOfLiveEffects, Live, Free
<1>. QED
  BY <1>1, <1>3, <1>4, <1>5 DEF PoolInv

\* Every request the pool serves keeps its bookkeeping in order.
LEMMA NextPoolInv == PoolInv /\ [Next]_poolVars => PoolInv'
<1> SUFFICES ASSUME PoolInv, [Next]_poolVars PROVE PoolInv'
  OBVIOUS
<1>1. CASE CreateWhenFull
  BY <1>1 DEF CreateWhenFull, PoolInv, TypeOK, SlotAccounting, NextIsLowestFree, Running,
              HostView, BlocksOfLiveEffects, FreeSlots, Live, PoolFull
<1>2. CASE CreateEffect
  BY <1>2, CreateEffectPreserves
<1>3. CASE CreateWithoutBlocks
  BY <1>3, CreateWithoutBlocksPreserves
<1>4. ASSUME NEW e \in Eids, SetEffect(e) \/ SetEnvelope(e) PROVE PoolInv'
  <2>1. PICK f \in {"SentToDevice", "HasEnvelope"} : estate' = [estate EXCEPT ![e] = @ \cup {f}]
    BY <1>4 DEF SetEffect, SetEnvelope
  <2>2. /\ e \in held /\ Running
        /\ UNCHANGED <<pblocks, used, slotsAvail, nextID, halted, held>>
    BY <1>4 DEF SetEffect, SetEnvelope
  <2>3. TypeOK'
    BY <2>1, <2>2 DEF PoolInv, TypeOK, Flag
  <2>4. "Allocated" \in estate[e] /\ \A i \in Eids : estate'[i] = Free <=> estate[i] = Free
    BY <2>1, <2>2 DEF PoolInv, TypeOK, HostView, Free
  <2>5. FreeSlots' = FreeSlots /\ Live' = Live
    BY <2>4 DEF FreeSlots, Live
  <2>6. HostView'
    BY <2>1, <2>2, <2>4 DEF PoolInv, TypeOK, HostView
  <2>. QED
    BY <2>2, <2>3, <2>5, <2>6
       DEF PoolInv, SlotAccounting, NextIsLowestFree, BlocksOfLiveEffects, Running
<1>5. ASSUME NEW e \in Eids, BlockFree(e) PROVE PoolInv'
  <2>1. Running /\ {e} \in SUBSET Live /\ FreeEffects({e}) /\ held' = held \ {e}
    BY <1>5 DEF BlockFree, PoolInv, HostView, Live, Free
  <2>. QED
    BY <2>1, FreeEffectsPreserves DEF PoolInv, HostView
<1>6. CASE BlockFreeAll
  <2> DEFINE S == {e \in Eids : estate[e] = {"Allocated"}}
  <2>1. Running /\ S \in SUBSET Live /\ FreeEffects(S) /\ held' = {}
    BY <1>6 DEF BlockFreeAll, Live, Free
  <2>2. \A e \in Eids \ S : estate[e] = {"Allocated"} => e \in held'
    OBVIOUS
  <2> HIDE DEF S
  <2>. QED
    BY <2>1, <2>2, FreeEffectsPreserves
<1>7. CASE DeviceReset
  <2>1. Init'
    BY <1>7 DEF DeviceReset, Init, PoolInv, Running
  <2>2. (Init => PoolInv)'
    BY InitPoolInv, PTL
  <2>. QED
    BY <2>1, <2>2
<1>8. CASE UNCHANGED poolVars
  BY <1>8 DEF poolVars, PoolInv, TypeOK, SlotAccounting, NextIsLowestFree, Running,
              HostView, BlocksOfLiveEffects, FreeSlots, Live
<1>. QED
  BY <1>1, <1>2, <1>3, <1>4, <1>5, <1>6, <1>7, <1>8 DEF Next

\* The pool's bookkeeping is right in every reachable state: types, the count
\* and the cursor allocEffectBlock trusts, the host's view, and the blocks.
THEOREM PoolInvariant == Spec => []PoolInv
BY InitPoolInv, NextPoolInv, PTL DEF Spec

\* What the host and the other handlers may rely on, for every size of the
\* pool: the count allocEffectBlock trusts is the number of free slots, the slot
\* it writes to is the lowest free one, an effect the host holds keeps its slot,
\* and its two parameter blocks differ.
THEOREM PoolSafety ==
  Spec => [](TypeOK /\ SlotAccounting /\ NextIsLowestFree /\ HostView /\ BlocksOfLiveEffects)
<1>1. PoolInv => TypeOK /\ SlotAccounting /\ NextIsLowestFree /\ HostView /\ BlocksOfLiveEffects
  BY DEF PoolInv
<1>. QED
  BY <1>1, PoolInvariant, PTL

-----------------------------------------------------------------------------
(* Refinement. *)

\* Every handler of the pool grants, releases, clears or hangs in the sense of
\* EffectSlots, or leaves what the host can see as it is.
LEMMA StepImplementsSlots ==
  ASSUME PoolInv, [Next]_poolVars
  PROVE  [Slots!Next]_Slots!vars
<1> USE DEF PoolInv
<1>1. CASE CreateWhenFull \/ CreateWithoutBlocks
  <2>1. Slots!Hang
    BY <1>1 DEF CreateWhenFull, CreateWithoutBlocks, Slots!Hang, Running, Live, PoolFull, NoBlockLeft
  <2>. QED
    BY <2>1 DEF Slots!Next
<1>2. CASE CreateEffect
  <2>1. nextID \in Eids \ Live /\ Running
    BY <1>2, NextSlotIsFree DEF CreateEffect, Live
  <2>2. Live' = Live \cup {nextID} /\ held' = held \cup {nextID} /\ halted' = halted
    BY <1>2, <2>1 DEF CreateEffect, Live, TypeOK, Free
  <2>3. Slots!Grant
    BY <2>1, <2>2 DEF Slots!Grant, Running
  <2>. QED
    BY <2>3 DEF Slots!Next
<1>3. ASSUME NEW e \in Eids, SetEffect(e) \/ SetEnvelope(e)
      PROVE  UNCHANGED Slots!vars
  <2>1. e \in held /\ held' = held /\ halted' = halted
    BY <1>3 DEF SetEffect, SetEnvelope
  <2>2. \A i \in Eids : estate'[i] = Free <=> estate[i] = Free
    BY <1>3, <2>1 DEF SetEffect, SetEnvelope, TypeOK, HostView, Free
  <2>. QED
    BY <2>1, <2>2 DEF Slots!vars, Live, Running
<1>4. ASSUME NEW e \in Eids, BlockFree(e)
      PROVE  Slots!Release
  <2>1. Running /\ e \in held /\ held' = held \ {e} /\ halted' = halted
    BY <1>4 DEF BlockFree, FreeEffects
  <2>2. Live' = Live \ {e}
    BY <1>4 DEF BlockFree, FreeEffects, Live, Free
  <2>. QED
    BY <2>1, <2>2 DEF Slots!Release, Running
<1>5. CASE BlockFreeAll
  <2> DEFINE S == {e \in Eids : estate[e] = {"Allocated"}}
  <2>1. Running /\ held' = {} /\ halted' = halted /\ S \in SUBSET held
    BY <1>5 DEF BlockFreeAll, FreeEffects, HostView
  <2>2. Live' = Live \ S
    BY <1>5 DEF BlockFreeAll, FreeEffects, Live, Free
  <2> HIDE DEF S
  <2>3. held' = held \ held /\ held \in SUBSET held
    BY <2>1
  <2>. QED
    BY <2>1, <2>2, <2>3 DEF Slots!Next, Slots!Release, Running
<1>6. CASE DeviceReset
  <2>1. Slots!Clear
    BY <1>6 DEF DeviceReset, Slots!Clear, Live, Running, Free
  <2>. QED
    BY <2>1 DEF Slots!Next
<1>7. CASE UNCHANGED poolVars
  BY <1>7 DEF poolVars, Slots!vars, Live, Running
<1>. QED
  BY <1>1, <1>2, <1>3, <1>4, <1>5, <1>6, <1>7 DEF Next, Slots!Next

\* The pool keeps the promise of EffectSlots: a request is only ever answered
\* with an identifier whose slot is not in use.
THEOREM PoolImplementsSlots == Spec => ImplementsSlots
<1>1. Init => Slots!Init
  BY DEF Init, Slots!Init, Live, Running, Free
<1>. QED
  BY <1>1, StepImplementsSlots, PoolInvariant, PTL DEF Spec, Slots!Spec, ImplementsSlots

-----------------------------------------------------------------------------
(* The interrupt and the main loop: where the main loop is, and what it still *)
(* has to do.                                                                  *)

Freeing == {"free", "test", "rewind", "load0", "store0", "load1", "store1", "load", "store"}
Resetting == {"clear", "next", "slots"}

\* Where the main loop is in which handler.
PlaceInv ==
  /\ doing # "set"
  /\ doing = "none" => pc = Idle
  /\ doing # "freeAll" => scan = {}
  /\ doing = "reset" => pc \in Resetting \cup {Idle}
  /\ doing \in {"free", "freeAll"} => pc \in Freeing \cup {Idle}
  /\ pc # Idle => target \notin scan

\* The increments of slotsAvail still to come in this handler.
Due == Cardinality(scan) + IF pc \in Freeing THEN 1 ELSE 0

Most == SlotBound + Cardinality(Eids)

\* slotsAvail, also the copy in a register, has room for them.
DriftInv ==
  /\ slotsAvail + Due <= Most
  /\ pc = "store" => register \in Nat /\ register + Due <= Most

\* The byte in the register is one of used[].
ByteInv == pc \in {"store0", "store1"} => register.byte \in SUBSET Blocks

IsrInv == IsrTypeOK /\ PlaceInv /\ DriftInv /\ ByteInv

-----------------------------------------------------------------------------

\* The numbers behind the bounds.
LEMMA Counts ==
  /\ Cardinality(Eids) \in Nat /\ Most \in Nat /\ SlotBound \in Nat
  /\ Cardinality(Eids) <= Most /\ Cardinality(Eids) = MaxEffects - 2
  /\ Cardinality({}) = 0
BY PoolSize, PoolAssumption, IsrAssumption, FS_EmptySet DEF Most

\* freeAllEffects visits each effect once.
LEMMA ScanCounts ==
  ASSUME NEW S \in SUBSET Eids
  PROVE  /\ Cardinality(S) \in Nat
         /\ S # {} => /\ Min(S) \in S
                      /\ Cardinality(S \ {Min(S)}) = Cardinality(S) - 1
<1>1. IsFiniteSet(S)
  BY FreeSlotsFinite, FS_Subset
<1>2. S \in SUBSET Nat
  BY PoolAssumption DEF Eids
<1>3. S # {} => Min(S) \in S
  BY <1>2, MinIsLeast
<1>4. ASSUME NEW x \in S PROVE Cardinality(S \ {x}) = Cardinality(S) - 1
  BY <1>1, <1>4, FS_RemoveElement
<1> QED BY <1>1, <1>3, <1>4, FS_CardinalityType

LEMMA ScanBeyond ==
  ASSUME nextID \in Eids
  PROVE  ScanFree(nextID + 1) \in 2 .. MaxEffects
<1> DEFINE S == {i \in nextID + 1 .. MaxEffects - 1 : estate[i] = Free} \cup {MaxEffects}
<1>1. S \in SUBSET (2 .. MaxEffects) /\ S \in SUBSET Nat /\ S # {}
  BY PoolAssumption DEF Eids
<1>2. Min(S) \in S
  BY <1>1, MinIsLeast
<1> QED BY <1>1, <1>2 DEF ScanFree

\* What the types say of the numbers.
LEMMA TypeFacts ==
  ASSUME IsrInv
  PROVE  /\ slotsAvail \in Nat /\ slotsAvail <= Most /\ slotsAvail + Due <= Most
         /\ scan \in SUBSET Eids /\ Cardinality(scan) \in Nat /\ target \in Eids
         /\ used \subseteq Blocks /\ estate \in [Eids -> SUBSET Flag]
<1>1. /\ slotsAvail \in 0 .. SlotBound + Cardinality(Eids) /\ scan \in SUBSET Eids /\ target \in Eids
      /\ used \subseteq Blocks /\ estate \in [Eids -> SUBSET Flag] /\ slotsAvail + Due <= Most
  BY DEF IsrInv, IsrTypeOK, DriftInv
<1>2. Cardinality(scan) \in Nat
  BY <1>1, ScanCounts
<1>3. slotsAvail \in Nat /\ slotsAvail <= Most
  BY <1>1, Counts DEF Most
<1> QED BY <1>1, <1>2, <1>3

LEMMA InitIsrInv == IsrInit => IsrInv
<1> SUFFICES ASSUME IsrInit PROVE IsrInv
  OBVIOUS
<1>1. IsrTypeOK
  <2>1. 2 \in Eids /\ slotsAvail \in 0 .. Most
    BY PoolAssumption, Counts DEF IsrInit, Init, Eids
  <2>2. pblocks \in [Eids -> [{0, 1} -> Blocks \cup {NoBlock}]]
    BY PoolAssumption DEF IsrInit, Init, Blocks
  <2> QED BY <2>1, <2>2, PoolAssumption DEF IsrTypeOK, IsrInit, Init, Free, Reports, Steps, Most
<1>2. PlaceInv /\ ByteInv
  BY DEF PlaceInv, ByteInv, IsrInit, Idle
<1>3. DriftInv
  BY Counts DEF DriftInv, Due, IsrInit, Init, Idle, Freeing
<1> QED BY <1>1, <1>2, <1>3 DEF IsrInv

\* A create in the interrupt only ever lowers slotsAvail.
LEMMA InterruptKeepsIsrInv ==
  ASSUME IsrInv, Interrupt
  PROVE  IsrInv'
<1>1. UNCHANGED <<bank, doing, pc, target, scan, register>>
  BY DEF Interrupt, IsrCreate, IsrCreateFails, IsrCreateBeyond, main
<1>2. /\ estate \in [Eids -> SUBSET Flag] /\ pblocks \in [Eids -> [{0, 1} -> Blocks \cup {NoBlock}]]
      /\ used \subseteq Blocks /\ held \subseteq Eids /\ slotsAvail \in Nat /\ slotsAvail <= Most
      /\ nextID \in {0} \cup 2 .. MaxEffects /\ halted \in {0, PoolFull, NoBlockLeft, OutOfRange}
  BY Counts DEF IsrInv, IsrTypeOK, Most
<1>3. /\ estate' \in [Eids -> SUBSET Flag] /\ pblocks' \in [Eids -> [{0, 1} -> Blocks \cup {NoBlock}]]
      /\ used' \subseteq Blocks /\ held' \subseteq Eids /\ slotsAvail' \in Nat /\ slotsAvail' <= slotsAvail
      /\ nextID' \in {0} \cup 2 .. MaxEffects /\ halted' \in {0, PoolFull, NoBlockLeft, OutOfRange}
  <2>1. CASE IsrCreate
    <3> DEFINE b0 == LowestClear(used)
               b1 == LowestClear(used \cup {b0})
    <3>1. b0 # NoBlock /\ b1 # NoBlock => b0 \in Blocks /\ b1 \in Blocks
      BY LowestClearIsClear
    <3>2. nextID \in Eids /\ nextID' \in 2 .. MaxEffects
      BY <2>1, ScanBeyond DEF IsrCreate, CreateEffect
    <3> HIDE DEF b0, b1
    <3>3. pblocks' \in [Eids -> [{0, 1} -> Blocks \cup {NoBlock}]] /\ used' \subseteq Blocks
      BY <2>1, <1>2, <3>1, <3>2 DEF IsrCreate, CreateEffect, b0, b1
    <3>4. estate' \in [Eids -> SUBSET Flag] /\ held' \subseteq Eids
      BY <2>1, <1>2, <3>2 DEF IsrCreate, CreateEffect, Flag
    <3>5. slotsAvail > 0 /\ slotsAvail' = slotsAvail - 1 /\ halted' = halted
      BY <2>1 DEF IsrCreate, CreateEffect
    <3>6. slotsAvail' \in Nat /\ slotsAvail' <= slotsAvail
      BY <1>2, <3>5
    <3> QED BY <1>2, <3>2, <3>3, <3>4, <3>5, <3>6
  <2>2. CASE CreateWhenFull
    BY <2>2, <1>2 DEF CreateWhenFull
  <2>3. CASE nextID \in Eids /\ CreateWithoutBlocks
    <3> DEFINE b0 == LowestClear(used)
    <3>1. b0 # NoBlock => b0 \in Blocks
      BY LowestClearIsClear
    <3>2. nextID' \in 2 .. MaxEffects
      BY <2>3, ScanBeyond DEF CreateWithoutBlocks
    <3> HIDE DEF b0
    <3>3. pblocks' \in [Eids -> [{0, 1} -> Blocks \cup {NoBlock}]] /\ used' \subseteq Blocks
      BY <2>3, <1>2, <3>1 DEF CreateWithoutBlocks, b0
    <3> QED BY <2>3, <1>2, <3>2, <3>3 DEF CreateWithoutBlocks
  <2>4. CASE IsrCreateBeyond
    BY <2>4, <1>2 DEF IsrCreateBeyond
  <2> QED BY <2>1, <2>2, <2>3, <2>4 DEF Interrupt, IsrCreateFails
<1>4. IsrTypeOK'
  BY <1>1, <1>2, <1>3, Counts DEF IsrInv, IsrTypeOK, Most
<1>5. Due' = Due /\ Due \in Nat
  <2>1. Cardinality(scan) \in Nat
    BY ScanCounts DEF IsrInv, IsrTypeOK
  <2> QED BY <1>1, <2>1 DEF Due
<1>6. DriftInv'
  BY <1>1, <1>2, <1>3, <1>5, Counts DEF DriftInv, IsrInv, Most
<1>7. PlaceInv' /\ ByteInv'
  BY <1>1 DEF PlaceInv, ByteInv, IsrInv
<1> QED BY <1>4, <1>6, <1>7 DEF IsrInv

\* The host only writes reports about effects there are.
LEMMA WriteKeepsIsrInv ==
  ASSUME IsrInv, HostSets \/ HostFrees \/ HostFreesAll \/ HostResets
  PROVE  IsrInv'
<1>1. UNCHANGED <<estate, pblocks, used, slotsAvail, nextID, halted, main>>
  BY DEF HostSets, HostFrees, HostFreesAll, HostResets, Write
<1>2. held' \subseteq Eids /\ bank' \in Reports
  BY DEF HostSets, HostFrees, HostFreesAll, HostResets, Write, Reports, Operations, IsrInv, IsrTypeOK
<1> QED BY <1>1, <1>2 DEF IsrInv, IsrTypeOK, PlaceInv, DriftInv, Due, ByteInv, main

\* Reading a report starts its handler.
LEMMA TakeKeepsIsrInv ==
  ASSUME IsrInv, TakeSet \/ TakeFree \/ TakeFreeAll \/ TakeReset
  PROVE  IsrInv'
<1> USE DEF Take
<1>1. /\ doing = "none" /\ pc = Idle /\ scan = {} /\ bank' = NoReport /\ bank' \in Reports
      /\ Cardinality(scan) = 0
  BY Counts DEF TakeSet, TakeFree, TakeFreeAll, TakeReset, IsrInv, PlaceInv, Reports
<1>2. slotsAvail \in Nat /\ slotsAvail <= Most
  BY Counts DEF IsrInv, IsrTypeOK, Most
<1>3. CASE TakeSet
  <2>1. estate' \in [Eids -> SUBSET Flag]
    BY <1>3 DEF TakeSet, IsrInv, IsrTypeOK, Flag
  <2> QED BY <1>1, <1>3, <2>1 DEF TakeSet, IsrInv, IsrTypeOK, PlaceInv, DriftInv, Due, ByteInv, main
<1>4. CASE TakeFree
  <2>1. target' \in Eids /\ doing' = "free" /\ pc' = "free" /\ scan' = {} /\ UNCHANGED poolVars
    BY <1>1, <1>4 DEF TakeFree, IsrInv, IsrTypeOK, Reports, NoReport
  <2>2. slotsAvail' + Due' <= Most
    <3>1. Due' = 1 /\ slotsAvail' = slotsAvail /\ slotsAvail < SlotBound
      BY <1>1, <1>4, <2>1, Counts DEF TakeFree, Due, Freeing, poolVars
    <3> QED BY <1>2, <3>1, Counts DEF Most
  <2> QED BY <1>1, <2>1, <2>2
          DEF IsrInv, IsrTypeOK, PlaceInv, DriftInv, ByteInv, poolVars, Idle, Operations, Steps, Freeing
<1>5. CASE TakeFreeAll
  <2>1. doing' = "freeAll" /\ pc' = Idle /\ scan' = Eids /\ target' = target /\ UNCHANGED poolVars
    BY <1>1, <1>5 DEF TakeFreeAll
  <2>2. slotsAvail' + Due' <= Most
    <3>1. Due' = Cardinality(Eids) /\ slotsAvail' = slotsAvail /\ slotsAvail < SlotBound
      BY <1>5, <2>1, Counts DEF TakeFreeAll, Due, Freeing, Idle, poolVars
    <3> QED BY <1>2, <3>1, Counts DEF Most
  <2> QED BY <1>1, <2>1, <2>2
          DEF IsrInv, IsrTypeOK, PlaceInv, DriftInv, ByteInv, poolVars, Idle, Operations
<1>6. CASE TakeReset
  <2>1. doing' = "reset" /\ pc' = "clear" /\ scan' = {} /\ target' = target /\ UNCHANGED poolVars
    BY <1>1, <1>6 DEF TakeReset
  <2>2. slotsAvail' + Due' <= Most
    BY <1>2, <2>1, Counts DEF Due, Freeing, poolVars
  <2> QED BY <1>1, <2>1, <2>2
          DEF IsrInv, IsrTypeOK, PlaceInv, DriftInv, ByteInv, poolVars, Idle, Operations, Steps, Resetting
<1> QED BY <1>3, <1>4, <1>5, <1>6

\* The loop of freeAllEffects and the return from a handler.
LEMMA LoopKeepsIsrInv ==
  ASSUME IsrInv, ScanOne \/ Return
  PROVE  IsrInv'
<1>1. /\ pc = Idle /\ doing # "none" /\ UNCHANGED poolVars /\ bank' = bank /\ register' = register
  BY DEF ScanOne, Return, IsrInv, PlaceInv
<1>2. slotsAvail \in Nat /\ scan \in SUBSET Eids /\ Cardinality(scan) \in Nat
  BY TypeFacts
<1>3. CASE ScanOne
  <2>1. /\ Min(scan) \in scan /\ Cardinality(scan') = Cardinality(scan) - 1
        /\ scan' = scan \ {Min(scan)} /\ doing' = doing /\ doing = "freeAll"
        /\ \/ target' = Min(scan) /\ pc' = "free"
           \/ target' = target /\ pc' = Idle
    BY <1>1, <1>2, <1>3, ScanCounts DEF ScanOne, IsrInv, PlaceInv
  <2>2. slotsAvail' + Due' <= Most
    <3>1. Due = Cardinality(scan)
      BY <1>1, <1>2 DEF Due, Idle, Freeing
    <3>2. Due' = Cardinality(scan) - 1 \/ Due' = Cardinality(scan)
      BY <1>2, <2>1 DEF Due, Idle, Freeing
    <3>3. slotsAvail + Due <= Most /\ slotsAvail' = slotsAvail
      BY <1>1 DEF IsrInv, DriftInv, poolVars
    <3> QED BY <1>2, <3>1, <3>2, <3>3, Counts
  <2> QED BY <1>1, <1>2, <2>1, <2>2
          DEF IsrInv, IsrTypeOK, PlaceInv, DriftInv, ByteInv, poolVars, Idle, Steps, Freeing
<1>4. CASE Return
  <2>1. doing' = "none" /\ scan = {} /\ UNCHANGED <<pc, target, scan>>
    BY <1>4 DEF Return
  <2> QED BY <1>1, <2>1 DEF IsrInv, IsrTypeOK, PlaceInv, DriftInv, Due, ByteInv, poolVars, Idle
<1> QED BY <1>3, <1>4

LEMMA FreeStepKeepsIsrInv ==
  ASSUME IsrInv, \/ FreeState \/ TestNext \/ RewindNext \/ LoadSlots \/ StoreSlots
                 \/ \E i \in {0, 1} : LoadBlocks(i) \/ StoreBlocks(i)
  PROVE  IsrInv'
<1>1. /\ slotsAvail \in Nat /\ Cardinality(scan) \in Nat /\ scan \in SUBSET Eids /\ target \in Eids
      /\ used \subseteq Blocks /\ estate \in [Eids -> SUBSET Flag] /\ slotsAvail + Due <= Most
  BY TypeFacts
<1>2. CASE FreeState
  <2>1. pc = "free" /\ pc' = "test" /\ UNCHANGED <<bank, doing, target, scan>>
    BY <1>2 DEF FreeState, At, FreeOrder
  <2>2. estate' \in [Eids -> SUBSET Flag]
    BY <1>1, <1>2 DEF FreeState, Free
  <2> QED BY <1>1, <1>2, <2>1, <2>2
          DEF FreeState, IsrInv, IsrTypeOK, PlaceInv, DriftInv, Due, ByteInv, Freeing, Resetting, Steps, Idle
<1>3. CASE TestNext
  BY <1>1, <1>3
  DEF TestNext, IsrInv, IsrTypeOK, PlaceInv, DriftInv, Due, ByteInv, Freeing, Resetting, Steps, Idle, poolVars
<1>4. CASE RewindNext
  <2>1. pc = "rewind" /\ pc' = "load0" /\ UNCHANGED <<bank, doing, target, scan>>
    BY <1>4 DEF RewindNext, At, FreeOrder
  <2>2. nextID' \in 2 .. MaxEffects
    BY <1>1, <1>4, PoolAssumption DEF RewindNext, Eids
  <2> QED BY <1>1, <1>4, <2>1, <2>2
          DEF RewindNext, IsrInv, IsrTypeOK, PlaceInv, DriftInv, Due, ByteInv, Freeing, Resetting, Steps, Idle
<1>5. ASSUME NEW i \in {0, 1}, LoadBlocks(i) PROVE IsrInv'
  <2>1. /\ pc \in {"load0", "load1"} /\ pc' \in {"store0", "store1"}
        /\ UNCHANGED <<bank, doing, target, scan>> /\ UNCHANGED poolVars
    BY <1>5 DEF LoadBlocks, At, FreeOrder
  <2>2. register'.byte \in SUBSET Blocks
    BY <1>1, <1>5 DEF LoadBlocks
  <2> QED BY <1>1, <2>1, <2>2
          DEF IsrInv, IsrTypeOK, PlaceInv, DriftInv, Due, ByteInv, Freeing, Resetting, Steps, Idle, poolVars
<1>6. ASSUME NEW i \in {0, 1}, StoreBlocks(i) PROVE IsrInv'
  <2>1. /\ pc \in {"store0", "store1"} /\ pc' \in {"load1", "load"}
        /\ UNCHANGED <<bank, doing, target, scan>>
    BY <1>6 DEF StoreBlocks, At, FreeOrder
  <2>2. used' \subseteq Blocks
    BY <1>1, <1>6, <2>1 DEF StoreBlocks, IsrInv, ByteInv
  <2> QED BY <1>1, <1>6, <2>1, <2>2
          DEF StoreBlocks, IsrInv, IsrTypeOK, PlaceInv, DriftInv, Due, ByteInv, Freeing, Resetting, Steps, Idle
<1>7. CASE LoadSlots
  <2>1. /\ pc = "load" /\ pc' = "store" /\ register' = slotsAvail
        /\ UNCHANGED <<bank, doing, target, scan>> /\ UNCHANGED poolVars
    BY <1>7 DEF LoadSlots, At, FreeOrder
  <2> QED BY <1>1, <2>1
          DEF IsrInv, IsrTypeOK, PlaceInv, DriftInv, Due, ByteInv, Freeing, Resetting, Steps, Idle, poolVars
<1>8. CASE StoreSlots
  <2>1. /\ pc = "store" /\ pc' = Idle /\ slotsAvail' = register + 1
        /\ UNCHANGED <<bank, doing, target, scan>>
        /\ UNCHANGED <<estate, pblocks, used, nextID, halted, held>>
    BY <1>8 DEF StoreSlots, At, FreeOrder
  <2>2. register \in Nat /\ register + Due <= Most /\ Due = Cardinality(scan) + 1
    BY <2>1 DEF IsrInv, DriftInv, Due, Freeing
  <2>3. Due' = Cardinality(scan)
    BY <1>1, <2>1 DEF Due, Freeing, Idle
  <2>4. slotsAvail' \in Nat /\ slotsAvail' + Due' <= Most
    BY <1>1, <2>1, <2>2, <2>3, Counts
  <2>5. slotsAvail' \in 0 .. Most
    BY <1>1, <2>3, <2>4, Counts
  <2>6. IsrTypeOK'
    BY <2>1, <2>5 DEF IsrInv, IsrTypeOK, Steps, Idle, Most
  <2> QED BY <1>1, <2>1, <2>4, <2>6
          DEF IsrInv, PlaceInv, DriftInv, ByteInv, Freeing, Resetting, Idle
<1> QED BY <1>2, <1>3, <1>4, <1>5, <1>6, <1>7, <1>8

\* The steps of ffb_init.
LEMMA ResetStepKeepsIsrInv ==
  ASSUME IsrInv, InitClear \/ InitNextID \/ InitSlots
  PROVE  IsrInv'
<1>1. /\ pc \in Resetting /\ pc' \in {"next", "slots", Idle} /\ UNCHANGED <<halted, held, bank, doing, target, scan>>
      /\ doing = "reset" /\ scan = {}
  BY DEF InitClear, InitNextID, InitSlots, IsrInv, PlaceInv, IsrTypeOK, Resetting, Freeing, Idle, Operations
<1>2. /\ estate' \in [Eids -> SUBSET Flag] /\ pblocks' \in [Eids -> [{0, 1} -> Blocks \cup {NoBlock}]]
      /\ used' \subseteq Blocks /\ nextID' \in {0} \cup 2 .. MaxEffects
  <2>1. CASE InitClear
    <3>1. 0 \in Blocks /\ pblocks' = [e \in Eids |-> [i \in {0, 1} |-> 0]]
      BY <2>1, PoolAssumption DEF InitClear, Blocks
    <3> QED BY <2>1, <3>1 DEF InitClear, Free
  <2>2. CASE InitNextID \/ InitSlots
    BY <2>2, PoolAssumption DEF InitNextID, InitSlots, IsrInv, IsrTypeOK
  <2> QED BY <2>1, <2>2
<1>3. slotsAvail' \in 0 .. Most
  BY Counts DEF InitClear, InitNextID, InitSlots, IsrInv, IsrTypeOK, Most
<1>4. Due' = 0
  BY <1>1, Counts DEF Due, Freeing, Idle
<1> QED BY <1>1, <1>2, <1>3, <1>4, Counts
        DEF IsrInv, IsrTypeOK, PlaceInv, DriftInv, ByteInv, Freeing, Resetting, Steps, Idle, Most

LEMMA IsrNextKeepsIsrInv == IsrInv /\ [IsrNext]_vars => IsrInv'
<1> SUFFICES ASSUME IsrInv, [IsrNext]_vars PROVE IsrInv'
  OBVIOUS
<1>1. CASE Interrupt
  BY <1>1, InterruptKeepsIsrInv
<1>2. CASE OutReports
  BY <1>2, WriteKeepsIsrInv, TakeKeepsIsrInv, LoopKeepsIsrInv, FreeStepKeepsIsrInv, ResetStepKeepsIsrInv
  DEF OutReports
<1>3. CASE UNCHANGED vars
  BY <1>3 DEF vars, poolVars, main, IsrInv, IsrTypeOK, PlaceInv, DriftInv, Due, ByteInv
<1> QED BY <1>1, <1>2, <1>3 DEF IsrNext

-----------------------------------------------------------------------------
(* The refinement: what has been done of a handler since it was started. *)

\* The effects that have been freed altogether.
Done ==
  IF doing = "free" THEN IF pc = Idle THEN {target} ELSE {}
  ELSE {e \in Eids \ scan : rested.estate[e] = {"Allocated"}} \ (IF pc = Idle THEN {} ELSE {target})

\* What has been done of the effect that is being freed: its state, nextID,
\* its bits in used[].
StateFreed == IF pc \in {Idle, "free"} THEN {} ELSE {target}
Rewound == IF pc \in {Idle, "free", "test", "rewind"} THEN {} ELSE {target}
BitOf(i) == ClearedBit(pblocks[target][i])
BitsCleared ==
  CASE pc \in {"load1", "store1"} -> {BitOf(0)}
    [] pc \in {"load", "store"}   -> {BitOf(0), BitOf(1)}
    [] OTHER                      -> {}

Loaded(i) == register = [bit |-> BitOf(i), byte |-> used \cap ByteOf(BitOf(i))]

FreedPartly ==
  /\ pblocks = rested.pblocks
  /\ estate = [e \in Eids |-> IF e \in Done \cup StateFreed THEN Free ELSE rested.estate[e]]
  /\ nextID = Min(Done \cup Rewound \cup {rested.nextID})
  /\ pc = "rewind" => target < nextID
  /\ used = rested.used \ (ClearedBits(Done) \cup BitsCleared)
  /\ slotsAvail = rested.slotsAvail + Cardinality(Done)
  /\ pc = "store0" => Loaded(0)
  /\ pc = "store1" => Loaded(1)
  /\ pc = "store" => register = slotsAvail
  /\ doing = "freeAll" /\ pc # Idle => rested.estate[target] = {"Allocated"}

\* The fields of a pool that ffb_init has cleared.
ClearedNow == estate = FreshPool.estate /\ pblocks = FreshPool.pblocks /\ used = {}
FreshNow == ClearedNow /\ nextID = 2 /\ slotsAvail = MaxEffects - 2

ResetPartly ==
  /\ pc # "clear" => ClearedNow
  /\ pc \in {"slots", Idle} => nextID = 2
  /\ pc = Idle => slotsAvail = MaxEffects - 2

\* What a host that may be trusted has written to the endpoint.
Discipline ==
  /\ bank.op = "set"  => \E e \in held : bank.eids = {e}
  /\ bank.op = "free" => \E e \in Eids : bank.eids = {e} /\ e \notin held
  /\ bank.op \in {"freeAll", "reset"} => held = {}

Kept ==
  /\ rested.halted = halted
  /\ Discipline
  /\ doing = "none" => rested = Pool
  /\ doing # "none" => halted = 0
  /\ doing = "free" => FreedPartly /\ target \in rested.held /\ held \cup bank.eids = rested.held \ {target}
  /\ doing = "freeAll" => FreedPartly /\ held \cup bank.eids = {}
  /\ doing = "reset" => ResetPartly /\ held \cup bank.eids = {}

Regaining ==
  /\ held = {} /\ halted = 0
  /\ \/ bank.op = "reset"
     \/ /\ bank.eids = {} /\ bank.op \in {"none", "freeAll"}
        /\ \/ doing = "reset" /\ ResetPartly
           \/ doing = "none" /\ FreshNow /\ bank # NoReport
           \/ doing = "freeAll" /\ FreshNow /\ pc = Idle

\* A pool whose count and cursor may be relied on.
FreeOf(f) == {e \in Eids : f[e] = Free}
Sound(p) ==
  /\ p.estate \in [Eids -> SUBSET Flag] /\ p.held \subseteq Eids
  /\ p.slotsAvail = Cardinality(FreeOf(p.estate))
  /\ p.nextID \in Nat
  /\ p.halted = 0 => p.nextID = Min(FreeOf(p.estate) \cup {MaxEffects})
  /\ \A e \in p.held : p.estate[e] # Free

AtomicInv ==
  /\ IsrInv
  /\ Sound(rested)
  /\ trust \in {"kept", "lost", "regaining"}
  /\ trust # "kept" => rested = FreshPool
  /\ trust = "kept" => Kept
  /\ trust = "regaining" => Regaining

-----------------------------------------------------------------------------

\* Adding an element to a set moves its least element or not.
LEMMA MinWith ==
  ASSUME NEW S \in SUBSET Nat, S # {}, NEW t \in Nat
  PROVE  /\ Min(S) \in Nat
         /\ t < Min(S) => Min(S \cup {t}) = t
         /\ ~(t < Min(S)) => Min(S \cup {t}) = Min(S)
<1>1. Min(S) \in S /\ Min(S) \in Nat /\ \A y \in S : Min(S) <= y
  BY MinIsLeast
<1>2. CASE t < Min(S)
  <2>1. \A y \in S : t <= y
    <3>1. SUFFICES ASSUME NEW y \in S PROVE t <= y
      OBVIOUS
    <3>2. Min(S) <= y /\ y \in Nat
      BY <1>1
    <3> QED BY <1>1, <1>2, <3>2
  <2>2. S \cup {t} \in SUBSET Nat /\ t \in S \cup {t} /\ \A y \in S \cup {t} : t <= y
    BY <2>1
  <2> QED BY <1>1, <1>2, <2>2, MinIsUnique
<1>3. CASE ~(t < Min(S))
  <2>1. Min(S) <= t
    BY <1>1, <1>3
  <2>2. S \cup {t} \in SUBSET Nat /\ Min(S) \in S \cup {t} /\ \A y \in S \cup {t} : Min(S) <= y
    BY <1>1, <2>1
  <2> QED BY <1>1, <1>3, <2>2, MinIsUnique
<1> QED BY <1>1, <1>2, <1>3

\* The next create writes to a free slot, if the count says there is one.
LEMMA SlotOfSound ==
  ASSUME NEW p, Sound(p), p.halted = 0, p.slotsAvail > 0
  PROVE  /\ p.nextID \in Eids /\ p.estate[p.nextID] = Free
         /\ \A e \in Eids : e < p.nextID => p.estate[e] # Free
<1> DEFINE F == FreeOf(p.estate)
<1>1. F \in SUBSET Eids /\ Eids \in SUBSET Nat /\ F \cup {MaxEffects} \in SUBSET Nat
      /\ \A e \in Eids : e < MaxEffects
  BY PoolAssumption DEF FreeOf, Eids
<1>2. F # {}
  BY FS_EmptySet DEF Sound
<1>3. PICK f \in F : TRUE
  BY <1>2
<1>4. /\ p.nextID \in F \cup {MaxEffects} /\ \A y \in F \cup {MaxEffects} : p.nextID <= y
  BY <1>1, MinIsLeast DEF Sound
<1>5. p.nextID \in F
  BY <1>1, <1>3, <1>4, PoolAssumption
<1> QED BY <1>1, <1>4, <1>5 DEF FreeOf

\* Freeing the live effects S keeps a pool sound.
LEMMA FreedIsSound ==
  ASSUME NEW p, Sound(p), NEW S \in SUBSET Eids, \A e \in S : p.estate[e] # Free,
         NEW q, q.estate = [e \in Eids |-> IF e \in S THEN Free ELSE p.estate[e]],
         q.nextID = Min(S \cup {p.nextID}), q.slotsAvail = p.slotsAvail + Cardinality(S),
         q.held \subseteq p.held \ S, q.halted = 0, p.halted = 0
  PROVE  Sound(q)
<1> DEFINE F == FreeOf(p.estate)
           G == FreeOf(q.estate)
<1>1. F \in SUBSET Eids /\ Eids \in SUBSET Nat /\ IsFiniteSet(Eids)
  BY FreeSlotsFinite, PoolAssumption DEF FreeOf, Eids
<1>2. q.estate \in [Eids -> SUBSET Flag] /\ G = F \cup S /\ F \cap S = {}
  BY DEF Sound, FreeOf, Free
<1>3. Cardinality(G) = Cardinality(F) + Cardinality(S)
  <2>1. IsFiniteSet(F) /\ IsFiniteSet(S)
    BY <1>1, FS_Subset
  <2>2. Cardinality(F \cup S) = Cardinality(F) + Cardinality(S) - Cardinality(F \cap S)
    BY <2>1, FS_Union
  <2>3. Cardinality(F) \in Nat /\ Cardinality(S) \in Nat /\ Cardinality(F \cap S) = 0
    BY <1>2, <2>1, FS_CardinalityType, FS_EmptySet
  <2> HIDE DEF F, G
  <2> QED BY <1>2, <2>2, <2>3
<1>4. q.nextID \in Nat /\ q.nextID = Min(G \cup {MaxEffects})
  <2> DEFINE A == F \cup {MaxEffects}
             B == S \cup {p.nextID}
  <2>1. A \in SUBSET Nat /\ A # {} /\ B \in SUBSET Nat /\ B # {} /\ p.nextID = Min(A)
    BY <1>1, PoolAssumption DEF Sound
  <2>2. /\ Min(A) \in A /\ \A y \in A : Min(A) <= y
        /\ Min(B) \in B /\ \A y \in B : Min(B) <= y
    BY <2>1, MinIsLeast
  <2>3. G \cup {MaxEffects} = A \cup S /\ A \cup S \in SUBSET Nat
    BY <1>2, <2>1
  <2>4. Min(B) \in A \cup S
    BY <2>1, <2>2
  <2>5. \A y \in A \cup S : Min(B) <= y
    <3>1. Min(B) <= Min(A) /\ \A y \in S : Min(B) <= y
      BY <2>1, <2>2
    <3>2. Min(B) \in Nat /\ Min(A) \in Nat
      BY <2>1, <2>2
    <3> HIDE DEF A, B
    <3> QED BY <2>1, <2>2, <3>1, <3>2
  <2>6. Min(A \cup S) = Min(B)
    BY <2>3, <2>4, <2>5, MinIsUnique
  <2> QED BY <2>1, <2>2, <2>3, <2>6
<1>5. \A e \in q.held : q.estate[e] # Free /\ e \in Eids
  BY DEF Sound
<1> QED BY <1>2, <1>3, <1>4, <1>5 DEF Sound

LEMMA FreshIsSound == Sound(FreshPool)
<1>1. FreeOf(FreshPool.estate) = Eids /\ FreshPool.estate \in [Eids -> SUBSET Flag]
  BY DEF FreeOf, FreshPool, Free
<1>2. Min(Eids \cup {MaxEffects}) = 2
  <2>1. Eids \cup {MaxEffects} \in SUBSET Nat /\ 2 \in Eids \cup {MaxEffects}
        /\ \A y \in Eids \cup {MaxEffects} : 2 <= y
    BY PoolAssumption DEF Eids
  <2> QED BY <2>1, MinIsUnique
<1> QED BY <1>1, <1>2, PoolSize DEF Sound, FreshPool

-----------------------------------------------------------------------------
(* The instructions of freeEffect, one lemma each. *)

\* What the steps of a handler have in common.
Handling == IsrInv /\ Sound(rested) /\ doing \in {"free", "freeAll"} /\ FreedPartly /\ rested' = rested

LEMMA HandlingFacts ==
  ASSUME Handling
  PROVE  /\ Done \in SUBSET Eids /\ Eids \in SUBSET Nat /\ target \in Eids /\ rested.nextID \in Nat
         /\ rested.estate \in [Eids -> SUBSET Flag] /\ estate \in [Eids -> SUBSET Flag]
         /\ used \subseteq Blocks /\ scan \in SUBSET Eids
         /\ pc # Idle => target \notin Done /\ target \notin scan
         /\ Done \cap scan = {}
<1>1. /\ target \in Eids /\ scan \in SUBSET Eids /\ used \subseteq Blocks
      /\ estate \in [Eids -> SUBSET Flag]
  BY TypeFacts DEF Handling
<1>2. Eids \in SUBSET Nat
  BY PoolAssumption DEF Eids
<1>3. doing = "free" => scan = {}
  BY DEF Handling, IsrInv, PlaceInv
<1> QED BY <1>1, <1>2, <1>3 DEF Handling, Sound, Done, IsrInv, PlaceInv

\* As long as an effect is being freed, the effects done with are the same.
LEMMA DoneStays ==
  ASSUME pc # Idle, pc' # Idle, UNCHANGED <<doing, scan, target, rested>>
  PROVE  Done' = Done
BY DEF Done

LEMMA FreeStateStep == ASSUME Handling, FreeState PROVE FreedPartly'
<1>1. /\ pc = "free" /\ pc' = "test" /\ UNCHANGED <<bank, doing, target, scan, rested>>
      /\ estate' = [estate EXCEPT ![target] = Free]
      /\ UNCHANGED <<pblocks, used, slotsAvail, nextID>>
  BY DEF FreeState, At, FreeOrder, Handling
<1>2. Done' = Done
  BY <1>1, DoneStays DEF Idle
<1>3. estate' = [e \in Eids |-> IF e \in Done' \cup StateFreed' THEN Free ELSE rested'.estate[e]]
  <2>1. StateFreed = {} /\ StateFreed' = {target}
    BY <1>1 DEF StateFreed, Idle
  <2>2. estate = [e \in Eids |-> IF e \in Done THEN Free ELSE rested.estate[e]]
    BY <2>1 DEF Handling, FreedPartly
  <2> QED BY <1>1, <1>2, <2>1, <2>2, HandlingFacts
<1>4. ClearedBits(Done)' = ClearedBits(Done) /\ BitsCleared = {} /\ BitsCleared' = {}
  BY <1>1, <1>2 DEF ClearedBits, BitsCleared
<1> QED BY <1>1, <1>2, <1>3, <1>4 DEF Handling, FreedPartly, Rewound, Idle

LEMMA TestNextStep == ASSUME Handling, TestNext PROVE FreedPartly'
<1>1. /\ pc = "test" /\ UNCHANGED <<bank, doing, target, scan, rested>>
      /\ UNCHANGED <<estate, pblocks, used, slotsAvail, nextID>>
      /\ pc' = IF target < nextID THEN "rewind" ELSE "load0"
  BY DEF TestNext, poolVars, Handling
<1>2. Done' = Done
  BY <1>1, DoneStays DEF Idle
<1>3. nextID' = Min(Done' \cup Rewound' \cup {rested'.nextID})
  <2> DEFINE S == Done \cup {rested.nextID}
  <2>1. nextID = Min(S)
    <3>1. Rewound = {}
      BY <1>1 DEF Rewound
    <3> QED BY <3>1 DEF Handling, FreedPartly
  <2>2. S \in SUBSET Nat /\ S # {} /\ target \in Nat
    BY HandlingFacts
  <2>3. ~(target < nextID) => Min(S \cup {target}) = nextID
    BY <2>1, <2>2, MinWith
  <2>4. Rewound' = IF target < nextID THEN {} ELSE {target}
    BY <1>1 DEF Rewound, Idle
  <2>5. Done' \cup Rewound' \cup {rested'.nextID} = IF target < nextID THEN S ELSE S \cup {target}
    BY <1>1, <1>2, <2>4
  <2> QED BY <1>1, <2>1, <2>3, <2>5
<1>4. ClearedBits(Done)' = ClearedBits(Done) /\ BitsCleared = {} /\ BitsCleared' = {}
  BY <1>1, <1>2 DEF ClearedBits, BitsCleared
<1>5. StateFreed' = StateFreed
  BY <1>1 DEF StateFreed, Idle
<1>6. pc' = "rewind" => target' < nextID'
  BY <1>1
<1> QED BY <1>1, <1>2, <1>3, <1>4, <1>5, <1>6 DEF Handling, FreedPartly, Idle

LEMMA RewindStep == ASSUME Handling, RewindNext PROVE FreedPartly'
<1>1. /\ pc = "rewind" /\ pc' = "load0" /\ UNCHANGED <<bank, doing, target, scan, rested>>
      /\ nextID' = target /\ UNCHANGED <<estate, pblocks, used, slotsAvail>>
  BY DEF RewindNext, At, FreeOrder, Handling
<1>2. Done' = Done
  BY <1>1, DoneStays DEF Idle
<1>3. nextID' = Min(Done' \cup Rewound' \cup {rested'.nextID})
  <2> DEFINE S == Done \cup {rested.nextID}
  <2>1. nextID = Min(S) /\ target < nextID
    <3>1. Rewound = {}
      BY <1>1 DEF Rewound
    <3> QED BY <1>1, <3>1 DEF Handling, FreedPartly
  <2>2. S \in SUBSET Nat /\ S # {} /\ target \in Nat
    BY HandlingFacts
  <2>3. Min(S \cup {target}) = target
    BY <2>1, <2>2, MinWith
  <2>4. Rewound' = {target}
    BY <1>1 DEF Rewound, Idle
  <2>5. Done' \cup Rewound' \cup {rested'.nextID} = S \cup {target}
    BY <1>1, <1>2, <2>4
  <2> QED BY <1>1, <2>3, <2>5
<1>4. ClearedBits(Done)' = ClearedBits(Done) /\ BitsCleared = {} /\ BitsCleared' = {}
  BY <1>1, <1>2 DEF ClearedBits, BitsCleared
<1>5. StateFreed' = StateFreed
  BY <1>1 DEF StateFreed, Idle
<1> QED BY <1>1, <1>2, <1>3, <1>4, <1>5 DEF Handling, FreedPartly, Idle

LEMMA LoadBlocksStep == ASSUME Handling, NEW i \in {0, 1}, LoadBlocks(i) PROVE FreedPartly'
<1>1. /\ \/ i = 0 /\ pc = "load0" /\ pc' = "store0"
         \/ i = 1 /\ pc = "load1" /\ pc' = "store1"
      /\ UNCHANGED <<bank, doing, target, scan, rested>>
      /\ UNCHANGED <<estate, pblocks, used, slotsAvail, nextID>>
      /\ Loaded(i)'
  BY DEF LoadBlocks, At, FreeOrder, Handling, poolVars, Loaded, BitOf, ByteOf
<1>2. Done' = Done
  BY <1>1, DoneStays DEF Idle
<1>3. ClearedBits(Done)' = ClearedBits(Done) /\ BitsCleared' = BitsCleared
  BY <1>1, <1>2 DEF ClearedBits, BitsCleared, BitOf
<1>4. StateFreed' = StateFreed /\ Rewound' = Rewound
  BY <1>1 DEF StateFreed, Rewound, Idle
<1>5. (pc' = "store0" => Loaded(0)') /\ (pc' = "store1" => Loaded(1)')
  BY <1>1
<1> QED BY <1>1, <1>2, <1>3, <1>4, <1>5 DEF Handling, FreedPartly, Idle

\* Storing the byte clears its bit in used[] and no other, if the byte has
\* not changed since it was loaded.
LEMMA StoreBlocksStep == ASSUME Handling, NEW i \in {0, 1}, StoreBlocks(i) PROVE FreedPartly'
<1>1. /\ \/ i = 0 /\ pc = "store0" /\ pc' = "load1"
         \/ i = 1 /\ pc = "store1" /\ pc' = "load"
      /\ UNCHANGED <<bank, doing, target, scan, rested>>
      /\ UNCHANGED <<estate, pblocks, slotsAvail, nextID>>
      /\ used' = (used \ ByteOf(register.bit)) \cup (register.byte \ {register.bit})
  BY DEF StoreBlocks, At, FreeOrder, Handling
<1>2. Done' = Done
  BY <1>1, DoneStays DEF Idle
<1>3. used' = used \ {BitOf(i)}
  <2>1. register.bit = BitOf(i) /\ register.byte = used \cap ByteOf(BitOf(i))
    <3>1. Loaded(i)
      BY <1>1 DEF Handling, FreedPartly
    <3> QED BY <3>1 DEF Loaded
  <2>2. BitOf(i) \in used => BitOf(i) \in ByteOf(BitOf(i))
    BY HandlingFacts DEF ByteOf
  <2> HIDE DEF BitOf
  <2> QED BY <1>1, <2>1, <2>2
<1>4. ClearedBits(Done)' = ClearedBits(Done) /\ BitsCleared' = BitsCleared \cup {BitOf(i)}
  BY <1>1, <1>2 DEF ClearedBits, BitsCleared, BitOf
<1>5. used' = rested'.used \ (ClearedBits(Done)' \cup BitsCleared')
  <2>1. used = rested.used \ (ClearedBits(Done) \cup BitsCleared)
    BY DEF Handling, FreedPartly
  <2> QED BY <1>1, <1>3, <1>4, <2>1
<1>6. StateFreed' = StateFreed /\ Rewound' = Rewound
  BY <1>1 DEF StateFreed, Rewound, Idle
<1> QED BY <1>1, <1>2, <1>4, <1>5, <1>6 DEF Handling, FreedPartly, Idle

LEMMA LoadSlotsStep == ASSUME Handling, LoadSlots PROVE FreedPartly'
<1>1. /\ pc = "load" /\ pc' = "store" /\ register' = slotsAvail
      /\ UNCHANGED <<bank, doing, target, scan, rested>>
      /\ UNCHANGED <<estate, pblocks, used, slotsAvail, nextID>>
  BY DEF LoadSlots, At, FreeOrder, Handling, poolVars
<1>2. Done' = Done
  BY <1>1, DoneStays DEF Idle
<1>3. ClearedBits(Done)' = ClearedBits(Done) /\ BitsCleared' = BitsCleared
  BY <1>1, <1>2 DEF ClearedBits, BitsCleared, BitOf
<1>4. StateFreed' = StateFreed /\ Rewound' = Rewound
  BY <1>1 DEF StateFreed, Rewound, Idle
<1> QED BY <1>1, <1>2, <1>3, <1>4 DEF Handling, FreedPartly, Idle

\* The last instruction counts the slot: the effect is done with.
LEMMA StoreSlotsStep == ASSUME Handling, StoreSlots PROVE FreedPartly'
<1>1. /\ pc = "store" /\ pc' = Idle /\ slotsAvail' = register + 1
      /\ UNCHANGED <<bank, doing, target, scan, rested>>
      /\ UNCHANGED <<estate, pblocks, used, nextID>>
  BY DEF StoreSlots, At, FreeOrder, Handling
<1>2. Done' = Done \cup {target} /\ target \notin Done
  <2>1. doing = "freeAll" => target \in {e \in Eids \ scan : rested.estate[e] = {"Allocated"}}
    BY <1>1, HandlingFacts DEF Handling, FreedPartly, Idle
  <2> QED BY <1>1, <2>1 DEF Done, Idle, Handling
<1>3. slotsAvail' = rested'.slotsAvail + Cardinality(Done')
  <2>1. register = rested.slotsAvail + Cardinality(Done)
    BY <1>1 DEF Handling, FreedPartly
  <2>2. IsFiniteSet(Done) /\ Cardinality(Done) \in Nat
    BY HandlingFacts, FreeSlotsFinite, FS_Subset, FS_CardinalityType
  <2>3. Cardinality(Done') = Cardinality(Done) + 1
    BY <1>2, <2>2, FS_AddElement
  <2>4. rested.slotsAvail \in Nat
    <3>1. FreeOf(rested.estate) \in SUBSET Eids
      BY DEF FreeOf
    <3> QED BY <3>1, FreeSlotsFinite, FS_Subset, FS_CardinalityType DEF Handling, Sound
  <2> QED BY <1>1, <2>1, <2>2, <2>3, <2>4
<1>4. ClearedBits(Done)' \cup BitsCleared' = ClearedBits(Done) \cup BitsCleared
  <2>1. BitsCleared = {BitOf(0), BitOf(1)} /\ BitsCleared' = {}
    BY <1>1 DEF BitsCleared, Idle
  <2>2. ClearedBits(Done)' = {ClearedBit(pblocks[e][i]) : e \in Done \cup {target}, i \in {0, 1}}
    BY <1>1, <1>2 DEF ClearedBits
  <2>3. ClearedBits(Done) = {ClearedBit(pblocks[e][i]) : e \in Done, i \in {0, 1}}
    BY DEF ClearedBits
  <2> QED BY <2>1, <2>2, <2>3 DEF BitOf
<1>5. /\ StateFreed = {target} /\ StateFreed' = {} /\ Rewound = {target} /\ Rewound' = {}
  BY <1>1 DEF StateFreed, Rewound, Idle
<1>6. /\ Done' \cup StateFreed' = Done \cup StateFreed
      /\ Done' \cup Rewound' \cup {rested'.nextID} = Done \cup Rewound \cup {rested.nextID}
  BY <1>1, <1>2, <1>5
<1> QED BY <1>1, <1>3, <1>4, <1>6 DEF Handling, FreedPartly, Idle

\* The loop of freeAllEffects looks at a state that is still the one it had
\* when the handler began.
LEMMA ScanOneStep == ASSUME Handling, ScanOne PROVE FreedPartly'
<1> DEFINE m == Min(scan)
<1>1. /\ pc = Idle /\ scan # {} /\ scan' = scan \ {m} /\ doing = "freeAll"
      /\ UNCHANGED <<doing, rested, register>> /\ UNCHANGED <<estate, pblocks, used, slotsAvail, nextID>>
      /\ IF estate[m] = {"Allocated"} THEN target' = m /\ pc' = "free" ELSE target' = target /\ pc' = pc
  BY DEF ScanOne, Handling, IsrInv, PlaceInv, poolVars
<1>2. m \in scan /\ m \in Eids
  BY <1>1, ScanCounts, HandlingFacts
<1> HIDE DEF m
<1>3. estate[m] = rested.estate[m]
  <2>1. m \notin Done /\ StateFreed = {}
    BY <1>1, <1>2, HandlingFacts DEF StateFreed
  <2> QED BY <1>2, <2>1 DEF Handling, FreedPartly
<1>4. Done' = Done
  BY <1>1, <1>2, <1>3, HandlingFacts DEF Done, Idle
<1>5. ClearedBits(Done)' = ClearedBits(Done) /\ BitsCleared = {} /\ BitsCleared' = {}
  BY <1>1, <1>4 DEF ClearedBits, BitsCleared, Idle
<1>6. StateFreed = {} /\ StateFreed' = {} /\ Rewound = {} /\ Rewound' = {}
  BY <1>1 DEF StateFreed, Rewound
<1>7. pc' # Idle => rested'.estate[target'] = {"Allocated"}
  BY <1>1, <1>3
<1> QED BY <1>1, <1>4, <1>5, <1>6, <1>7 DEF Handling, FreedPartly, Idle

-----------------------------------------------------------------------------
(* The steps of FfbPool. *)

\* The operators of the instance are those of FfbPool.
LEMMA SameOperators ==
  /\ Atomic!Eids = Eids /\ Atomic!Blocks = Blocks /\ Atomic!NoBlock = NoBlock /\ Atomic!Free = Free
  /\ Atomic!PoolFull = PoolFull /\ Atomic!NoBlockLeft = NoBlockLeft
  /\ \A S : Atomic!Min(S) = Min(S) /\ Atomic!LowestClear(S) = LowestClear(S)
  /\ \A i : Atomic!ClearedBit(i) = ClearedBit(i)
<1>1. \A S : Atomic!Min(S) = Min(S)
  BY DEF Atomic!Min, Min
<1>2. /\ Atomic!Eids = Eids /\ Atomic!Blocks = Blocks /\ Atomic!NoBlock = NoBlock /\ Atomic!Free = Free
      /\ Atomic!PoolFull = PoolFull /\ Atomic!NoBlockLeft = NoBlockLeft
  BY DEF Atomic!Eids, Eids, Atomic!Blocks, Blocks, Atomic!NoBlock, NoBlock, Atomic!Free, Free,
         Atomic!PoolFull, PoolFull, Atomic!NoBlockLeft, NoBlockLeft
<1>3. \A S : Atomic!LowestClear(S) = LowestClear(S)
  BY <1>1, <1>2 DEF Atomic!LowestClear, LowestClear
<1>4. \A i : Atomic!ClearedBit(i) = ClearedBit(i)
  BY DEF Atomic!ClearedBit, ClearedBit
<1> QED BY <1>1, <1>2, <1>3, <1>4

LEMMA SameCardinality == \A S : Atomic!Cardinality(S) = Cardinality(S)
BY DEF Atomic!Cardinality, Cardinality

\* A create keeps a pool sound.
LEMMA CreatedIsSound ==
  ASSUME NEW p, Sound(p), p.halted = 0, p.slotsAvail > 0,
         NEW q, q.estate = [p.estate EXCEPT ![p.nextID] = {"Allocated"}],
         q.nextID = Min({i \in p.nextID + 1 .. MaxEffects - 1 : p.estate[i] = Free} \cup {MaxEffects}),
         q.slotsAvail = p.slotsAvail - 1, q.held = p.held \cup {p.nextID}
  PROVE  Sound(q)
<1> DEFINE n == p.nextID
           F == FreeOf(p.estate)
           G == FreeOf(q.estate)
           S == {i \in n + 1 .. MaxEffects - 1 : p.estate[i] = Free} \cup {MaxEffects}
<1>1. n \in Eids /\ p.estate[n] = Free /\ \A e \in Eids : e < n => p.estate[e] # Free
  BY SlotOfSound
<1>2. q.estate \in [Eids -> SUBSET Flag] /\ G = F \ {n} /\ n \in F /\ F \in SUBSET Eids
  BY <1>1 DEF Sound, FreeOf, Free, Flag
<1>3. q.slotsAvail = Cardinality(G)
  <2>1. IsFiniteSet(F)
    BY <1>2, FreeSlotsFinite, FS_Subset
  <2>2. Cardinality(F \ {n}) = Cardinality(F) - 1
    BY <1>2, <2>1, FS_RemoveElement
  <2> QED BY <1>2, <2>2 DEF Sound
<1>4. q.nextID \in Nat /\ q.nextID = Min(G \cup {MaxEffects})
  <2>1. S = G \cup {MaxEffects}
    <3>1. \A e \in Eids : e \in n + 1 .. MaxEffects - 1 <=> ~(e < n) /\ e # n
      BY <1>1, PoolAssumption DEF Eids
    <3>2. \A i \in n + 1 .. MaxEffects - 1 : i \in Eids
      BY <1>1, PoolAssumption DEF Eids
    <3>3. \A e \in F : ~(e < n)
      BY <1>1, <1>2 DEF FreeOf
    <3>4. {i \in n + 1 .. MaxEffects - 1 : p.estate[i] = Free} = F \ {n}
      BY <3>1, <3>2, <3>3 DEF FreeOf
    <3> QED BY <1>2, <3>4
  <2>2. S \in SUBSET Nat /\ S # {}
    BY <1>1, PoolAssumption DEF Eids
  <2>3. Min(S) \in Nat
    BY <2>2, MinIsLeast
  <2> HIDE DEF S, G
  <2> QED BY <2>1, <2>3 DEF S
<1>5. q.held \subseteq Eids /\ \A e \in q.held : q.estate[e] # Free
  BY <1>1 DEF Sound, Free
<1> QED BY <1>2, <1>3, <1>4, <1>5 DEF Sound

\* The fields of Pool.
LEMMA PoolFields ==
  /\ Pool.estate = estate /\ Pool.pblocks = pblocks /\ Pool.used = used /\ Pool.slotsAvail = slotsAvail
  /\ Pool.nextID = nextID /\ Pool.halted = halted /\ Pool.held = held \cup bank.eids
BY DEF Pool

LEMMA PoolFieldsNext ==
  /\ Pool'.estate = estate' /\ Pool'.pblocks = pblocks' /\ Pool'.used = used'
  /\ Pool'.slotsAvail = slotsAvail' /\ Pool'.nextID = nextID' /\ Pool'.halted = halted'
  /\ Pool'.held = held' \cup bank'.eids
BY DEF Pool

\* A create that the host awaits at rest is the create of FfbPool.
LEMMA AwaitedCreate ==
  ASSUME AtomicInv, trust = "kept", AllAtRest, Interrupt, rested' = Pool'
  PROVE  Atomic!Next /\ Sound(rested') /\ Kept'
<1>1. /\ rested = Pool /\ bank = NoReport /\ doing = "none" /\ bank.eids = {} /\ Sound(rested)
      /\ UNCHANGED <<bank, doing>>
  BY DEF AtomicInv, Kept, AllAtRest, NoReport, Interrupt, IsrCreate, IsrCreateFails, IsrCreateBeyond, main
<1>2. /\ rested.estate = estate /\ rested.pblocks = pblocks /\ rested.used = used
      /\ rested.slotsAvail = slotsAvail /\ rested.nextID = nextID /\ rested.halted = halted
      /\ rested.held = held
  BY <1>1, PoolFields
<1>3. /\ rested'.estate = estate' /\ rested'.pblocks = pblocks' /\ rested'.used = used'
      /\ rested'.slotsAvail = slotsAvail' /\ rested'.nextID = nextID' /\ rested'.halted = halted'
      /\ rested'.held = held'
  BY <1>1, PoolFieldsNext
<1>4. Kept'
  <2>1. bank'.op = "none" /\ doing' = "none" /\ rested' = Pool' /\ rested'.halted = halted'
    BY <1>1, <1>3 DEF NoReport
  <2> QED BY <2>1 DEF Kept, Discipline
<1>5. CASE CreateEffect
  <2>1. Atomic!CreateEffect
    BY <1>2, <1>3, <1>5, SameOperators
    DEF CreateEffect, Atomic!CreateEffect, Running, Atomic!Running, ScanFree, Atomic!ScanFree
  <2>2. Sound(rested')
    <3>1. /\ halted = 0 /\ slotsAvail > 0 /\ estate' = [estate EXCEPT ![nextID] = {"Allocated"}]
          /\ nextID' = Min({i \in nextID + 1 .. MaxEffects - 1 : estate[i] = Free} \cup {MaxEffects})
          /\ slotsAvail' = slotsAvail - 1 /\ held' = held \cup {nextID}
      BY <1>5 DEF CreateEffect, Running, ScanFree
    <3>2. /\ rested.halted = 0 /\ rested.slotsAvail > 0
          /\ rested'.estate = [rested.estate EXCEPT ![rested.nextID] = {"Allocated"}]
          /\ rested'.nextID = Min({i \in rested.nextID + 1 .. MaxEffects - 1 : rested.estate[i] = Free}
                                    \cup {MaxEffects})
          /\ rested'.slotsAvail = rested.slotsAvail - 1 /\ rested'.held = rested.held \cup {rested.nextID}
      BY <1>2, <1>3, <3>1
    <3> QED BY <1>1, <3>2, CreatedIsSound
  <2> QED BY <1>4, <2>1, <2>2 DEF Atomic!Next
<1>6. CASE CreateWhenFull
  <2>1. Atomic!CreateWhenFull
    BY <1>2, <1>3, <1>6, SameOperators DEF CreateWhenFull, Atomic!CreateWhenFull, Running, Atomic!Running
  <2>2. Sound(rested')
    BY <1>1, <1>2, <1>3, <1>6 DEF CreateWhenFull, Sound, PoolFull
  <2> QED BY <1>4, <2>1, <2>2 DEF Atomic!Next
<1>7. CASE nextID \in Eids /\ CreateWithoutBlocks
  <2>1. Atomic!CreateWithoutBlocks
    BY <1>2, <1>3, <1>7, SameOperators
    DEF CreateWithoutBlocks, Atomic!CreateWithoutBlocks, Running, Atomic!Running, ScanFree, Atomic!ScanFree
  <2>2. Sound(rested')
    <3>1. nextID' \in Nat
      BY <1>7, ScanBeyond DEF CreateWithoutBlocks
    <3>2. halted' # 0 /\ UNCHANGED <<estate, slotsAvail, held>>
      BY <1>7 DEF CreateWithoutBlocks, NoBlockLeft
    <3> QED BY <1>1, <1>2, <1>3, <3>1, <3>2 DEF Sound
  <2> QED BY <1>4, <2>1, <2>2 DEF Atomic!Next
<1>8. CASE IsrCreateBeyond
  <2>1. nextID \notin Eids /\ slotsAvail > 0 /\ halted = 0
    BY <1>8 DEF IsrCreateBeyond, Running
  <2> QED BY <1>1, <1>2, <2>1, SlotOfSound
<1> QED BY <1>5, <1>6, <1>7, <1>8 DEF Interrupt, IsrCreate, IsrCreateFails

-----------------------------------------------------------------------------
(* The steps of the endpoint and of the handlers while the host waits. *)

LEMMA FreedPartlyStays ==
  ASSUME FreedPartly, UNCHANGED <<estate, pblocks, used, slotsAvail, nextID, doing, pc, target, scan, register, rested>>
  PROVE  FreedPartly'
<1>1. Done' = Done /\ StateFreed' = StateFreed /\ Rewound' = Rewound /\ BitsCleared' = BitsCleared
      /\ (Loaded(0)' <=> Loaded(0)) /\ (Loaded(1)' <=> Loaded(1))
  BY DEF Done, StateFreed, Rewound, BitsCleared, Loaded, BitOf
<1>2. ClearedBits(Done)' = ClearedBits(Done)
  BY <1>1 DEF ClearedBits
<1> QED BY <1>1, <1>2 DEF FreedPartly

\* A report that waits does not change the pool: its effects are the host's.
LEMMA KeptWrite ==
  ASSUME AtomicInv, trust = "kept", HostSets \/ HostFrees \/ HostFreesAll \/ HostResets,
         rested' = IF doing' = "none" THEN Pool' ELSE rested
  PROVE  rested' = rested /\ Kept'
<1>1. /\ UNCHANGED <<estate, pblocks, used, slotsAvail, nextID, halted, doing, pc, target, scan, register>>
      /\ Kept /\ bank.eids = {} /\ halted = 0
  BY DEF HostSets, HostFrees, HostFreesAll, HostResets, Write, main, AtomicInv, NoReport, Running
<1>2. held' \cup bank'.eids = held \cup bank.eids /\ Discipline'
  <2>1. held \in SUBSET Eids
    BY DEF AtomicInv, IsrInv, IsrTypeOK
  <2>2. CASE HostSets
    BY <1>1, <2>2 DEF HostSets, Write, Discipline
  <2>3. CASE HostFrees
    BY <1>1, <2>1, <2>3 DEF HostFrees, Write, Discipline
  <2>4. CASE HostFreesAll \/ HostResets
    BY <1>1, <2>4 DEF HostFreesAll, HostResets, Write, Discipline
  <2> QED BY <2>2, <2>3, <2>4
<1>3. Pool' = Pool
  BY <1>1, <1>2 DEF Pool
<1>4. rested' = rested
  BY <1>1, <1>3 DEF Kept
<1>5. FreedPartly => FreedPartly'
  BY <1>1, <1>4, FreedPartlyStays
<1>6. ResetPartly => ResetPartly'
  BY <1>1 DEF ResetPartly, ClearedNow, FreshPool
<1> QED BY <1>1, <1>2, <1>3, <1>4, <1>5, <1>6 DEF Kept

\* Set Effect is one step here as there.
LEMMA KeptTakeSet ==
  ASSUME AtomicInv, trust = "kept", TakeSet, rested' = Pool'
  PROVE  Atomic!Next /\ Sound(rested') /\ Kept'
<1>1. PICK e \in held : bank.eids = {e}
  BY DEF AtomicInv, Kept, Discipline, TakeSet, Take
<1>2. /\ halted = 0 /\ doing = "none" /\ rested = Pool /\ Sound(rested) /\ e \in Eids /\ rested.halted = 0
      /\ bank'.eids = {} /\ bank'.op = "none" /\ doing' = "none"
      /\ estate' = [f \in Eids |-> estate[f] \cup IF f \in {e} THEN {"SentToDevice"} ELSE {}]
      /\ UNCHANGED <<pblocks, used, slotsAvail, nextID, halted, held>>
  BY <1>1 DEF AtomicInv, Kept, TakeSet, Take, Running, main, NoReport, IsrInv, IsrTypeOK
<1>3. /\ rested.estate = estate /\ rested.pblocks = pblocks /\ rested.used = used
      /\ rested.slotsAvail = slotsAvail /\ rested.nextID = nextID /\ rested.halted = halted
      /\ rested.held = held
  BY <1>1, <1>2, PoolFields
<1>4. /\ rested'.estate = estate' /\ rested'.pblocks = pblocks /\ rested'.used = used
      /\ rested'.slotsAvail = slotsAvail /\ rested'.nextID = nextID /\ rested'.halted = halted
      /\ rested'.held = held
  BY <1>2, PoolFieldsNext
<1>5. estate' = [estate EXCEPT ![e] = @ \cup {"SentToDevice"}] /\ estate' \in [Eids -> SUBSET Flag]
  <2>1. estate \in [Eids -> SUBSET Flag]
    BY <1>2, <1>3 DEF Sound
  <2> QED BY <1>2, <2>1 DEF Flag
<1>6. Atomic!SetEffect(e)
  BY <1>2, <1>3, <1>4, <1>5 DEF Atomic!SetEffect, Atomic!Running
<1>7. Sound(rested')
  <2>1. estate[e] # Free
    BY <1>2, <1>3 DEF Sound
  <2>2. FreeOf(estate') = FreeOf(estate)
    BY <1>2, <1>5, <2>1 DEF FreeOf, Free
  <2>3. \A f \in held : estate'[f] # Free
    BY <1>2, <1>3 DEF Sound, Free
  <2> QED BY <1>2, <1>3, <1>4, <1>5, <2>2, <2>3 DEF Sound
<1>8. Kept'
  BY <1>2, <1>4 DEF Kept, Discipline
<1> QED BY <1>2, <1>6, <1>7, <1>8, SameOperators DEF Atomic!Next

\* The other reports start a handler: nothing of it has been done yet.
LEMMA KeptTake ==
  ASSUME AtomicInv, trust = "kept", TakeFree \/ TakeFreeAll \/ TakeReset, rested' = rested
  PROVE  Kept'
<1>1. /\ Kept /\ doing = "none" /\ pc = Idle /\ scan = {} /\ halted = 0 /\ bank'.eids = {} /\ bank'.op = "none"
      /\ UNCHANGED <<estate, pblocks, used, slotsAvail, nextID, halted, held>>
  BY DEF AtomicInv, IsrInv, PlaceInv, TakeFree, TakeFreeAll, TakeReset, Take, Running, NoReport, poolVars
<1>2. /\ rested.estate = estate /\ rested.pblocks = pblocks /\ rested.used = used
      /\ rested.slotsAvail = slotsAvail /\ rested.nextID = nextID /\ rested.halted = halted
      /\ rested.held = held \cup bank.eids
  BY <1>1, PoolFields DEF Kept
<1>3. ASSUME Done' = {}, pc' \in {Idle, "free"}, doing' = "free" \/ pc' = Idle
      PROVE  FreedPartly'
  <2>1. StateFreed' = {} /\ Rewound' = {} /\ BitsCleared' = {} /\ ClearedBits(Done)' = {}
    BY <1>3 DEF StateFreed, Rewound, BitsCleared, ClearedBits, Idle
  <2>2. estate \in [Eids -> SUBSET Flag] /\ rested.nextID \in Nat /\ slotsAvail \in Nat
    BY TypeFacts DEF AtomicInv, Sound
  <2>3. Min({rested.nextID}) = rested.nextID
    BY <2>2, MinIsUnique
  <2>4. estate' = [e \in Eids |-> IF e \in Done' \cup StateFreed' THEN Free ELSE rested'.estate[e]]
    BY <1>1, <1>2, <1>3, <2>1, <2>2
  <2>5. nextID' = Min(Done' \cup Rewound' \cup {rested'.nextID})
    BY <1>1, <1>2, <1>3, <2>1, <2>3
  <2>6. slotsAvail' = rested'.slotsAvail + Cardinality(Done')
    BY <1>1, <1>2, <1>3, <2>2, Counts
  <2> QED BY <1>1, <1>2, <1>3, <2>1, <2>4, <2>5, <2>6 DEF FreedPartly, Idle
<1>4. Discipline'
  BY <1>1 DEF Discipline
<1>5. CASE TakeFree
  <2>1. PICK e \in Eids : bank.eids = {e} /\ e \notin held
    BY <1>1, <1>5 DEF Kept, Discipline, TakeFree, Take
  <2>2. doing' = "free" /\ target' = e /\ pc' = "free"
    BY <1>5, <2>1 DEF TakeFree
  <2>3. FreedPartly'
    BY <1>3, <2>2 DEF Done, Idle
  <2> QED BY <1>1, <1>2, <1>4, <2>1, <2>2, <2>3 DEF Kept
<1>6. CASE TakeFreeAll
  <2>1. doing' = "freeAll" /\ pc' = Idle /\ scan' = Eids /\ held = {}
    BY <1>1, <1>6 DEF TakeFreeAll, Take, Kept, Discipline
  <2>2. FreedPartly'
    BY <1>3, <2>1 DEF Done
  <2> QED BY <1>1, <1>2, <1>4, <2>1, <2>2 DEF Kept
<1>7. CASE TakeReset
  <2>1. doing' = "reset" /\ pc' = "clear" /\ held = {}
    BY <1>1, <1>7 DEF TakeReset, Take, Kept, Discipline
  <2>2. ResetPartly'
    BY <2>1 DEF ResetPartly, Idle
  <2> QED BY <1>1, <1>2, <1>4, <2>1, <2>2 DEF Kept
<1> QED BY <1>5, <1>6, <1>7

FreeSteps ==
  \/ ScanOne \/ FreeState \/ TestNext \/ RewindNext \/ LoadSlots \/ StoreSlots
  \/ \E i \in {0, 1} : LoadBlocks(i) \/ StoreBlocks(i)

ResetSteps == InitClear \/ InitNextID \/ InitSlots

\* Where the steps of the handlers can be taken.
LEMMA StepPlaces ==
  ASSUME IsrInv
  PROVE  /\ FreeSteps => /\ doing \in {"free", "freeAll"} /\ halted = 0
                         /\ UNCHANGED <<bank, held, halted, doing>>
                         /\ doing = "free" => target' = target
         /\ ResetSteps => doing = "reset" /\ halted = 0 /\ UNCHANGED <<bank, held, halted, doing>>
<1>1. ASSUME FreeSteps
      PROVE  /\ doing \in {"free", "freeAll"} /\ halted = 0
             /\ UNCHANGED <<bank, held, halted, doing>>
             /\ doing = "free" => target' = target
  <2>1. CASE ScanOne
    BY <2>1 DEF ScanOne, IsrInv, PlaceInv, poolVars, Running
  <2>2. CASE TestNext
    BY <2>2 DEF TestNext, IsrInv, IsrTypeOK, PlaceInv, poolVars, Operations, Resetting, Idle, Running
  <2>3. CASE FreeState \/ RewindNext \/ LoadSlots \/ StoreSlots \/ \E i \in {0, 1} : LoadBlocks(i) \/ StoreBlocks(i)
    <3>1. PICK step \in {"free", "rewind", "load", "store", "load0", "load1", "store0", "store1"} : At(step)
      BY <2>3 DEF FreeState, RewindNext, LoadSlots, StoreSlots, LoadBlocks, StoreBlocks
    <3>2. UNCHANGED <<held, halted>>
      BY <2>3 DEF FreeState, RewindNext, LoadSlots, StoreSlots, LoadBlocks, StoreBlocks, poolVars
    <3> QED BY <3>1, <3>2 DEF At, IsrInv, IsrTypeOK, PlaceInv, Operations, Resetting, Idle, Running
  <2> QED BY <1>1, <2>1, <2>2, <2>3 DEF FreeSteps
<1>2. ASSUME ResetSteps
      PROVE  doing = "reset" /\ halted = 0 /\ UNCHANGED <<bank, held, halted, doing>>
  BY <1>2 DEF ResetSteps, InitClear, InitNextID, InitSlots, IsrInv, IsrTypeOK, PlaceInv, Operations, Freeing, Idle, Running
<1> QED BY <1>1, <1>2

LEMMA KeptFreeStep ==
  ASSUME AtomicInv, trust = "kept", FreeSteps, rested' = rested
  PROVE  Kept'
<1>1. /\ doing \in {"free", "freeAll"} /\ halted = 0 /\ UNCHANGED <<bank, held, halted, doing>>
      /\ doing = "free" => target' = target
      /\ Kept
  BY StepPlaces DEF AtomicInv
<1>2. Handling
  BY <1>1 DEF Handling, AtomicInv, Kept
<1>3. FreedPartly'
  BY <1>2, ScanOneStep, FreeStateStep, TestNextStep, RewindStep, LoadBlocksStep, StoreBlocksStep,
     LoadSlotsStep, StoreSlotsStep DEF FreeSteps
<1>4. Discipline'
  BY <1>1 DEF Kept, Discipline
<1> QED BY <1>1, <1>3, <1>4 DEF Kept

\* ffb_init: what has been cleared stays so.
LEMMA ResetPartlyStep ==
  ASSUME ResetPartly, ResetSteps
  PROVE  ResetPartly'
<1>1. CASE InitClear
  BY <1>1 DEF InitClear, ResetPartly, ClearedNow, FreshPool, Idle
<1>2. CASE InitNextID
  BY <1>2 DEF InitNextID, ResetPartly, ClearedNow, FreshPool, Idle
<1>3. CASE InitSlots
  BY <1>3 DEF InitSlots, ResetPartly, ClearedNow, FreshPool, Idle
<1> QED BY <1>1, <1>2, <1>3 DEF ResetSteps

LEMMA KeptResetStep ==
  ASSUME AtomicInv, trust = "kept", ResetSteps, rested' = rested
  PROVE  Kept'
<1>1. doing = "reset" /\ halted = 0 /\ UNCHANGED <<bank, held, halted, doing>> /\ Kept
  BY StepPlaces DEF AtomicInv
<1>2. ResetPartly'
  BY <1>1, ResetPartlyStep DEF Kept
<1>3. Discipline'
  BY <1>1 DEF Kept, Discipline
<1> QED BY <1>1, <1>2, <1>3 DEF Kept

\* A pool that ffb_init has gone through is as good as new.
LEMMA FreshReturn ==
  ASSUME FreshNow, held \cup bank.eids = {}, halted = 0
  PROVE  Pool = FreshPool
BY DEF FreshNow, ClearedNow, Pool, FreshPool

\* When the handler returns, the whole step of FfbPool has been done.
LEMMA KeptReturn ==
  ASSUME AtomicInv, trust = "kept", Return, rested' = Pool'
  PROVE  Atomic!Next /\ Sound(rested') /\ Kept'
<1>1. /\ Kept /\ Sound(rested) /\ doing # "none" /\ pc = Idle /\ scan = {} /\ halted = 0 /\ rested.halted = 0
      /\ doing' = "none" /\ UNCHANGED <<estate, pblocks, used, slotsAvail, nextID, halted, held, bank>>
      /\ doing \in {"free", "freeAll", "reset"}
  BY DEF AtomicInv, Kept, Return, Running, poolVars, IsrInv, IsrTypeOK, PlaceInv, Operations
<1>2. /\ rested'.estate = estate /\ rested'.pblocks = pblocks /\ rested'.used = used
      /\ rested'.slotsAvail = slotsAvail /\ rested'.nextID = nextID /\ rested'.halted = 0
      /\ rested'.held = held \cup bank.eids
  BY <1>1, PoolFieldsNext
<1>3. Kept'
  <2>1. Discipline'
    BY <1>1 DEF Kept, Discipline
  <2> QED BY <1>1, <1>2, <2>1 DEF Kept
<1>4. ASSUME FreedPartly, NEW S \in SUBSET Eids, Done = S, \A e \in S : rested.estate[e] # Free,
             held \cup bank.eids \in SUBSET (rested.held \ S)
      PROVE  Atomic!FreeEffects(S) /\ Sound(rested')
  <2>1. StateFreed = {} /\ Rewound = {} /\ BitsCleared = {}
    BY <1>1 DEF StateFreed, Rewound, BitsCleared, Idle
  <2>2. /\ rested'.estate = [e \in Eids |-> IF e \in S THEN Free ELSE rested.estate[e]]
        /\ rested'.nextID = Min(S \cup {rested.nextID})
        /\ rested'.used = rested.used \ ClearedBits(S)
        /\ rested'.slotsAvail = rested.slotsAvail + Cardinality(S)
        /\ rested'.pblocks = rested.pblocks /\ rested'.halted = rested.halted
    BY <1>1, <1>2, <1>4, <2>1 DEF FreedPartly
  <2>3. Atomic!ClearedBits(S) = ClearedBits(S)
    <3>1. pblocks = rested.pblocks
      BY <1>4 DEF FreedPartly
    <3> QED BY <3>1, SameOperators DEF Atomic!ClearedBits, ClearedBits
  <2>4. Atomic!FreeEffects(S)
    BY <2>2, <2>3, SameOperators, SameCardinality DEF Atomic!FreeEffects
  <2>5. Sound(rested')
    BY <1>1, <1>2, <1>4, <2>2, FreedIsSound
  <2> QED BY <2>4, <2>5
<1>5. CASE doing = "free"
  <2>1. FreedPartly /\ target \in rested.held /\ held \cup bank.eids = rested.held \ {target} /\ Done = {target}
    BY <1>1, <1>5 DEF Kept, Done
  <2>2. target \in Eids /\ rested.estate[target] # Free
    BY <1>1, <2>1 DEF Sound
  <2>3. Atomic!FreeEffects({target}) /\ Sound(rested')
    BY <1>4, <2>1, <2>2
  <2>4. Atomic!BlockFree(target)
    BY <1>1, <1>2, <2>1, <2>3 DEF Atomic!BlockFree, Atomic!Running
  <2> QED BY <1>3, <2>2, <2>3, <2>4, SameOperators DEF Atomic!Next
<1>6. CASE doing = "freeAll"
  <2> DEFINE S == {e \in Eids : rested.estate[e] = {"Allocated"}}
  <2>1. FreedPartly /\ held \cup bank.eids = {} /\ Done = S
    BY <1>1, <1>6 DEF Kept, Done
  <2>2. \A e \in S : rested.estate[e] # Free
    BY DEF Free
  <2>3. Atomic!FreeEffects(S) /\ Sound(rested')
    BY <1>4, <2>1, <2>2
  <2>4. Atomic!BlockFreeAll
    BY <1>1, <1>2, <2>1, <2>3, SameOperators DEF Atomic!BlockFreeAll, Atomic!Running
  <2> QED BY <1>3, <2>3, <2>4 DEF Atomic!Next
<1>7. CASE doing = "reset"
  <2>1. FreshNow /\ held \cup bank.eids = {}
    BY <1>1, <1>7 DEF Kept, ResetPartly, FreshNow, Idle
  <2>2. Pool = FreshPool /\ Pool' = Pool
    BY <1>1, <2>1, FreshReturn DEF Pool
  <2>3. Sound(rested')
    BY <2>2, FreshIsSound
  <2>4. Atomic!DeviceReset
    BY <1>1, <1>2, <2>1, SameOperators DEF Atomic!DeviceReset, Atomic!Running, FreshNow, ClearedNow, FreshPool
  <2> QED BY <1>3, <2>3, <2>4 DEF Atomic!Next
<1> QED BY <1>1, <1>5, <1>6, <1>7

-----------------------------------------------------------------------------
(* The host that does not wait, and the reset that makes the pool good. *)

\* What the reports do while the pool is on its way back.
LEMMA RegainingStep ==
  ASSUME AtomicInv, trust = "regaining", OutReports
  PROVE  /\ ~(bank = NoReport /\ doing' = "none") => Regaining'
         /\ bank = NoReport /\ doing' = "none" => Pool' = FreshPool /\ bank' = NoReport /\ held' = {}
<1>1. IsrInv /\ Regaining /\ held = {} /\ halted = 0
  BY DEF AtomicInv, Regaining
<1>2. CASE HostSets \/ HostFrees
  BY <1>1, <1>2 DEF HostSets, HostFrees
<1>3. CASE HostFreesAll \/ HostResets
  <2>1. /\ bank = NoReport /\ bank.op = "none" /\ bank'.eids = {} /\ bank' # NoReport /\ held' = {} /\ halted' = 0
        /\ bank'.op \in {"freeAll", "reset"}
        /\ UNCHANGED <<estate, pblocks, used, slotsAvail, nextID, doing, pc>>
    BY <1>1, <1>3 DEF HostFreesAll, HostResets, Write, NoReport, main, Operations
  <2>2. doing # "none" /\ Regaining'
    BY <1>1, <2>1 DEF Regaining, ResetPartly, FreshNow, ClearedNow, FreshPool
  <2> QED BY <2>1, <2>2
<1>4. CASE TakeSet \/ TakeFree
  BY <1>1, <1>4 DEF Regaining, TakeSet, TakeFree, Take
<1>5. CASE TakeFreeAll
  <2>1. /\ bank # NoReport /\ doing = "none" /\ bank.op = "freeAll" /\ bank' = NoReport /\ doing' = "freeAll"
        /\ UNCHANGED <<estate, pblocks, used, slotsAvail, nextID, held, halted, pc>> /\ pc = Idle
    BY <1>1, <1>5 DEF TakeFreeAll, Take, poolVars, NoReport, IsrInv, PlaceInv
  <2> QED BY <1>1, <2>1 DEF Regaining, FreshNow, ClearedNow, FreshPool, NoReport
<1>6. CASE TakeReset
  <2>1. /\ bank' = NoReport /\ doing' = "reset" /\ pc' = "clear" /\ UNCHANGED <<held, halted>> /\ bank # NoReport
    BY <1>6 DEF TakeReset, Take, poolVars, NoReport
  <2> QED BY <1>1, <2>1 DEF Regaining, ResetPartly, NoReport, Idle
<1>7. CASE FreeSteps
  <2>1. doing \in {"free", "freeAll"} /\ UNCHANGED <<bank, held, halted, doing>>
    BY <1>1, <1>7, StepPlaces
  <2>2. CASE bank.op = "reset"
    BY <1>1, <2>1, <2>2 DEF Regaining, NoReport
  <2>3. CASE bank.op # "reset"
    <3>1. doing = "freeAll" /\ FreshNow /\ pc = Idle
      BY <1>1, <2>1, <2>3 DEF Regaining
    <3>2. ScanOne
      BY <1>7, <3>1 DEF FreeSteps, FreeState, TestNext, RewindNext, LoadSlots, StoreSlots, LoadBlocks,
                        StoreBlocks, At, Idle
    <3>3. Min(scan) \in Eids /\ estate[Min(scan)] = Free
      BY <1>1, <3>1, <3>2, TypeFacts, ScanCounts DEF ScanOne, FreshNow, ClearedNow, FreshPool
    <3>4. pc' = Idle /\ UNCHANGED <<estate, pblocks, used, slotsAvail, nextID>>
      BY <3>1, <3>2, <3>3 DEF ScanOne, poolVars, Free
    <3>5. FreshNow'
      BY <3>1, <3>4 DEF FreshNow, ClearedNow, FreshPool
    <3> QED BY <1>1, <2>1, <2>3, <3>1, <3>4, <3>5 DEF Regaining
  <2> QED BY <2>2, <2>3
<1>8. CASE ResetSteps
  <2>1. doing = "reset" /\ UNCHANGED <<bank, held, halted, doing>>
    BY <1>1, <1>8, StepPlaces
  <2>2. ResetPartly => ResetPartly'
    BY <1>8, ResetPartlyStep
  <2> QED BY <1>1, <2>1, <2>2 DEF Regaining
<1>9. CASE Return
  <2>1. /\ doing # "none" /\ doing' = "none" /\ pc = Idle
        /\ UNCHANGED <<estate, pblocks, used, slotsAvail, nextID, held, halted, bank>>
    BY <1>9 DEF Return, poolVars
  <2>2. CASE bank.op = "reset"
    BY <1>1, <2>1, <2>2 DEF Regaining, NoReport
  <2>3. CASE bank.op # "reset"
    <3>1. FreshNow /\ bank.eids = {}
      BY <1>1, <2>1, <2>3 DEF Regaining, ResetPartly, FreshNow, Idle
    <3>2. Pool' = FreshPool
      <4>1. Pool = FreshPool /\ Pool' = Pool
        BY <1>1, <2>1, <3>1, FreshReturn DEF Pool
      <4> QED BY <4>1
    <3>3. FreshNow'
      BY <2>1, <3>1 DEF FreshNow, ClearedNow, FreshPool
    <3> QED BY <1>1, <2>1, <2>3, <3>1, <3>2, <3>3 DEF Regaining
  <2> QED BY <2>2, <2>3
<1> QED BY <1>2, <1>3, <1>4, <1>5, <1>6, <1>7, <1>8, <1>9 DEF OutReports, FreeSteps, ResetSteps

\* A step of the abstract pool, or none, and the invariant.
Implemented == AtomicInv' /\ [Atomic!Next]_(Atomic!poolVars)

LEMMA NoStep ==
  ASSUME rested' = rested
  PROVE  [Atomic!Next]_(Atomic!poolVars)
BY DEF Atomic!poolVars

\* The reports, while the host waits.
LEMMA KeptReports ==
  ASSUME AtomicInv, trust = "kept", OutReports, IsrInv', trust' = "kept",
         rested' = IF doing' = "none" THEN Pool' ELSE rested
  PROVE  Implemented
<1>1. doing' = "none" \/ doing' # "none"
  OBVIOUS
<1>2. CASE HostSets \/ HostFrees \/ HostFreesAll \/ HostResets
  BY <1>2, KeptWrite, NoStep DEF Implemented, AtomicInv
<1>3. CASE TakeSet
  <2>1. rested' = Pool'
    BY <1>3 DEF TakeSet, Take, main
  <2> QED BY <1>3, <2>1, KeptTakeSet DEF Implemented, AtomicInv
<1>4. CASE TakeFree \/ TakeFreeAll \/ TakeReset
  <2>1. rested' = rested
    BY <1>4 DEF TakeFree, TakeFreeAll, TakeReset
  <2> QED BY <1>4, <2>1, KeptTake, NoStep DEF Implemented, AtomicInv
<1>5. CASE FreeSteps
  <2>1. rested' = rested
    BY <1>5, StepPlaces DEF AtomicInv
  <2> QED BY <1>5, <2>1, KeptFreeStep, NoStep DEF Implemented, AtomicInv
<1>6. CASE ResetSteps
  <2>1. rested' = rested
    BY <1>6, StepPlaces DEF AtomicInv
  <2> QED BY <1>6, <2>1, KeptResetStep, NoStep DEF Implemented, AtomicInv
<1>7. CASE Return
  <2>1. rested' = Pool'
    BY <1>7 DEF Return
  <2> QED BY <1>7, <2>1, KeptReturn DEF Implemented, AtomicInv
<1> QED BY <1>2, <1>3, <1>4, <1>5, <1>6, <1>7 DEF OutReports, FreeSteps, ResetSteps

LEMMA AtomicStep ==
  ASSUME AtomicInv, AtomicNext
  PROVE  Implemented
<1>1. IsrInv'
  BY IsrNextKeepsIsrInv DEF AtomicInv, AtomicNext, IsrNext, HastyCreate
<1>2. /\ trust \in {"kept", "lost", "regaining"} /\ Sound(rested) /\ (trust # "kept" => rested = FreshPool)
      /\ (trust = "kept" => Kept) /\ (trust = "regaining" => Regaining)
  BY DEF AtomicInv
<1>3. CASE AllAtRest /\ Interrupt /\ UNCHANGED trust
  <2>1. doing' = doing /\ doing = "none"
    BY <1>3 DEF AllAtRest, Interrupt, IsrCreate, IsrCreateFails, IsrCreateBeyond, main
  <2>2. CASE trust = "kept"
    <3>1. rested' = Pool'
      BY <1>3, <2>1, <2>2 DEF AtomicNext
    <3> QED BY <1>1, <1>2, <1>3, <2>2, <3>1, AwaitedCreate DEF Implemented, AtomicInv
  <2>3. CASE trust = "lost"
    <3>1. rested' = rested
      BY <1>2, <1>3, <2>3 DEF AtomicNext, FreshPool
    <3> QED BY <1>1, <1>2, <1>3, <2>3, <3>1, NoStep DEF Implemented, AtomicInv, FreshPool
  <2>4. CASE trust = "regaining"
    BY <1>2, <1>3, <2>4 DEF AllAtRest, Regaining, NoReport
  <2> QED BY <1>2, <2>2, <2>3, <2>4
<1>4. CASE HastyCreate
  <2>1. trust' = "lost" /\ rested' = FreshPool /\ halted = 0
    <3>1. trust' = "lost"
      BY <1>4 DEF HastyCreate
    <3>2. halted = 0
      BY <1>4 DEF HastyCreate, Interrupt, IsrCreate, IsrCreateFails, IsrCreateBeyond,
                  CreateEffect, CreateWhenFull, CreateWithoutBlocks, Running
    <3>3. rested' = FreshPool
      BY <3>1 DEF AtomicNext
    <3> QED BY <3>1, <3>2, <3>3
  <2>2. FreshPool' = FreshPool
    BY DEF FreshPool
  <2>3. AtomicInv'
    BY <1>1, <2>1, <2>2, FreshIsSound DEF AtomicInv
  <2>4. CASE trust = "kept"
    <3>1. Atomic!DeviceReset
      BY <1>2, <2>1, <2>4, SameOperators DEF Atomic!DeviceReset, Atomic!Running, FreshPool, Kept
    <3> QED BY <2>3, <3>1 DEF Implemented, Atomic!Next
  <2>5. CASE trust # "kept"
    BY <1>2, <2>1, <2>3, <2>5, NoStep DEF Implemented
  <2> QED BY <2>4, <2>5
<1>5. CASE /\ OutReports
           /\ trust' = CASE trust = "lost" /\ bank.op # "reset" /\ bank'.op = "reset"  -> "regaining"
                         [] trust = "regaining" /\ bank = NoReport /\ doing' = "none" -> "kept"
                         [] OTHER -> trust
  <2>1. FreshPool' = FreshPool
    BY DEF FreshPool
  <2>2. rested' = IF trust' # "kept" THEN FreshPool ELSE IF doing' = "none" THEN Pool' ELSE rested
    BY <2>1 DEF AtomicNext
  <2>3. CASE trust = "kept"
    <3>1. trust' = "kept"
      BY <1>5, <2>3
    <3> QED BY <1>1, <1>5, <2>2, <2>3, <3>1, KeptReports
  <2>4. CASE trust = "lost"
    <3>1. trust' = IF bank.op # "reset" /\ bank'.op = "reset" THEN "regaining" ELSE "lost"
      BY <1>5, <2>4
    <3>2. rested' = rested /\ rested' = FreshPool'
      BY <1>2, <2>1, <2>2, <2>4, <3>1
    <3>3. trust' = "regaining" => Regaining'
      <4>1. SUFFICES ASSUME bank.op # "reset", bank'.op = "reset" PROVE Regaining'
        BY <3>1
      <4>2. HostResets
        BY <1>5, <4>1, StepPlaces
        DEF OutReports, HostSets, HostFrees, HostFreesAll, Write, TakeSet, TakeFree, TakeFreeAll, TakeReset, Take,
            NoReport, Return, FreeSteps, ResetSteps, AtomicInv
      <4> QED BY <4>1, <4>2 DEF HostResets, Write, Running, Regaining
    <3> QED BY <1>1, <1>2, <3>1, <3>2, <3>3, NoStep DEF Implemented, AtomicInv
  <2>5. CASE trust = "regaining"
    <3>1. trust' = IF bank = NoReport /\ doing' = "none" THEN "kept" ELSE "regaining"
      BY <1>5, <2>5
    <3>2. rested' = rested /\ rested' = FreshPool'
      BY <1>2, <1>5, <2>1, <2>2, <2>5, <3>1, RegainingStep
    <3>3. trust' = "regaining" => Regaining'
      BY <1>5, <2>5, <3>1, RegainingStep
    <3>4. trust' = "kept" => Kept'
      <4>1. SUFFICES ASSUME bank = NoReport, doing' = "none" PROVE Kept'
        BY <3>1
      <4>2. Pool' = FreshPool /\ bank' = NoReport /\ held' = {}
        BY <1>5, <2>5, <4>1, RegainingStep
      <4>3. rested' = Pool' /\ rested'.halted = halted' /\ bank'.op = "none"
        BY <2>1, <3>2, <4>2, PoolFieldsNext DEF NoReport
      <4> QED BY <4>1, <4>3 DEF Kept, Discipline
    <3> QED BY <1>1, <1>2, <3>1, <3>2, <3>3, <3>4, NoStep DEF Implemented, AtomicInv
  <2> QED BY <1>2, <2>3, <2>4, <2>5
<1> QED BY <1>3, <1>4, <1>5 DEF AtomicNext

LEMMA AtomicStutter ==
  ASSUME AtomicInv, UNCHANGED <<vars, rested, trust>>
  PROVE  Implemented
<1>1. UNCHANGED <<estate, pblocks, used, slotsAvail, nextID, halted, held, bank, doing, pc, target, scan, register,
                  rested, trust>>
  BY DEF vars, poolVars, main
<1>2. IsrInv'
  BY IsrNextKeepsIsrInv DEF AtomicInv
<1>3. FreedPartly => FreedPartly'
  BY <1>1, FreedPartlyStays
<1>4. (ResetPartly => ResetPartly') /\ (FreshNow => FreshNow') /\ Pool' = Pool /\ FreshPool' = FreshPool
  BY <1>1 DEF ResetPartly, FreshNow, ClearedNow, Pool, FreshPool
<1>5. Kept => Kept'
  BY <1>1, <1>3, <1>4 DEF Kept, Discipline
<1>6. Regaining => Regaining'
  BY <1>1, <1>4 DEF Regaining
<1> QED BY <1>1, <1>2, <1>4, <1>5, <1>6, NoStep DEF Implemented, AtomicInv

LEMMA AtomicInitInv == AtomicInit => AtomicInv /\ Atomic!Init
<1> SUFFICES ASSUME AtomicInit PROVE AtomicInv /\ Atomic!Init
  OBVIOUS
<1>1. IsrInv
  BY InitIsrInv DEF AtomicInit
<1>2. rested = Pool /\ Pool = FreshPool /\ trust = "kept" /\ doing = "none" /\ bank.op = "none" /\ halted = 0
  BY DEF AtomicInit, IsrInit, Init, Pool, FreshPool, NoReport
<1>3. Kept
  BY <1>2, PoolFields DEF Kept, Discipline
<1>4. Atomic!Init
  BY <1>2, SameOperators DEF Atomic!Init, FreshPool
<1> QED BY <1>1, <1>2, <1>3, <1>4, FreshIsSound DEF AtomicInv

-----------------------------------------------------------------------------

\* The invariant of the two contexts, for every size of the pool.
THEOREM IsrInvariant == AtomicSpec => []AtomicInv
<1>1. AtomicInit => AtomicInv
  BY AtomicInitInv
<1>2. AtomicInv /\ [AtomicNext]_<<vars, rested, trust>> => AtomicInv'
  BY AtomicStep, AtomicStutter DEF Implemented
<1> QED BY <1>1, <1>2, PTL DEF AtomicSpec

\* Whichever creates come between whichever instructions, every variable
\* keeps its type, and slotsAvail drifts above the number of slots by no more
\* than the frees that were read while it was below SlotBound.
THEOREM IsrTypes == AtomicSpec => []IsrTypeOK
<1>1. AtomicInv => IsrTypeOK
  BY DEF AtomicInv, IsrInv
<1> QED BY <1>1, IsrInvariant, PTL

\* For a host that awaits the end of each report, freeEffect, freeAllEffects
\* and ffb_init do, instruction by instruction, what FfbPool does in one step;
\* for one that does not, the next reset it awaits makes the pool FfbPool's
\* again.
THEOREM IsrImplementsPool == AtomicSpec => ImplementsPool
<1>1. AtomicInit => Atomic!Init
  BY AtomicInitInv
<1>2. AtomicInv /\ [AtomicNext]_<<vars, rested, trust>> => [Atomic!Next]_(Atomic!poolVars)
  BY AtomicStep, AtomicStutter DEF Implemented
<1> QED BY <1>1, <1>2, IsrInvariant, PTL DEF AtomicSpec, ImplementsPool, Atomic!Spec

=============================================================================
