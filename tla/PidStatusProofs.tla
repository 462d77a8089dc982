-------------------------- MODULE PidStatusProofs --------------------------
(***************************************************************************)
(* The invariants of PidStatus, for every set of effects, every number of  *)
(* reports in a packet and every behaviour of the wheel.                   *)
(***************************************************************************)
EXTENDS PidStatus, NatLemmas, TLAPS

\* What makes NothingPendingMeansTold inductive: previousPidState is what was
\* sent last, or it is still the zeroes of ffb_init, which no report equals.
Reported == pid.id /\ (previous = told \/ previous = Zero)

PidInv == TypeOK /\ Reported /\ PlayBitStaleOnlyByFree

\* ffb_init's state: a report is pending, whatever was told before.
LEMMA InitPidInv == Init => PidInv
<1>1. ASSUME Init PROVE TypeOK
  <2>1. Zero \in Reports /\ pid \in Reports
    BY <1>1 DEF Init, Reports, Zero
  <2>. QED
    BY <1>1, <2>1, PidAssumption DEF Init, TypeOK, StateBits, Places
<1>2. ASSUME Init PROVE Reported /\ PlayBitStaleOnlyByFree
  BY <1>2 DEF Init, Reported, PlayBitStaleOnlyByFree, Zero
<1>. QED
  BY <1>1, <1>2 DEF PidInv

\* PidStateChanged with a well-formed report keeps previousPidState honest.
LEMMA SendReports ==
  ASSUME TypeOK, Reported, NEW p \in Reports, p.id, Send(p), pid' = p
  PROVE  /\ Reported'
         /\ previous' \in Reports /\ told' \in Reports /\ endpoint' \in {"free", "full"}
BY DEF Send, TypeOK, Reported, Zero

\* The pidState that changePidStateOnEffect makes is true, and is sent or
\* left pending.
LEMMA ChangeReports ==
  ASSUME PidInv, NEW e \in Effects, playing' \in SUBSET Effects, ChangeOn(e),
         \A f \in Effects \ {e} : f \in playing => f \in playing'
  PROVE  /\ Reported' /\ PlayBitStaleOnlyByFree'
         /\ pid' \in Reports /\ previous' \in Reports /\ told' \in Reports
         /\ endpoint' \in {"free", "full"} /\ selected' \in {"in", "out"}
         /\ freed' \in SUBSET Effects
<1>1. pid' \in Reports /\ pid'.id /\ pid'.eid = e /\ (pid'.play <=> e \in playing')
  <2>1. (e \in playing') \in BOOLEAN /\ state \in SUBSET StateBits
    BY DEF PidInv, TypeOK
  <2>2. pid' = [id |-> TRUE, status |-> state, eid |-> e, play |-> e \in playing']
    BY DEF ChangeOn, StatusOf
  <2>. QED
    BY <2>1, <2>2, Zenon DEF Reports
<1>2. Reported' /\ previous' \in Reports /\ told' \in Reports /\ endpoint' \in {"free", "full"}
  BY <1>1, SendReports DEF PidInv, ChangeOn
<1>3. PlayBitStaleOnlyByFree'
  BY <1>1 DEF PlayBitStaleOnlyByFree
<1>4. freed' \in SUBSET Effects /\ selected' \in {"in", "out"}
  BY DEF PidInv, TypeOK, ChangeOn
<1>. QED
  BY <1>1, <1>2, <1>3, <1>4

\* startEffect and stopEffect, seen from the report.
LEMMA StartStopReport ==
  ASSUME PidInv, NEW e \in Effects, StartEffect(e) \/ StopEffect(e)
  PROVE  /\ Reported' /\ PlayBitStaleOnlyByFree'
         /\ pid' \in Reports /\ previous' \in Reports /\ told' \in Reports
         /\ endpoint' \in {"free", "full"} /\ selected' \in {"in", "out"}
         /\ freed' \in SUBSET Effects
         /\ playing' \in SUBSET Effects
<1>1. CASE UNCHANGED <<playing, report, freed>>
  BY <1>1 DEF PidInv, TypeOK, Reported, PlayBitStaleOnlyByFree, report
<1>2. CASE playing' = playing \cup {e} /\ ChangeOn(e)
  BY <1>2, ChangeReports DEF PidInv, TypeOK
<1>3. CASE playing' = playing \ {e} /\ ChangeOn(e)
  BY <1>3, ChangeReports DEF PidInv, TypeOK
<1>. QED
  BY <1>1, <1>2, <1>3 DEF StartEffect, StopEffect

\* The next effect of a loop over the effect blocks.
LEMMA NextOfLoop == ASSUME TypeOK, todo # {} PROVE Min(todo) \in Effects
BY MinIsLeast, PidAssumption DEF TypeOK

\* Every step of loop(), of the host and of the bus keeps PidInv.
LEMMA NextPidInv == PidInv /\ [Next]_vars => PidInv'
<1> SUFFICES ASSUME PidInv, [Next]_vars PROVE PidInv'
  OBVIOUS
<1> USE DEF dev, report, loop, Reads, Stopped
<1>1. CASE HidTask \/ UpdateNothing \/ UpdateDone \/ PacketDone \/ FinishOnIn \/ WheelQuiet \/ Poll \/ Connect
  <2>1. TypeOK'
    BY <1>1 DEF PidInv, TypeOK, HidTask, UpdateNothing, UpdateDone, PacketDone, FinishOnIn, WheelQuiet,
                Poll, Connect, Places, StateBits
  <2>2. Reported' /\ PlayBitStaleOnlyByFree'
    BY <1>1 DEF PidInv, Reported, PlayBitStaleOnlyByFree, HidTask, UpdateNothing, UpdateDone,
                PacketDone, FinishOnIn, WheelQuiet, Poll, Connect
  <2>. QED
    BY <2>1, <2>2 DEF PidInv
<1>2. CASE UpdateEnds \/ UpdateDue \/ StopNext
  <2>1. Min(todo) \in Effects /\ (StartEffect(Min(todo)) \/ StopEffect(Min(todo)))
    BY <1>2, NextOfLoop DEF PidInv, UpdateEnds, UpdateDue, StopNext
  <2>. QED
    BY <1>2, <2>1, StartStopReport DEF PidInv, TypeOK, UpdateEnds, UpdateDue, StopNext, Places
<1>3. ASSUME NEW e \in Effects, OpStart(e) \/ OpStop(e) \/ SoloStarts(e)
      PROVE  PidInv'
  <2>1. StartEffect(e) \/ StopEffect(e)
    BY <1>3 DEF OpStart, OpStop, SoloStarts
  <2>2. /\ state' = state /\ wheel' = wheel /\ oldState' = oldState /\ todo' = todo
        /\ place' = "read" /\ (caller' = caller \/ caller' = Nobody)
    BY <1>3 DEF OpStart, OpStop, SoloStarts
  <2>3. left' \in 0 .. MaxReports
    BY <1>3, PidAssumption DEF PidInv, TypeOK, OpStart, OpStop, SoloStarts
  <2>. QED
    BY <2>1, <2>2, <2>3, StartStopReport DEF PidInv, TypeOK, Places
<1>4. CASE SendAgain \/ TaskSends \/ \E new \in WheelStates : DeviceStateChanged(new)
  <2>1. pid' = pid /\ freed' = freed /\ playing' = playing
    BY <1>4 DEF SendAgain, TaskSends, DeviceStateChanged
  <2>2. CASE Send(pid)
    <3>1. Reported' /\ previous' \in Reports /\ told' \in Reports /\ endpoint' \in {"free", "full"}
      BY <2>1, <2>2, SendReports DEF PidInv, TypeOK, Reported
    <3>. QED
      BY <1>4, <2>1, <3>1, PidAssumption DEF PidInv, TypeOK, PlayBitStaleOnlyByFree, SendAgain, TaskSends,
         DeviceStateChanged, Places
  <2>3. CASE UNCHANGED <<previous, endpoint, told>>
    BY <1>4, <2>1, <2>3, PidAssumption DEF PidInv, TypeOK, Reported, PlayBitStaleOnlyByFree, SendAgain,
       TaskSends, DeviceStateChanged, Places
  <2>. QED
    BY <1>4, <2>2, <2>3 DEF SendAgain, TaskSends, DeviceStateChanged
<1>5. ASSUME NEW e \in Effects, BlockFree(e)
      PROVE  PidInv'
  BY <1>5, PidAssumption DEF PidInv, TypeOK, Reported, PlayBitStaleOnlyByFree, BlockFree
<1>6. CASE Control1 \/ Continue \/ (\E c \in StopCallers : CallStopAll(c)) \/ Pause
  <2>1. /\ pid' = pid /\ previous' = previous /\ told' = told /\ endpoint' = endpoint /\ selected' = selected
        /\ playing' = playing /\ freed' = freed /\ wheel' = wheel /\ oldState' = oldState
    BY <1>6 DEF Control1, Continue, CallStopAll, Pause
  <2>2. state' \in SUBSET StateBits
    BY <1>6 DEF PidInv, TypeOK, Control1, Continue, CallStopAll, Pause, StateBits
  <2>3. /\ todo' \in SUBSET Effects /\ place' \in Places
        /\ caller' \in StopCallers \cup {Nobody}
    BY <1>6 DEF PidInv, TypeOK, Control1, Continue, CallStopAll, Pause, Places
  <2>4. left' \in 0 .. MaxReports
    BY <1>6, PidAssumption DEF PidInv, TypeOK, Control1, Continue, CallStopAll, Pause
  <2>. QED
    BY <2>1, <2>2, <2>3, <2>4 DEF PidInv, TypeOK, Reported, PlayBitStaleOnlyByFree
<1>7. CASE Control2 \/ AllStopped
  <2>1. /\ pid' \in Reports /\ pid'.id = pid.id /\ pid'.play = pid.play /\ pid'.eid = pid.eid
        /\ previous' = previous /\ told' = told /\ endpoint' = endpoint /\ selected' = selected
        /\ playing' = playing /\ freed' = freed
    BY <1>7 DEF PidInv, TypeOK, Reports, StateBits, Control2, AllStopped
  <2>2. Reported' /\ PlayBitStaleOnlyByFree'
    BY <2>1 DEF PidInv, Reported, PlayBitStaleOnlyByFree
  <2>3. TypeOK'
    BY <1>7, <2>1, PidAssumption DEF PidInv, TypeOK, Control2, AllStopped, Places
  <2>. QED
    BY <2>2, <2>3 DEF PidInv
<1>8. CASE Reset
  <2>1. pid' \in Reports /\ pid'.id /\ ~pid'.play /\ previous' = Zero /\ Zero \in Reports
    BY <1>8 DEF Reset, DeviceInit, Reports, Zero
  <2>2. Reported' /\ PlayBitStaleOnlyByFree'
    BY <2>1 DEF Reported, PlayBitStaleOnlyByFree
  <2>3. TypeOK'
    BY <1>8, <2>1 DEF PidInv, TypeOK, Reset, DeviceInit, Places, StateBits, WheelBits
  <2>. QED
    BY <2>2, <2>3 DEF PidInv
<1>9. CASE UNCHANGED vars
  BY <1>9 DEF PidInv, TypeOK, Reported, PlayBitStaleOnlyByFree, vars
<1>. QED
  BY <1>1, <1>2, <1>3, <1>4, <1>5, <1>6, <1>7, <1>8, <1>9 DEF Next, Step

\* PidInv holds of every state of the firmware.
THEOREM PidInvariant == Spec => []PidInv
BY InitPidInv, NextPidInv, PTL DEF Spec

\* A host that finds no report pending has been told the present one, and a
\* play bit that is no longer true is the doing of Block Free.
THEOREM PidSafety == Spec => [](TypeOK /\ NothingPendingMeansTold /\ PlayBitStaleOnlyByFree)
<1>1. PidInv => TypeOK /\ NothingPendingMeansTold /\ PlayBitStaleOnlyByFree
  BY DEF PidInv, Reported, NothingPendingMeansTold, Zero
<1>. QED
  BY <1>1, PidInvariant, PTL

=============================================================================
