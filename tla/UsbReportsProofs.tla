-------------------------- MODULE UsbReportsProofs --------------------------
(***************************************************************************)
(* Proofs about UsbReports, for any number of reports of any kinds, any    *)
(* size of packet and any way of cutting the reports into packets: the     *)
(* parser stays in step with the host, and the answer to a create is about *)
(* the host's last one.                                                    *)
(***************************************************************************)
EXTENDS UsbReports, NatLemmas, SequenceTheorems

\* With SUPPORT_CUSTOM_FORCE the descriptor gives Custom Force Data one byte
\* more than ffb.h: a host that sends it puts the parser out of step.  The
\* shipped firmware is built without.
NoCustomForceData == "CustomForceData" \notin Kinds

\* Where the parser is in the stream, as long as nothing has broken it: at the
\* first report not dealt with, or inside it.
InStep ==
  ~disturbed =>
    /\ place # "rest" /\ halted # Overrun => at = Begin(done + 1)
    /\ place = "rest" =>
         /\ done < Len(sent) /\ kind = sent[done + 1]
         /\ start = Begin(done + 1) /\ at + need = Begin(done + 2)

\* total_read counts one report, which fits into buf.
Fits ==
  /\ place = "idle" => total = 0
  /\ place = "loop" => total < BufSize
  /\ place = "rest" => /\ total = 1 /\ need <= WaitFor[kind]
                       /\ kind = DriverPair \/ WaitFor[kind] + 1 < BufSize

\* While the host may rely on the answer to its last create, no reset is on
\* its way that could wipe it.
Answered ==
  outcome # None /\ ~disturbed =>
    /\ \A i \in done + 1 .. Len(sent) : sent[i] # "DeviceControl"
    /\ blockLoad.status = outcome.status
    /\ outcome.status = "success" => blockLoad.eid = outcome.eid

UsbInv == TypeOK /\ InStep /\ Fits /\ Answered

-----------------------------------------------------------------------------
(* The reports and their lengths. *)

IsLayout(layout, n) == DOMAIN layout = 1 .. n /\ \A i \in 1 .. n : layout[i][2] \in Nat

LEMMA BytesOfLayout ==
  ASSUME NEW layout, NEW n \in Nat, IsLayout(layout, n)
  PROVE  Bytes(layout) \in Nat \ {0}
<1> DEFINE widths == [i \in DOMAIN layout |-> layout[i][2]]
<1>1. widths \in Seq(Nat)
  BY DEF IsLayout
<1>2. SumOf(widths) \in Nat
  BY <1>1, SumsOfNat
<1> HIDE DEF widths
<1>3. 1 + (SumOf(widths) \div 8) \in Nat \ {0}
  BY <1>2
<1> QED BY <1>3 DEF Bytes, widths

\* The structures of ffb.h have the layout the descriptor tells the host.
LEMMA SameLayouts == LayoutsAgree
<1>1. /\ DescribedWheelReport = StoredWheelReport
      /\ DescribedSetEffect = StoredSetEffect
      /\ DescribedSetEnvelope = StoredSetEnvelope
      /\ DescribedSetCondition = StoredSetCondition
      /\ DescribedSetPeriodic = StoredSetPeriodic
      /\ DescribedSetConstantForce = StoredSetConstantForce
      /\ DescribedSetRampForce = StoredSetRampForce
      /\ DescribedEffectOperation = StoredEffectOperation
      /\ DescribedBlockFree = StoredBlockFree
      /\ DescribedDeviceControl = StoredDeviceControl
      /\ DescribedDeviceGain = StoredDeviceGain
      /\ DescribedDownloadForceSample = StoredDownloadForceSample
      /\ DescribedSetCustomForce = StoredSetCustomForce
      /\ DescribedCreateEffect = StoredCreateEffect
      /\ DescribedBlockLoad = StoredBlockLoad
      /\ DescribedPidPool = StoredPidPool
  BY DEF Eid, Pad,
         DescribedWheelReport, StoredWheelReport, DescribedSetEffect, StoredSetEffect,
         DescribedSetEnvelope, StoredSetEnvelope,
         DescribedSetCondition, StoredSetCondition,
         DescribedSetPeriodic, StoredSetPeriodic,
         DescribedSetConstantForce, StoredSetConstantForce,
         DescribedSetRampForce, StoredSetRampForce,
         DescribedEffectOperation, StoredEffectOperation,
         DescribedBlockFree, StoredBlockFree, DescribedDeviceControl, StoredDeviceControl,
         DescribedDeviceGain, StoredDeviceGain,
         DescribedDownloadForceSample, StoredDownloadForceSample,
         DescribedSetCustomForce, StoredSetCustomForce,
         DescribedCreateEffect, StoredCreateEffect, DescribedBlockLoad, StoredBlockLoad,
         DescribedPidPool, StoredPidPool
<1>2. DOMAIN Described \ {"PidState", "CustomForceData"} =
      {"WheelReport", "SetEffect", "SetEnvelope", "SetCondition", "SetPeriodic",
       "SetConstantForce", "SetRampForce", "EffectOperation", "BlockFree", "DeviceControl",
       "DeviceGain", "DownloadForceSample", "SetCustomForce", "CreateEffect", "BlockLoad",
       "PidPool"}
  BY DEF Described
<1>3. ASSUME NEW r \in DOMAIN Described \ {"PidState", "CustomForceData"}
      PROVE  Described[r] = Stored[r]
  BY <1>1, <1>2 DEF Described, Stored
<1> QED BY <1>3 DEF LayoutsAgree

LEMMA DescribedLayouts ==
  ASSUME NEW k \in ToSet(OutReports)
  PROVE  k \in DOMAIN Described /\ k # "PidState" /\ \E n \in Nat : IsLayout(Described[k], n)
<1>1. k \in {"SetEffect", "SetEnvelope", "SetCondition", "SetPeriodic", "SetConstantForce",
            "SetRampForce", "EffectOperation", "BlockFree", "DeviceControl", "DeviceGain",
            "CustomForceData", "DownloadForceSample", "SetCustomForce"}
  BY DEF ToSet, OutReports
<1>2. /\ IsLayout(DescribedSetEffect, 13)
      /\ IsLayout(DescribedSetEnvelope, 5)
      /\ IsLayout(DescribedSetCondition, 9)
      /\ IsLayout(DescribedSetPeriodic, 5)
      /\ IsLayout(DescribedSetConstantForce, 2)
      /\ IsLayout(DescribedSetRampForce, 3)
      /\ IsLayout(DescribedEffectOperation, 3)
      /\ IsLayout(DescribedBlockFree, 1)
      /\ IsLayout(DescribedDeviceControl, 1)
      /\ IsLayout(DescribedDeviceGain, 1)
      /\ IsLayout(DescribedCustomForceData, 3)
      /\ IsLayout(DescribedDownloadForceSample, 2)
      /\ IsLayout(DescribedSetCustomForce, 3)
  <2>1. IsLayout(DescribedSetEffect, 13)
    BY DEF IsLayout, DescribedSetEffect, Eid, Pad
  <2>2. IsLayout(DescribedSetEnvelope, 5)
    BY DEF IsLayout, DescribedSetEnvelope, Eid, Pad
  <2>3. IsLayout(DescribedSetCondition, 9)
    BY DEF IsLayout, DescribedSetCondition, Eid, Pad
  <2>4. IsLayout(DescribedSetPeriodic, 5)
    BY DEF IsLayout, DescribedSetPeriodic, Eid, Pad
  <2>5. IsLayout(DescribedSetConstantForce, 2)
    BY DEF IsLayout, DescribedSetConstantForce, Eid, Pad
  <2>6. IsLayout(DescribedSetRampForce, 3)
    BY DEF IsLayout, DescribedSetRampForce, Eid, Pad
  <2>7. IsLayout(DescribedEffectOperation, 3)
    BY DEF IsLayout, DescribedEffectOperation, Eid, Pad
  <2>8. IsLayout(DescribedBlockFree, 1)
    BY DEF IsLayout, DescribedBlockFree, Eid, Pad
  <2>9. IsLayout(DescribedDeviceControl, 1)
    BY DEF IsLayout, DescribedDeviceControl, Eid, Pad
  <2>10. IsLayout(DescribedDeviceGain, 1)
    BY DEF IsLayout, DescribedDeviceGain, Eid, Pad
  <2>11. IsLayout(DescribedCustomForceData, 3)
    BY DEF IsLayout, DescribedCustomForceData, Eid, Pad
  <2>12. IsLayout(DescribedDownloadForceSample, 2)
    BY DEF IsLayout, DescribedDownloadForceSample, Eid, Pad
  <2>13. IsLayout(DescribedSetCustomForce, 3)
    BY DEF IsLayout, DescribedSetCustomForce, Eid, Pad
  <2> QED BY <2>1, <2>2, <2>3, <2>4, <2>5, <2>6, <2>7, <2>8, <2>9, <2>10, <2>11, <2>12, <2>13
<1>3. \A n \in {1, 2, 3, 5, 9, 13} : n \in Nat
  OBVIOUS
<1> QED BY <1>1, <1>2, <1>3 DEF Described

LEMMA KindLengths ==
  ASSUME NoCustomForceData, NEW k \in AllKinds
  PROVE  /\ SentBytes[k] \in Nat \ {0}
         /\ WaitFor[k] \in Nat /\ WaitFor[k] + 1 = SentBytes[k]
<1>1. CASE k = DriverPair
  BY <1>1 DEF SentBytes, WaitFor
<1>2. CASE k # DriverPair
  <2>1. k \in ToSet(OutReports) /\ k # "CustomForceData"
    BY <1>2, UsbAssumption DEF AllKinds, NoCustomForceData
  <2>2. Stored[k] = Described[k]
    BY <2>1, DescribedLayouts, SameLayouts DEF LayoutsAgree
  <2>3. Bytes(Described[k]) \in Nat \ {0}
    BY <2>1, DescribedLayouts, BytesOfLayout
  <2> QED BY <1>2, <2>2, <2>3 DEF SentBytes, WaitFor
<1> QED BY <1>1, <1>2

\* Reports begin one behind the other.
LEMMA Begins ==
  ASSUME NoCustomForceData, sent \in Seq(Kinds)
  PROVE  /\ Len(sent) \in Nat /\ Begin(1) = 0
         /\ \A i \in 1 .. Len(sent) + 1 : Begin(i) \in Nat
         /\ \A i \in 1 .. Len(sent) : Begin(i + 1) = Begin(i) + SentBytes[sent[i]]
         /\ \A i, j \in 1 .. Len(sent) + 1 : i < j => Begin(i) < Begin(j)
<1> DEFINE s == [j \in DOMAIN sent |-> SentBytes[sent[j]]]
<1>1. Len(sent) \in Nat /\ \A i \in 1 .. Len(sent) : sent[i] \in AllKinds
  BY DEF AllKinds
<1>2. s \in Seq(Nat \ {0}) /\ s \in Seq(Nat) /\ s \in Seq(Int) /\ Len(s) = Len(sent)
      /\ \A i \in 1 .. Len(sent) : s[i] = SentBytes[sent[i]]
  BY <1>1, KindLengths
<1> HIDE DEF s
<1>3. \A i : Begin(i) = SumsOf(s)[i - 1]
  BY DEF Begin, s
<1>4. Begin(1) = 0
  BY <1>2, <1>3, SumsAdd
<1>5. ASSUME NEW i \in 1 .. Len(sent) + 1 PROVE Begin(i) \in Nat
  <2>1. i - 1 \in 0 .. Len(s)
    BY <1>1, <1>2
  <2> QED BY <1>2, <1>3, <2>1, SumsOfNat
<1>6. ASSUME NEW i \in 1 .. Len(sent) PROVE Begin(i + 1) = Begin(i) + SentBytes[sent[i]]
  <2>1. SumsOf(s)[i] = SumsOf(s)[i - 1] + s[i]
    BY <1>2, SumsAdd
  <2>2. (i + 1) - 1 = i
    OBVIOUS
  <2> QED BY <1>2, <1>3, <2>1, <2>2
<1>7. ASSUME NEW i \in 1 .. Len(sent) + 1, NEW j \in 1 .. Len(sent) + 1, i < j
      PROVE  Begin(i) < Begin(j)
  <2>1. i - 1 \in 0 .. Len(s) /\ j - 1 \in 0 .. Len(s) /\ i - 1 < j - 1
    BY <1>1, <1>2, <1>7
  <2> QED BY <1>2, <1>3, <2>1, SumsGrow
<1> QED BY <1>1, <1>4, <1>5, <1>6, <1>7

\* One more report leaves the others where they are.
LEMMA BeginsStay ==
  ASSUME NoCustomForceData, sent \in Seq(Kinds), NEW k \in Kinds, sent' = Append(sent, k)
  PROVE  /\ sent' \in Seq(Kinds) /\ Len(sent') = Len(sent) + 1
         /\ Length <= Length' /\ Length' \in Nat
         /\ \A i \in 1 .. Len(sent) : sent'[i] = sent[i]
         /\ sent'[Len(sent) + 1] = k
         /\ \A i \in 1 .. Len(sent) + 1 : Begin(i)' = Begin(i)
<1> DEFINE s == [j \in DOMAIN sent |-> SentBytes[sent[j]]]
           t == [j \in DOMAIN sent' |-> SentBytes[sent'[j]]]
<1>1. /\ sent' \in Seq(Kinds) /\ Len(sent) \in Nat /\ Len(sent') = Len(sent) + 1
      /\ \A i \in 1 .. Len(sent) : sent'[i] = sent[i]
      /\ sent'[Len(sent) + 1] = k
  BY AppendProperties
<1>2. \A i \in 1 .. Len(sent) + 1 : sent'[i] \in AllKinds /\ (i <= Len(sent) => sent[i] \in AllKinds)
  BY <1>1 DEF AllKinds
<1>3. s \in Seq(Int) /\ Len(s) = Len(sent) /\ \A i \in 1 .. Len(sent) : s[i] = SentBytes[sent[i]]
  BY <1>1, <1>2, KindLengths
<1>4. t \in Seq(Int) /\ Len(t) = Len(sent) + 1 /\ \A i \in 1 .. Len(sent) + 1 : t[i] = SentBytes[sent'[i]]
  BY <1>1, <1>2, KindLengths
<1> HIDE DEF s, t
<1>5. (\A i : Begin(i) = SumsOf(s)[i - 1]) /\ (\A i : Begin(i)' = SumsOf(t)[i - 1])
  BY DEF Begin, s, t
<1>6. \A n \in 0 .. Len(s) : SumsOf(t)[n] = SumsOf(s)[n]
  <2>1. Len(s) <= Len(t) /\ \A i \in 1 .. Len(s) : t[i] = s[i]
    BY <1>1, <1>3, <1>4
  <2> QED BY <1>3, <1>4, <2>1, SumsOfPrefix
<1>7. ASSUME NEW i \in 1 .. Len(sent) + 1 PROVE Begin(i)' = Begin(i)
  <2>1. i - 1 \in 0 .. Len(s)
    BY <1>1, <1>3
  <2> QED BY <1>5, <1>6, <2>1
<1>8. Length <= Length' /\ Length' \in Nat
  <2>1. Len(sent) + 1 \in 1 .. Len(sent) + 1
    BY <1>1
  <2>2. Length = Begin(Len(sent) + 1) /\ Length' = SumsOf(t)[Len(t)] /\ Length \in Nat
    BY <1>1, <1>4, <1>5, <2>1, Begins DEF Length
  <2>3. SumsOf(t)[Len(t)] = SumsOf(t)[Len(t) - 1] + t[Len(t)] /\ t[Len(t)] \in Nat
    BY <1>1, <1>2, <1>4, SumsAdd, KindLengths
  <2>4. SumsOf(t)[Len(t) - 1] = Length
    BY <1>1, <1>3, <1>4, <1>5, <1>6, <2>2
  <2> QED BY <2>2, <2>3, <2>4
<1> QED BY <1>1, <1>7, <1>8

LEMMA SameStream ==
  ASSUME sent' = sent
  PROVE  (\A i : Begin(i)' = Begin(i)) /\ Length' = Length
BY DEF Begin, Length

LEMMA FreshStream ==
  ASSUME sent' = <<>>
  PROVE  Begin(1)' = 0 /\ Length' = 0 /\ Len(sent') = 0 /\ sent' \in Seq(Kinds)
<1> DEFINE t == [j \in DOMAIN sent' |-> SentBytes[sent'[j]]]
<1>1. Len(sent') = 0 /\ sent' \in Seq(Kinds)
  OBVIOUS
<1>2. t \in Seq(Int) /\ Len(t) = 0
  OBVIOUS
<1> HIDE DEF t
<1>3. SumsOf(t)[0] = 0
  BY <1>2, SumsAdd
<1>4. \A i : Begin(i)' = SumsOf(t)[i - 1]
  BY DEF Begin, t
<1> QED BY <1>1, <1>3, <1>4 DEF Length

-----------------------------------------------------------------------------
(* Every step keeps the parser in step. *)

\* The facts about the stream that the steps use.
LEMMA Stream ==
  ASSUME NoCustomForceData, TypeOK
  PROVE  /\ Len(sent) \in Nat /\ Length = Begin(Len(sent) + 1) /\ Length \in Nat
         /\ written \in Nat /\ at \in Nat /\ at <= written /\ written <= Length
         /\ done \in Nat /\ done <= Len(sent)
         /\ \A i \in 1 .. Len(sent) + 1 : Begin(i) \in Nat /\ Begin(i) <= Length
         /\ \A i \in 1 .. Len(sent) : Begin(i + 1) = Begin(i) + SentBytes[sent[i]]
         /\ \A i, j \in 1 .. Len(sent) + 1 : i < j => Begin(i) < Begin(j)
<1>1. sent \in Seq(Kinds) /\ Length = Begin(Len(sent) + 1)
  BY DEF TypeOK, Length
<1>2. /\ Len(sent) \in Nat /\ \A i \in 1 .. Len(sent) + 1 : Begin(i) \in Nat
      /\ \A i \in 1 .. Len(sent) : Begin(i + 1) = Begin(i) + SentBytes[sent[i]]
      /\ \A i, j \in 1 .. Len(sent) + 1 : i < j => Begin(i) < Begin(j)
  BY <1>1, Begins
<1>3. Len(sent) + 1 \in 1 .. Len(sent) + 1 /\ Length \in Nat
  BY <1>1, <1>2
<1>4. ASSUME NEW i \in 1 .. Len(sent) + 1 PROVE Begin(i) <= Length
  BY <1>1, <1>2, <1>3
<1>5. /\ written \in Nat /\ at \in Nat /\ at <= written /\ written <= Length
      /\ done \in Nat /\ done <= Len(sent)
  BY <1>2, <1>3 DEF TypeOK
<1> QED BY <1>1, <1>2, <1>3, <1>4, <1>5

LEMMA UsbInit ==
  ASSUME Init
  PROVE  UsbInv
<1>1. Length = 0 /\ Begin(1) = 0 /\ sent \in Seq(Kinds) /\ Len(sent) = 0
  <2> DEFINE t == [j \in DOMAIN sent |-> SentBytes[sent[j]]]
  <2>1. sent \in Seq(Kinds) /\ Len(sent) = 0 /\ t \in Seq(Int) /\ Len(t) = 0
    BY DEF Init
  <2>2. \A i : Begin(i) = SumsOf(t)[i - 1]
    BY DEF Begin
  <2> HIDE DEF t
  <2>3. SumsOf(t)[0] = 0
    BY <2>1, SumsAdd
  <2> QED BY <2>1, <2>2, <2>3 DEF Length
<1>2. TypeOK
  <2>1. None \in Loads
    BY DEF None, Loads
  <2>2. MaxReports \in Nat /\ BufSize \in Nat /\ DriverPair \in AllKinds
    BY UsbAssumption DEF AllKinds
  <2>3. /\ usb \in {"off", "default", "configured"} /\ selected \in {"in", "out"}
        /\ configOnce \in BOOLEAN /\ connected \in BOOLEAN /\ full \in BOOLEAN
        /\ disturbed \in BOOLEAN /\ place \in {"idle", "loop", "rest"}
    BY DEF Init
  <2>4. /\ written \in 0 .. Length /\ at \in 0 .. written /\ done \in 0 .. Len(sent)
        /\ start \in Nat /\ need \in 0 .. BufSize /\ total \in 0 .. BufSize
        /\ Len(sent) <= MaxReports
    BY <1>1, <2>2 DEF Init
  <2>5. blockLoad \in Loads /\ outcome \in Loads /\ kind \in AllKinds
        /\ halted \in {0, Overrun, PoolFull}
    BY <2>1, <2>2 DEF Init
  <2> QED BY <1>1, <2>3, <2>4, <2>5 DEF TypeOK
<1>3. InStep /\ Fits /\ Answered
  BY <1>1 DEF Init, InStep, Fits, Answered, None
<1> QED BY <1>2, <1>3 DEF UsbInv

\* The bus: a configuration or a reset begins the stream afresh.
LEMMA BusSteps ==
  ASSUME NoCustomForceData, UsbInv, Bus
  PROVE  UsbInv'
<1>1. CASE Attach \/ WheelFound
  <2>1. UNCHANGED <<sent, endpoint, parser, control, halted, done, disturbed>>
    BY <1>1 DEF Attach, WheelFound
  <2>2. (\A i : Begin(i)' = Begin(i)) /\ Length' = Length
    BY <2>1, SameStream
  <2>3. /\ usb' \in {"off", "default", "configured"}
        /\ configOnce' \in BOOLEAN /\ connected' \in BOOLEAN
    BY <1>1 DEF Attach, WheelFound, UsbInv, TypeOK
  <2>4. TypeOK'
    BY <2>1, <2>2, <2>3 DEF UsbInv, TypeOK, endpoint, parser, control
  <2>5. InStep' /\ Fits' /\ Answered'
    BY <2>1, <2>2 DEF UsbInv, InStep, Fits, Answered, endpoint, parser, control
  <2> QED BY <2>4, <2>5 DEF UsbInv
<1>2. CASE SetConfiguration \/ LeaveBus
  <2>1. StreamBegins /\ UNCHANGED <<configOnce, connected, selected, place, kind, need, total,
                                    blockLoad, halted>>
    BY <1>2 DEF SetConfiguration, LeaveBus
  <2>2. Begin(1)' = 0 /\ Length' = 0 /\ Len(sent') = 0 /\ sent' \in Seq(Kinds)
    BY <2>1, FreshStream DEF StreamBegins
  <2>3. usb' \in {"off", "default", "configured"}
    BY <1>2 DEF SetConfiguration, LeaveBus
  <2>4. disturbed' \in BOOLEAN /\ (~disturbed' => place = "idle")
    BY <2>1, Zenon DEF StreamBegins
  <2>5. TypeOK'
    <3>1. None \in Loads /\ MaxReports \in Nat
      BY UsbAssumption DEF None, Loads
    <3>2. /\ written' = 0 /\ at' = 0 /\ done' = 0 /\ start' = 0 /\ full' = FALSE /\ outcome' = None
      BY <2>1 DEF StreamBegins
    <3>3. /\ written' \in 0 .. Length' /\ at' \in 0 .. written' /\ done' \in 0 .. Len(sent')
          /\ start' \in Nat /\ Len(sent') <= MaxReports
      BY <2>2, <3>1, <3>2
    <3>4. full' \in BOOLEAN /\ outcome' \in Loads
      BY <3>1, <3>2
    <3> QED BY <2>1, <2>2, <2>3, <2>4, <3>3, <3>4 DEF UsbInv, TypeOK
  <2>6. InStep'
    BY <2>1, <2>2, <2>4 DEF InStep, StreamBegins
  <2>7. Fits' /\ Answered'
    BY <2>1 DEF UsbInv, Fits, Answered, StreamBegins
  <2> QED BY <2>5, <2>6, <2>7 DEF UsbInv
<1> QED BY <1>1, <1>2 DEF Bus

\* The host: what it adds lies behind what the parser is at.
LEMMA HostSteps ==
  ASSUME NoCustomForceData, UsbInv, Host
  PROVE  UsbInv'
<1>1. ASSUME NEW k \in Kinds, HostSubmits(k) PROVE UsbInv'
  <2>1. /\ sent \in Seq(Kinds) /\ sent' = Append(sent, k) /\ Len(sent) < MaxReports
        /\ outcome' = IF k = "DeviceControl" THEN None ELSE outcome
        /\ UNCHANGED <<device, endpoint, parser, blockLoad, halted, done, disturbed>>
    BY <1>1 DEF HostSubmits, UsbInv, TypeOK
  <2>2. /\ sent' \in Seq(Kinds) /\ Len(sent') = Len(sent) + 1
        /\ Length <= Length' /\ Length' \in Nat
        /\ \A i \in 1 .. Len(sent) : sent'[i] = sent[i]
        /\ sent'[Len(sent) + 1] = k
        /\ \A i \in 1 .. Len(sent) + 1 : Begin(i)' = Begin(i)
    BY <2>1, BeginsStay
  <2>3. TypeOK'
    BY <2>1, <2>2, Stream, UsbAssumption
    DEF UsbInv, TypeOK, device, endpoint, parser, Loads, None
  <2>4. InStep'
    BY <2>1, <2>2, Stream DEF UsbInv, InStep, endpoint, parser
  <2>5. Fits'
    BY <2>1 DEF UsbInv, Fits, parser
  <2>6. Answered'
    BY <2>1, <2>2, Stream DEF UsbInv, Answered
  <2> QED BY <2>3, <2>4, <2>5, <2>6 DEF UsbInv
<1>2. CASE HostPacket
  <2>1. UNCHANGED <<device, sent, selected, parser, control, halted, done, disturbed>>
    BY <1>2 DEF HostPacket
  <2>2. (\A i : Begin(i)' = Begin(i)) /\ Length' = Length
    BY <2>1, SameStream
  <2>3. written' \in Nat /\ written <= written' /\ written' <= Length /\ full' \in BOOLEAN
    BY <1>2, Stream, UsbAssumption DEF HostPacket, Boundaries, UsbInv
  <2>4. TypeOK'
    BY <2>1, <2>2, <2>3, Stream DEF UsbInv, TypeOK, device, parser, control, Loads
  <2>5. InStep' /\ Fits' /\ Answered'
    BY <2>1, <2>2 DEF UsbInv, InStep, Fits, Answered, parser, control
  <2> QED BY <2>4, <2>5 DEF UsbInv
<1> QED BY <1>1, <1>2 DEF Host

\* ffb_Task reads the id of a report: inside the stream it is that of the first
\* report not dealt with.
LEMMA ReadIdStep ==
  ASSUME NoCustomForceData, UsbInv, ReadId
  PROVE  UsbInv'
<1>1. /\ halted = 0 /\ place = "loop" /\ at < written
      /\ start' = at /\ at' = at + 1 /\ total' = 1 /\ kind' \in ReadsAs
      /\ UNCHANGED <<device, sent, endpoint, control, done, disturbed>>
  BY Stream DEF ReadId, InTask, Running, Unread, TotalRead, UsbInv
<1>2. (\A i : Begin(i)' = Begin(i)) /\ Length' = Length
  BY <1>1, SameStream
<1>3. kind' \in AllKinds
  <2>1. \A i \in 1 .. Len(sent) : sent[i] \in Kinds
    BY DEF UsbInv, TypeOK
  <2> QED BY <1>1, <2>1 DEF ReadsAs, AllKinds
<1>4. /\ WaitFor[kind'] \in Nat /\ WaitFor[kind'] + 1 = SentBytes[kind']
      /\ kind' = DriverPair => WaitFor[kind'] = 1
  BY <1>3, KindLengths DEF WaitFor
<1>5. ~disturbed => /\ done < Len(sent) /\ kind' = sent[done + 1]
                    /\ at = Begin(done + 1)
                    /\ at + 1 + WaitFor[kind'] = Begin(done + 2)
  <2> SUFFICES ASSUME ~disturbed PROVE
        /\ done < Len(sent) /\ kind' = sent[done + 1]
        /\ at = Begin(done + 1)
        /\ at + 1 + WaitFor[kind'] = Begin(done + 2)
    OBVIOUS
  <2>1. at = Begin(done + 1)
    BY <1>1 DEF UsbInv, InStep, Overrun
  <2>2. done < Len(sent)
    BY <1>1, <2>1, Stream DEF UsbInv
  <2>3. at \in Boundaries
    BY <2>1, Stream DEF Boundaries, UsbInv
  <2>4. PICK i \in 1 .. Len(sent) : Begin(i) = at /\ kind' = sent[i]
    BY <1>1, <2>3 DEF ReadsAs
  <2>5. i = done + 1
    BY <2>1, <2>2, <2>4, Stream DEF UsbInv
  <2>6. Begin(i + 1) = Begin(i) + SentBytes[sent[i]] /\ i + 1 = done + 2
    BY <2>5, Stream DEF UsbInv
  <2>7. Begin(done + 2) = at + (WaitFor[kind'] + 1)
    BY <1>4, <2>4, <2>6
  <2>8. at \in Nat /\ WaitFor[kind'] \in Nat
    BY <1>4, Stream DEF UsbInv
  <2>9. at + (WaitFor[kind'] + 1) = at + 1 + WaitFor[kind']
    BY <2>8
  <2> QED BY <2>1, <2>2, <2>4, <2>5, <2>7, <2>9
<1>6. /\ usb' = usb /\ configOnce' = configOnce /\ connected' = connected
      /\ sent' = sent /\ written' = written /\ full' = full /\ selected' = selected
      /\ blockLoad' = blockLoad /\ outcome' = outcome /\ done' = done /\ disturbed' = disturbed
  BY <1>1 DEF device, endpoint, control
<1>7. at' \in 0 .. written' /\ start' \in Nat /\ total' \in 0 .. BufSize
  BY <1>1, <1>6, Stream, UsbAssumption DEF UsbInv
<1>8. Answered'
  BY <1>6 DEF UsbInv, Answered
<1>9. CASE halted' = Overrun /\ UNCHANGED <<place, need>>
  <2>1. TypeOK'
    BY <1>2, <1>3, <1>6, <1>7, <1>9 DEF UsbInv, TypeOK
  <2>2. InStep' /\ Fits'
    BY <1>1, <1>9, UsbAssumption DEF InStep, Fits
  <2> QED BY <1>8, <2>1, <2>2 DEF UsbInv
<1>10. CASE /\ ~(kind' # DriverPair /\ WaitFor[kind'] + total' >= BufSize)
            /\ place' = "rest" /\ need' = WaitFor[kind'] /\ UNCHANGED halted
  <2>1. need' \in 0 .. BufSize
    BY <1>1, <1>4, <1>10, UsbAssumption
  <2>2. TypeOK'
    BY <1>2, <1>3, <1>6, <1>7, <1>10, <2>1 DEF UsbInv, TypeOK
  <2>3. InStep'
    BY <1>1, <1>2, <1>5, <1>6, <1>10 DEF InStep
  <2>4. Fits'
    BY <1>1, <1>4, <1>10, UsbAssumption DEF Fits
  <2> QED BY <1>8, <2>2, <2>3, <2>4 DEF UsbInv
<1> QED BY <1>9, <1>10 DEF ReadId

\* A transfer reads what there is, and no more than is needed.
LEMMA ReadRestStep ==
  ASSUME NoCustomForceData, UsbInv, ReadRest
  PROVE  UsbInv'
<1>1. /\ halted = 0 /\ place = "rest" /\ need > 0 /\ at < written
      /\ at' = at + Available /\ need' = need - Available
      /\ UNCHANGED <<device, sent, endpoint, place, start, kind, total, control, halted, done,
                     disturbed>>
  BY Stream DEF ReadRest, InTask, Running, Unread, UsbInv
<1>2. (\A i : Begin(i)' = Begin(i)) /\ Length' = Length
  BY <1>1, SameStream
<1>3. need \in Nat /\ need <= BufSize /\ BufSize \in Nat
  BY UsbAssumption DEF UsbInv, TypeOK
<1>4. Available \in Nat /\ Available <= need /\ Available <= written - at
  <2>1. {need, Unread} \in SUBSET Nat /\ {need, Unread} # {} /\ Unread = written - at
    BY <1>1, <1>3, Stream DEF Unread, UsbInv
  <2>2. Min({need, Unread}) \in {need, Unread} /\ \A y \in {need, Unread} : Min({need, Unread}) <= y
    BY <2>1, MinIsLeast
  <2> QED BY <2>1, <2>2 DEF Available
<1>5. /\ at' \in 0 .. written /\ need' \in 0 .. BufSize /\ need' <= need
      /\ at' + need' = at + need
  BY <1>1, <1>3, <1>4, Stream DEF UsbInv
<1>6. TypeOK'
  BY <1>1, <1>2, <1>5 DEF UsbInv, TypeOK, device, endpoint, control
<1>7. InStep'
  BY <1>1, <1>2, <1>5 DEF UsbInv, InStep
<1>8. Fits'
  <2>1. total = 1 /\ WaitFor[kind] \in Nat /\ need <= WaitFor[kind]
        /\ (kind = DriverPair \/ WaitFor[kind] + 1 < BufSize)
    BY <1>1, KindLengths DEF UsbInv, TypeOK, Fits
  <2>2. need' <= WaitFor[kind]
    BY <1>3, <1>5, <2>1
  <2> QED BY <1>1, <2>1, <2>2 DEF Fits
<1>9. Answered'
  BY <1>1 DEF UsbInv, Answered, control
<1> QED BY <1>6, <1>7, <1>8, <1>9 DEF UsbInv

\* A report is handled: the next one is the host's next.
LEMMA HandleStep ==
  ASSUME NoCustomForceData, UsbInv, Handle
  PROVE  UsbInv'
<1>1. /\ halted = 0 /\ place = "rest" /\ need = 0
      /\ place' = "loop" /\ total' = total + WaitFor[kind]
      /\ done' = IF ~disturbed THEN done + 1 ELSE done
      /\ start' = 0 /\ kind' = DriverPair
      /\ selected' \in IF kind \in {"EffectOperation", "DeviceControl"} THEN {"in", selected}
                       ELSE {selected}
      /\ UNCHANGED <<device, sent, written, full, at, need, halted, disturbed, outcome>>
  BY DEF Handle, InTask, Running
<1>2. (\A i : Begin(i)' = Begin(i)) /\ Length' = Length
  BY <1>1, SameStream
<1>3. kind \in AllKinds /\ total = 1 /\ (kind = DriverPair \/ WaitFor[kind] + 1 < BufSize)
  BY <1>1 DEF UsbInv, TypeOK, Fits
<1>4. WaitFor[kind] \in Nat /\ (kind = DriverPair => WaitFor[kind] = 1)
  BY <1>3, KindLengths DEF WaitFor
<1>5. total' \in 0 .. BufSize /\ total' < BufSize
  BY <1>1, <1>3, <1>4, UsbAssumption
<1>6. ~disturbed => /\ done < Len(sent) /\ kind = sent[done + 1] /\ at = Begin(done + 2)
  <2>1. ~disturbed => /\ done < Len(sent) /\ kind = sent[done + 1]
                      /\ at + need = Begin(done + 2)
    BY <1>1 DEF UsbInv, InStep
  <2> QED BY <1>1, <2>1, Stream DEF UsbInv
<1>7. done' \in 0 .. Len(sent) /\ done <= done'
  BY <1>1, <1>6, Stream DEF UsbInv
<1>8. blockLoad' \in Loads /\ (blockLoad' = blockLoad \/ kind = "DeviceControl")
  <2>1. None \in Loads
    BY DEF None, Loads
  <2> QED BY <2>1 DEF Handle, UsbInv, TypeOK
<1>9. TypeOK'
  <2>1. selected' \in {"in", "out"} /\ start' \in Nat /\ kind' \in AllKinds
        /\ place' \in {"idle", "loop", "rest"}
    BY <1>1 DEF UsbInv, TypeOK, AllKinds
  <2> QED BY <1>1, <1>2, <1>5, <1>7, <1>8, <2>1 DEF UsbInv, TypeOK, device
<1>10. InStep'
  <2>1. ~disturbed => done' = done + 1 /\ at' = Begin(done + 2) /\ done + 2 = (done + 1) + 1
    BY <1>1, <1>6, Stream DEF UsbInv
  <2> QED BY <1>1, <1>2, <2>1 DEF InStep
<1>11. Fits'
  BY <1>1, <1>5 DEF Fits
<1>12. Answered'
  <2>1. SUFFICES ASSUME outcome # None, ~disturbed
                 PROVE  /\ \A i \in done' + 1 .. Len(sent) : sent[i] # "DeviceControl"
                        /\ blockLoad' = blockLoad
    BY <1>1 DEF UsbInv, Answered
  <2>2. \A i \in done + 1 .. Len(sent) : sent[i] # "DeviceControl"
    BY <2>1 DEF UsbInv, Answered
  <2>3. done + 1 \in done + 1 .. Len(sent) /\ kind = sent[done + 1]
    BY <1>6, <2>1, Stream DEF UsbInv
  <2>4. kind # "DeviceControl"
    BY <2>2, <2>3
  <2>5. \A i \in done' + 1 .. Len(sent) : i \in done + 1 .. Len(sent)
    BY <1>7, Stream DEF UsbInv
  <2> QED BY <1>8, <2>2, <2>4, <2>5
<1> QED BY <1>9, <1>10, <1>11, <1>12 DEF UsbInv

\* The first pass drops what the endpoint holds, and takes up the stream behind it.
LEMMA FirstPassStep ==
  ASSUME NoCustomForceData, UsbInv, FirstPass
  PROVE  UsbInv'
<1>1. PICK d \in 0 .. Len(sent) :
      /\ halted = 0 /\ place = "idle" /\ configOnce' = TRUE /\ full' = FALSE /\ at' = written
      /\ done' = d /\ Begin(d + 1) <= written
      /\ d < Len(sent) => written < Begin(d + 2)
      /\ UNCHANGED <<usb, connected, sent, written, selected, place, start, kind, need, total,
                     control, halted>>
  BY DEF FirstPass, InTask, Running
<1>2. (\A i : Begin(i)' = Begin(i)) /\ Length' = Length
  BY <1>1, SameStream
<1>3. /\ Len(sent) \in Nat /\ written \in Nat /\ at \in Nat /\ at <= written
      /\ done \in Nat /\ done <= Len(sent) /\ d \in Nat /\ d <= Len(sent)
  BY <1>1, Stream DEF UsbInv
<1>4. /\ \A i \in 1 .. Len(sent) + 1 : Begin(i) \in Nat
      /\ \A i, j \in 1 .. Len(sent) + 1 : i < j => Begin(i) < Begin(j)
  BY Stream DEF UsbInv
<1>5. disturbed' \in BOOLEAN /\ (~disturbed' => ~disturbed /\ written \in Boundaries)
  <2>1. disturbed' = (disturbed \/ written \notin Boundaries)
    BY DEF FirstPass
  <2> QED BY <2>1, Zenon
<1>6. ~disturbed' => written = Begin(d + 1)
  <2>1. SUFFICES ASSUME ~disturbed' PROVE written = Begin(d + 1)
    OBVIOUS
  <2>2. PICK j \in 1 .. Len(sent) + 1 : written = Begin(j)
    BY <1>5, <2>1 DEF Boundaries
  <2>3. CASE j < d + 1
    <3>1. d + 1 \in 1 .. Len(sent) + 1 /\ j \in 1 .. Len(sent) + 1
      BY <1>3
    <3>2. Begin(j) < Begin(d + 1) /\ Begin(j) \in Nat /\ Begin(d + 1) \in Nat
      BY <1>4, <2>3, <3>1
    <3> QED BY <1>1, <2>2, <3>2
  <2>4. CASE j = d + 1
    BY <2>2, <2>4
  <2>5. CASE d + 1 < j
    <3>1. d < Len(sent) /\ d + 2 \in 1 .. Len(sent) + 1 /\ d + 2 <= j
      BY <1>3, <2>5
    <3>2. /\ written < Begin(d + 2) /\ Begin(d + 2) \in Nat /\ Begin(j) \in Nat
          /\ d + 2 = j \/ Begin(d + 2) < Begin(j)
      BY <1>1, <1>3, <1>4, <3>1
    <3> QED BY <1>3, <2>2, <3>2
  <2> QED BY <1>3, <2>3, <2>4, <2>5
<1>7. ~disturbed' => done <= d
  <2>1. SUFFICES ASSUME ~disturbed', d < done PROVE FALSE
    BY <1>3
  <2>2. at = Begin(done + 1) /\ at <= written
    BY <1>1, <1>5, <2>1, Stream DEF UsbInv, InStep, Overrun
  <2>3. d + 1 < done + 1 /\ d + 1 \in 1 .. Len(sent) + 1 /\ done + 1 \in 1 .. Len(sent) + 1
    BY <1>3, <2>1
  <2>4. Begin(d + 1) < Begin(done + 1)
    BY <1>4, <2>3
  <2> QED BY <1>6, <1>3, <2>1, <2>2, <2>4
<1>8. TypeOK'
  <2>1. at' \in 0 .. written /\ done' \in 0 .. Len(sent)
    BY <1>1, <1>3
  <2>2. full' \in BOOLEAN /\ configOnce' \in BOOLEAN
    BY <1>1
  <2> QED BY <1>1, <1>2, <1>5, <2>1, <2>2 DEF UsbInv, TypeOK, control
<1>9. InStep'
  BY <1>1, <1>2, <1>6 DEF InStep
<1>10. Fits'
  BY <1>1 DEF UsbInv, Fits
<1>11. Answered'
  <2>1. \A i \in d + 1 .. Len(sent) : ~disturbed' => i \in done + 1 .. Len(sent)
    BY <1>3, <1>7
  <2> QED BY <1>1, <1>5, <2>1 DEF UsbInv, Answered, control
<1> QED BY <1>8, <1>9, <1>10, <1>11 DEF UsbInv

\* What is left of ffb_Task: the passes over a packet, and the waits inside a
\* report.
LEMMA PassSteps ==
  ASSUME NoCustomForceData, UsbInv, TaskPass \/ LoopEnd \/ NextBank \/ GiveUp
  PROVE  UsbInv'
<1>1. halted = 0 /\ BufSize \in Nat /\ 0 < BufSize
  BY UsbAssumption DEF TaskPass, LoopEnd, NextBank, GiveUp, InTask, Running
<1>2. /\ UNCHANGED <<device, sent, written, start, kind, blockLoad, halted, done>>
      /\ (\A i : Begin(i)' = Begin(i)) /\ Length' = Length
  <2>1. UNCHANGED <<device, sent, written, start, kind, blockLoad, halted, done>>
    BY DEF TaskPass, LoopEnd, NextBank, GiveUp, endpoint, parser, control
  <2> QED BY <2>1, SameStream
<1>3. CASE TaskPass
  <2>1. /\ place = "idle" /\ place' = "loop" /\ selected' = "out"
        /\ UNCHANGED <<full, at, need, total, outcome, disturbed>>
    BY <1>3 DEF TaskPass, InTask, control
  <2>2. TypeOK'
    BY <1>2, <2>1 DEF UsbInv, TypeOK, device
  <2>3. InStep' /\ Fits' /\ Answered'
    BY <1>1, <1>2, <2>1 DEF UsbInv, InStep, Fits, Answered
  <2> QED BY <2>2, <2>3 DEF UsbInv
<1>4. CASE LoopEnd
  <2>1. /\ place = "loop" /\ place' = "idle" /\ total' = 0
        /\ IF selected = "out" THEN full' = FALSE /\ at' = written ELSE UNCHANGED <<full, at>>
        /\ UNCHANGED <<selected, need, outcome, disturbed>>
    BY <1>4 DEF LoopEnd, InTask, control
  <2>2. at' = at
    <3>1. total \in Nat /\ total < BufSize
      BY <2>1 DEF UsbInv, TypeOK, Fits
    <3>2. selected = "out" => written - at = 0
      BY <1>1, <1>4, <3>1 DEF LoopEnd, Unread
    <3> QED BY <2>1, <3>2, Stream DEF UsbInv
  <2>3. full' \in BOOLEAN
    BY <2>1 DEF UsbInv, TypeOK
  <2>4. TypeOK'
    BY <1>1, <1>2, <2>1, <2>2, <2>3 DEF UsbInv, TypeOK, device
  <2>5. InStep' /\ Fits' /\ Answered'
    BY <1>1, <1>2, <2>1, <2>2 DEF UsbInv, InStep, Fits, Answered
  <2> QED BY <2>4, <2>5 DEF UsbInv
<1>5. CASE NextBank
  <2>1. full' = FALSE /\ UNCHANGED <<selected, parser, outcome, disturbed>>
    BY <1>5 DEF NextBank, control
  <2>2. TypeOK'
    BY <1>2, <2>1 DEF UsbInv, TypeOK, device, parser
  <2>3. InStep' /\ Fits' /\ Answered'
    BY <1>2, <2>1 DEF UsbInv, InStep, Fits, Answered, parser
  <2> QED BY <2>2, <2>3 DEF UsbInv
<1>6. CASE GiveUp
  <2>1. /\ place = "rest" /\ need' = 0 /\ disturbed' = TRUE /\ outcome' = None
        /\ UNCHANGED <<endpoint, place, at, total>>
    BY <1>6 DEF GiveUp, InTask
  <2>2. None \in Loads /\ need' \in 0 .. BufSize
    BY <1>1, <2>1 DEF None, Loads
  <2>3. TypeOK'
    BY <1>2, <2>1, <2>2 DEF UsbInv, TypeOK, device, endpoint
  <2>4. Fits'
    <3>1. total = 1 /\ WaitFor[kind] \in Nat /\ (kind = DriverPair \/ WaitFor[kind] + 1 < BufSize)
      BY <2>1, KindLengths DEF UsbInv, TypeOK, Fits
    <3>2. need' <= WaitFor[kind]
      BY <2>1, <3>1
    <3> QED BY <1>2, <2>1, <3>1, <3>2 DEF Fits
  <2>5. InStep' /\ Answered'
    BY <2>1 DEF InStep, Answered
  <2> QED BY <2>3, <2>4, <2>5 DEF UsbInv
<1> QED BY <1>3, <1>4, <1>5, <1>6

\* A control request is answered with what it has just led to.
LEMMA ControlSteps ==
  ASSUME NoCustomForceData, UsbInv, ControlRequest
  PROVE  UsbInv'
<1>1. /\ UNCHANGED <<device, sent, endpoint, parser, done, disturbed>>
      /\ (\A i : Begin(i)' = Begin(i)) /\ Length' = Length
  <2>1. UNCHANGED <<device, sent, endpoint, parser, done, disturbed>>
    BY DEF ControlRequest, CreateSupported, CreateWhenFull, CreateUnsupported
  <2> QED BY <2>1, SameStream
<1>2. halted = 0 /\ (halted' = halted \/ halted' = PoolFull)
  BY DEF ControlRequest, CreateSupported, CreateWhenFull, CreateUnsupported, Requested, Running
<1>3. None \in Loads /\ \A i \in Ids : [eid |-> i, status |-> "success"] \in Loads
  BY DEF None, Loads
<1>4. [eid |-> 0, status |-> "error"] \in Loads
  BY DEF Loads
<1>5. Refused \in Loads /\ Refused.status = "error"
  BY DEF Refused, Loads, UsbInv, TypeOK
<1>6. blockLoad' \in Loads /\ outcome' \in Loads
  BY <1>3, <1>4, <1>5
  DEF ControlRequest, CreateSupported, CreateWhenFull, CreateUnsupported, UsbInv, TypeOK, control
<1>7. TypeOK'
  BY <1>1, <1>2, <1>6 DEF UsbInv, TypeOK, device, endpoint, parser
<1>8. InStep' /\ Fits'
  BY <1>1, <1>2 DEF UsbInv, InStep, Fits, parser, PoolFull, Overrun
<1>9. Answered'
  <2>1. CASE CreateWhenFull
    BY <1>1, <2>1 DEF CreateWhenFull, UsbInv, Answered, control
  <2>2. ASSUME NEW e \in Ids, CreateSupported(e) PROVE Answered'
    <3>1. CASE ResetAhead
      BY <2>2, <3>1 DEF CreateSupported, Answered
    <3>2. CASE ~ResetAhead
      <4>1. blockLoad' = outcome'
        BY <2>2, <3>2 DEF CreateSupported
      <4> QED BY <1>1, <3>2, <4>1 DEF Answered, ResetAhead
    <3> QED BY <3>1, <3>2
  <2>3. CASE CreateUnsupported
    <3>1. CASE ResetAhead
      BY <2>3, <3>1 DEF CreateUnsupported, Answered
    <3>2. CASE ~ResetAhead
      <4>1. outcome'.status = "error" /\ blockLoad'.status = "error"
        BY <1>5, <2>3, <3>2 DEF CreateUnsupported
      <4> QED BY <1>1, <3>2, <4>1 DEF Answered, ResetAhead
    <3> QED BY <3>1, <3>2
  <2> QED BY <2>1, <2>2, <2>3 DEF ControlRequest
<1> QED BY <1>7, <1>8, <1>9 DEF UsbInv

-----------------------------------------------------------------------------

\* The parser stays at the boundary of a report, or at the right place inside
\* it, and a reset asked for later than the last create is never forgotten.
THEOREM UsbInvariant ==
  ASSUME NoCustomForceData
  PROVE  Spec => []UsbInv
<1>1. Init => UsbInv
  BY UsbInit
<1>2. UsbInv /\ [Next]_vars => UsbInv'
  <2>1. SUFFICES ASSUME UsbInv, [Next]_vars PROVE UsbInv'
    OBVIOUS
  <2>2. CASE Bus \/ Host \/ ControlRequest
    BY <2>1, <2>2, BusSteps, HostSteps, ControlSteps
  <2>3. CASE Step
    BY <2>1, <2>3, FirstPassStep, ReadIdStep, ReadRestStep, HandleStep, PassSteps DEF Step
  <2>4. CASE UNCHANGED vars
    <3>1. UNCHANGED <<device, sent, endpoint, parser, control, halted, done, disturbed>>
          /\ (\A i : Begin(i)' = Begin(i)) /\ Length' = Length
      BY <2>4, SameStream DEF vars
    <3>2. TypeOK'
      BY <2>1, <3>1 DEF UsbInv, TypeOK, device, endpoint, parser, control
    <3>3. InStep' /\ Fits' /\ Answered'
      BY <2>1, <3>1 DEF UsbInv, InStep, Fits, Answered, parser, control
    <3> QED BY <3>2, <3>3 DEF UsbInv
  <2> QED BY <2>1, <2>2, <2>3, <2>4 DEF Next
<1> QED BY <1>1, <1>2, PTL DEF Spec

\* The three invariants of the run: in range, each report handled whole and in
\* its turn (ffb_Task), and the last create answered (sendControlStream).
THEOREM UsbSafety ==
  ASSUME NoCustomForceData
  PROVE  Spec => [](TypeOK /\ HandledAsWritten /\ AnswersLastCreate)
<1>1. UsbInv => TypeOK
  BY DEF UsbInv
<1>2. UsbInv => HandledAsWritten
  <2>1. SUFFICES ASSUME UsbInv, place = "rest", need = 0, ~disturbed
                 PROVE  /\ done < Len(sent) /\ kind = sent[done + 1]
                        /\ start = Begin(done + 1) /\ at = Begin(done + 2)
    BY SameLayouts DEF HandledAsWritten
  <2> QED BY <2>1, Stream DEF UsbInv, InStep
<1>3. UsbInv => AnswersLastCreate
  BY DEF UsbInv, Answered, AnswersLastCreate, ResetAhead, BlockLoadReport
<1> QED BY <1>1, <1>2, <1>3, UsbInvariant, PTL

=============================================================================
