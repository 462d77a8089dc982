---------------------------- MODULE ReportLayout ----------------------------
(***************************************************************************)
(* The reports between host and device, twice: as the HID report           *)
(* descriptor tells the host (Descriptors.c), and as the structures of     *)
(* ffb.h through which the firmware reads and writes them.  The host cuts  *)
(* its bytes by the first, the parser of ffb_Task by the second.           *)
(*                                                                         *)
(* A layout is the sequence of the fields behind the report id, each with  *)
(* its width in bits.  A byte that ffb.h declares as one and splits into   *)
(* bits in a comment is split here, and padding belongs to the field       *)
(* before it when the structure has one integer for both.                  *)
(***************************************************************************)
EXTENDS Sums, SequencesExt

CONSTANT CustomForce    \* SUPPORT_CUSTOM_FORCE (board.h)

ASSUME LayoutAssumption == CustomForce \in BOOLEAN

Eid == <<"effectBlockIndex", 8>>
Pad(n) == <<"pad", n>>

\* The joystick report.
DescribedWheelReport ==
  <<<<"X", 16>>, <<"Y", 16>>, <<"Z", 16>>, <<"steering", 8>>, <<"throttle", 8>>, <<"shifter", 8>>,
    <<"accelerator", 8>>, <<"brake", 8>>, <<"button", 8>>>>

\* An axis, the direction and the pads of Set Effect are for two axes
\* (REPORT_ONLY_1AXIS is not defined).
DescribedSetEffect ==
  <<Eid, <<"effectType", 8>>, <<"duration", 16>>, <<"triggerRepeatInterval", 16>>,
    <<"samplePeriod", 16>>, <<"gain", 8>>, <<"triggerButton", 8>>, <<"axes", 2>>,
    <<"directionEnable", 1>>, Pad(5), <<"directionX", 8>>, <<"directionY", 8>>,
    <<"startDelay", 16>>>>

DescribedSetEnvelope ==
  <<Eid, <<"attackLevel", 8>>, <<"fadeLevel", 8>>, <<"attackTime", 16>>, <<"fadeTime", 16>>>>

DescribedSetCondition ==
  <<Eid, <<"parameterBlockOffset", 4>>, <<"instances", 4>>, <<"cpOffset", 8>>,
    <<"positiveCoefficient", 8>>, <<"negativeCoefficient", 8>>, <<"positiveSaturation", 8>>,
    <<"negativeSaturation", 8>>, <<"deadBand", 8>>>>

DescribedSetPeriodic ==
  <<Eid, <<"magnitude", 8>>, <<"offset", 8>>, <<"phase", 8>>, <<"period", 16>>>>

DescribedSetConstantForce == <<Eid, <<"magnitude", 16>>>>

DescribedSetRampForce == <<Eid, <<"start", 8>>, <<"end", 8>>>>

DescribedEffectOperation == <<Eid, <<"operation", 8>>, <<"loopCount", 8>>>>

DescribedBlockFree == <<Eid>>

DescribedDeviceControl == <<<<"control", 8>>>>

DescribedDeviceGain == <<<<"gain", 8>>>>

DescribedCustomForceData == <<Eid, <<"dataOffset", 16>>, <<"data", 12 * 8>>>>

DescribedDownloadForceSample == <<<<"x", 8>>, <<"y", 8>>>>

DescribedSetCustomForce == <<Eid, <<"sampleCount", 8>>, <<"samplePeriod", 16>>>>

\* The size of the five flags is 8 bits, also for the padding behind them.
DescribedPidState ==
  <<<<"status", 5 * 8>>, Pad(3 * 8), <<"playing", 1>>, <<"effectBlockIndex", 7>>>>

\* Six bits of padding follow the ten of byteCount.
DescribedCreateEffect == <<<<"effectType", 8>>, <<"byteCount", 16>>>>

DescribedBlockLoad == <<Eid, <<"loadStatus", 8>>, <<"ramPoolAvailable", 16>>>>

\* The sizes of the parameter blocks, in the order of the reports 1 to 6 and,
\* with custom forces, of the Set Custom Force report.
DescribedPidPool ==
  <<<<"ramPoolSize", 16>>, <<"blockSizes", IF CustomForce THEN 56 ELSE 48>>,
    <<"maxSimultaneousEffects", 8>>, <<"capabilities", 2>>, Pad(6)>>

-----------------------------------------------------------------------------
(* The structures of ffb.h; integers are little-endian, as USB sends them. *)

StoredWheelReport ==
  <<<<"X", 16>>, <<"Y", 16>>, <<"Z", 16>>, <<"steering", 8>>, <<"throttle", 8>>, <<"shifter", 8>>,
    <<"accelerator", 8>>, <<"brake", 8>>, <<"button", 8>>>>

StoredSetEffect ==
  <<Eid, <<"effectType", 8>>, <<"duration", 16>>, <<"triggerRepeatInterval", 16>>,
    <<"samplePeriod", 16>>, <<"gain", 8>>, <<"triggerButton", 8>>, <<"axes", 2>>,
    <<"directionEnable", 1>>, Pad(5), <<"directionX", 8>>, <<"directionY", 8>>,
    <<"startDelay", 16>>>>

\* Mutant of StoredSetEnvelope: each time behind its level.
StoredSetEnvelopePaired ==
  <<Eid, <<"attackLevel", 8>>, <<"attackTime", 16>>, <<"fadeLevel", 8>>, <<"fadeTime", 16>>>>

StoredSetEnvelope ==
  <<Eid, <<"attackLevel", 8>>, <<"fadeLevel", 8>>, <<"attackTime", 16>>, <<"fadeTime", 16>>>>

StoredSetCondition ==
  <<Eid, <<"parameterBlockOffset", 4>>, <<"instances", 4>>, <<"cpOffset", 8>>,
    <<"positiveCoefficient", 8>>, <<"negativeCoefficient", 8>>, <<"positiveSaturation", 8>>,
    <<"negativeSaturation", 8>>, <<"deadBand", 8>>>>

StoredSetPeriodic ==
  <<Eid, <<"magnitude", 8>>, <<"offset", 8>>, <<"phase", 8>>, <<"period", 16>>>>

StoredSetConstantForce == <<Eid, <<"magnitude", 16>>>>

StoredSetRampForce == <<Eid, <<"start", 8>>, <<"end", 8>>>>

StoredEffectOperation == <<Eid, <<"operation", 8>>, <<"loopCount", 8>>>>

StoredBlockFree == <<Eid>>

StoredDeviceControl == <<<<"control", 8>>>>

StoredDeviceGain == <<<<"gain", 8>>>>

\* One byte for the offset, which the descriptor gives two.
StoredCustomForceData == <<Eid, <<"dataOffset", 8>>, <<"data", 12 * 8>>>>

StoredDownloadForceSample == <<<<"x", 8>>, <<"y", 8>>>>

StoredSetCustomForce == <<Eid, <<"sampleCount", 8>>, <<"samplePeriod", 16>>>>

\* The flags are bits of one byte, and the play bit is bit 7.
StoredPidState == <<<<"status", 8>>, <<"effectBlockIndex", 7>>, <<"playing", 1>>>>

StoredCreateEffect == <<<<"effectType", 8>>, <<"byteCount", 16>>>>

StoredBlockLoad == <<Eid, <<"loadStatus", 8>>, <<"ramPoolAvailable", 16>>>>

StoredPidPool ==
  <<<<"ramPoolSize", 16>>, <<"blockSizes", IF CustomForce THEN 56 ELSE 48>>,
    <<"maxSimultaneousEffects", 8>>, <<"capabilities", 2>>, Pad(6)>>

-----------------------------------------------------------------------------

\* The output reports; their place in OutReportLengths is their id.
OutReports ==
  <<"SetEffect", "SetEnvelope", "SetCondition", "SetPeriodic", "SetConstantForce",
    "SetRampForce", "EffectOperation", "BlockFree", "DeviceControl", "DeviceGain">>
  \o IF CustomForce THEN <<"CustomForceData", "DownloadForceSample", "SetCustomForce">> ELSE <<>>

Described ==
  [WheelReport |-> DescribedWheelReport,
   SetEffect |-> DescribedSetEffect, SetEnvelope |-> DescribedSetEnvelope,
   SetCondition |-> DescribedSetCondition, SetPeriodic |-> DescribedSetPeriodic,
   SetConstantForce |-> DescribedSetConstantForce, SetRampForce |-> DescribedSetRampForce,
   EffectOperation |-> DescribedEffectOperation, BlockFree |-> DescribedBlockFree,
   DeviceControl |-> DescribedDeviceControl, DeviceGain |-> DescribedDeviceGain,
   CustomForceData |-> DescribedCustomForceData,
   DownloadForceSample |-> DescribedDownloadForceSample,
   SetCustomForce |-> DescribedSetCustomForce,
   PidState |-> DescribedPidState, CreateEffect |-> DescribedCreateEffect,
   BlockLoad |-> DescribedBlockLoad, PidPool |-> DescribedPidPool]

Stored ==
  [WheelReport |-> StoredWheelReport,
   SetEffect |-> StoredSetEffect, SetEnvelope |-> StoredSetEnvelope,
   SetCondition |-> StoredSetCondition, SetPeriodic |-> StoredSetPeriodic,
   SetConstantForce |-> StoredSetConstantForce, SetRampForce |-> StoredSetRampForce,
   EffectOperation |-> StoredEffectOperation, BlockFree |-> StoredBlockFree,
   DeviceControl |-> StoredDeviceControl, DeviceGain |-> StoredDeviceGain,
   CustomForceData |-> StoredCustomForceData,
   DownloadForceSample |-> StoredDownloadForceSample,
   SetCustomForce |-> StoredSetCustomForce,
   PidState |-> StoredPidState, CreateEffect |-> StoredCreateEffect,
   BlockLoad |-> StoredBlockLoad, PidPool |-> StoredPidPool]

\* The bytes of a report, its id included.
Bytes(layout) == 1 + (SumOf([i \in DOMAIN layout |-> layout[i][2]]) \div 8)

\* Every field is where the descriptor says, except in two reports: the PID
\* state report, and, in builds with custom forces, their data.
LayoutsAgree ==
  \A r \in DOMAIN Described \ {"PidState", "CustomForceData"} : Described[r] = Stored[r]

=============================================================================
