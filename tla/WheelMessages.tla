--------------------------- MODULE WheelMessages ---------------------------
(***************************************************************************)
(* The bytes ffb-wheel.c and ffb_sendSysEx (ffb.c) put on the MIDI line    *)
(* for one report: the upload of an effect (f0 ... f7), modifications of   *)
(* single attributes of it (f1), operations (f2) and, for the whole wheel, *)
(* f3.  A data byte of a MIDI message is below 128.                        *)
(*                                                                         *)
(* Any effect block the reports can lead to is handled.  For an effect     *)
(* that is in the wheel already, wire has all the modifications that may   *)
(* be sent; FfbWheel follows the blocks and decides which of them are.     *)
(* The line is drained before the next report.  No direction is enabled.   *)
(***************************************************************************)
EXTENDS MidiConversion, Sums

CONSTANTS
  Eids,             \* effect block indices
  Durations,        \* samples of the reports' fields, within the logical
  Gains,            \* ranges of the report descriptor
  Levels,
  Times,
  Periods,
  Magnitudes,       \* of constant forces, which are sent with either sign
  RampEnds,         \* bytes, read as int8_t
  Coefficients

\* The longest duration and the longest other time a report can carry.
MaxDuration == 65535
MaxTime == 32767

ASSUME MessageAssumption ==
  /\ Eids \subseteq 2 .. 11
  /\ Durations \subseteq 0 .. MaxDuration /\ Gains \subseteq 0 .. 255 /\ Levels \subseteq 0 .. 127
  /\ Times \subseteq 0 .. MaxTime /\ Periods \subseteq 0 .. MaxTime
  /\ Magnitudes \subseteq 0 .. 255 /\ RampEnds \subseteq 0 .. 255
  /\ Coefficients \subseteq 0 .. 100

VARIABLES
  asked,        \* the report that was handled, with the effect's parameters
  wire          \* the messages it put on the line

vars == <<asked, wire>>

Nothing == [type |-> "nothing"]

\* Mutant of Word: all of the value in the first byte.
WordInOneByte(v) == <<v, 0>>

Word(v) == <<Low(v), High(v)>>

-----------------------------------------------------------------------------
(* Messages. *)

\* modifyAttribute; 64 in the address marks a one-byte value.
Modify(eid, address, value) ==
  <<241, (128 - (241 + (address % 64) + eid + Low(value) + High(value))) % 128, address, eid>>
    \o Word(value)

Masked(bytes) == [i \in DOMAIN bytes |-> bytes[i] % 128]

\* Mutant of SysEx: the data are sent as they are.
SysExUnmasked(data) == <<240, 0, 1, 10, 21>> \o data \o <<(128 - SumOf(data)) % 128, 247>>

\* ffb_sendSysEx: the data are masked, the checksum is that of the unmasked.
SysEx(data) == <<240, 0, 1, 10, 21>> \o Masked(data) \o <<(128 - SumOf(data)) % 128, 247>>

\* setCommon: the duration of an upload is infinite.
Common(devType, direction) == <<32, devType, 127, 0, 0, direction>>

\* a ^ b, for half bytes.
Xor(a, b) == LET bit(k) == k * (((a \div k) + (b \div k)) % 2)
             IN  bit(1) + bit(2) + bit(4) + bit(8)

\* wheel_EffectOp: the checksum makes all half bytes of the message cancel.
EffectOp(eid, operation) ==
  <<242, operation * 16 + Xor(Xor(Xor(Xor(15, 2), operation), eid \div 16), eid % 16), eid>>

-----------------------------------------------------------------------------
(* The set-up of the whole wheel; 0 and 1 are effects of its own, the centre *)
(* spring and the force gain.                                                *)

Attention == <<243, 29>>
Commit == <<243, 106>>

\* ac_level_off: a modification written out as bytes.
SpringOff == <<241, 16, 64, 0, 127, 0>>

\* Ffbwheel_SetAutoCenter
AutoCenter(enable) == {Attention} \cup IF enable THEN {} ELSE {SpringOff, Commit}

\* setForceGainLevel: a strength and three coefficients, for the level 3 that
\* init_sequence asks for.
ForceGain ==
  {Modify(1, 67, 125 * 256), Modify(1, 68, (78 * 256) + 62),
   Modify(1, 69, (47 * 256) + 62), Modify(1, 6, 125)}

\* Ffbwheel_EnableFFB
EnableFFB == {Attention} \cup ForceGain \cup AutoCenter(FALSE)

-----------------------------------------------------------------------------
(* What is sent for an effect block, on upload and later. *)

\* ffb_handleSetEffect: the duration kept in the effect block.
Dur(b) == Uint16ToMidiUint14(b.duration)

HasEnvelope(b) == b.env # Nothing

\* applyTypeSpecificEnvelope: what an upload has where no envelope was set.
DefaultEnvelope(b) ==
  [y1 |-> 127, x1 |-> 0, x2 |-> IF b.type = "wave" THEN 4709 ELSE 7790, y2 |-> 127]

\* Attack level and time, fade start and level of an effect with an envelope.
ScaledEnvelope(b, right) ==
  [y1 |-> CalcAmplitude(b.env.attack, b.gain), x1 |-> Uint16ToMidiUint14(b.env.rise),
   x2 |-> right, y2 |-> CalcAmplitude(b.env.fade, b.gain)]

\* applyEnvelopeOnWave
WaveEnvelope(b) ==
  IF HasEnvelope(b) THEN ScaledEnvelope(b, FadeOnWave(Dur(b), b.env.fall)) ELSE DefaultEnvelope(b)

\* applyEnvelopeOnConstant
ConstantEnvelope(b) ==
  IF HasEnvelope(b) THEN ScaledEnvelope(b, FadeOnConstant(b.env.fall)) ELSE DefaultEnvelope(b)

\* The four modifications, at the addresses of the effect's type; none
\* without an envelope.
ModifyEnvelope(b, e, addresses) ==
  IF HasEnvelope(b)
  THEN {Modify(b.eid, addresses[1], e.y1), Modify(b.eid, addresses[2], e.x1),
        Modify(b.eid, addresses[3], e.x2), Modify(b.eid, addresses[4], e.y2)}
  ELSE {}

\* cmd_f0_wave_t
WaveData(devType, direction, precise, xOffset, e, amplitude, period, yOffset) ==
  Common(devType, direction) \o <<precise>> \o Word(xOffset) \o <<e.y1>> \o Word(e.x1)
    \o <<amplitude>> \o Word(e.x2) \o <<e.y2>> \o Word(period) \o <<yOffset>>

Wave(b) ==
  LET e == WaveEnvelope(b)
      amplitude == CalcAmplitude(b.level, b.gain)
  IN  IF b.sent
      THEN ModifyEnvelope(b, e, <<69, 6, 8, 73>>) \cup
           {Modify(b.eid, 66, 64), Modify(b.eid, 71, amplitude),
            Modify(b.eid, 10, PeriodOf(b.period)), Modify(b.eid, 75, 62)}
      ELSE {SysEx(WaveData(2, 64, 125, 16384, e, amplitude, PeriodOf(b.period), 62))}

Ramp(b) ==
  LET e == WaveEnvelope(b)
      start == Int8(b.start)
      end == Int8(b.end)
      direction == IF end < start THEN 64 ELSE 0
      delta == RampDelta(start, end)
      midpoint == RampMidpoint(start, end)
  IN  IF b.sent
      THEN ModifyEnvelope(b, e, <<69, 6, 8, 73>>) \cup
           {Modify(b.eid, 66, direction), Modify(b.eid, 67, 125),
            Modify(b.eid, 71, delta), Modify(b.eid, 75, midpoint)}
      ELSE {SysEx(WaveData(5, direction, 125, 0, e, delta, 7790, midpoint))}

\* cmd_f0_constant_force_t
Constant(b) ==
  LET e == ConstantEnvelope(b)
      force == CalcForce(b.magnitude, b.gain)
      direction == IF b.magnitude >= 0 THEN 125 ELSE 0
  IN  IF b.sent
      THEN ModifyEnvelope(b, e, <<68, 69, 71, 72>>) \cup
           {Modify(b.eid, 73, direction), Modify(b.eid, 70, force)}
      ELSE {SysEx(Common(6, 0) \o <<125, e.y1>> \o Word(e.x1) \o <<force>> \o Word(e.x2)
                    \o <<e.y2, direction>>)}

\* The wheel's type of a spring; dampers and inertia follow.
Spring == 8

\* applyCondition: an upload has the same data whatever was asked for, and
\* later nothing is sent.
Condition(b) ==
  IF b.sent THEN {}
  ELSE {SysEx(Common(b.devType, 0) \o
              <<0, 125, 62, 63, 62, IF b.devType = Spring THEN 47 ELSE 63, 125, 0>>)}

Friction(b) ==
  IF b.sent THEN {Modify(b.eid, 67, FrictionOf(b.coefficient)),
                  Modify(b.eid, 70, FrictionOf(b.coefficient))}
  ELSE {SysEx(Common(11, 0) \o <<FrictionOf(b.coefficient)>>)}

-----------------------------------------------------------------------------

Init == asked = Nothing /\ wire = {}

\* Ffbwheel_SetEffect: the duration of an effect in the wheel, then its type's
\* parameters.
SetEffect(b, messages) ==
  /\ wire = {}
  /\ asked' = b
  /\ wire' = messages \cup IF b.sent THEN {Modify(b.eid, 0, Dur(b))} ELSE {}

\* Nothing is an envelope that was not set.
Envelopes == [attack : Levels, rise : Times, fade : Levels, fall : Times] \cup {Nothing}

Waves == [type : {"wave"}, eid : Eids, sent : BOOLEAN, duration : Durations, gain : Gains,
          env : Envelopes, level : Levels, period : Periods]

Ramps == [type : {"ramp"}, eid : Eids, sent : BOOLEAN, duration : Durations, gain : Gains,
          env : Envelopes, start : RampEnds, end : RampEnds]

Constants == [type : {"constant"}, eid : Eids, sent : BOOLEAN, duration : Durations, gain : Gains,
              env : Envelopes, magnitude : Magnitudes \cup {-m : m \in Magnitudes}]

Frictions == [type : {"friction"}, eid : Eids, sent : BOOLEAN, duration : Durations,
              coefficient : Coefficients]

Conditions == [type : {"condition"}, eid : Eids, sent : BOOLEAN, duration : Durations,
               devType : Spring .. Spring + 2]

SetWave      == \E b \in Waves : SetEffect(b, Wave(b))
SetRamp      == \E b \in Ramps : SetEffect(b, Ramp(b))
SetConstant  == \E b \in Constants : SetEffect(b, Constant(b))
SetFriction  == \E b \in Frictions : SetEffect(b, Friction(b))
SetCondition == \E b \in Conditions : SetEffect(b, Condition(b))

\* Start, stop and free (2, 3 and 1).
Operate ==
  /\ wire = {}
  /\ \E e \in Eids, op \in 1 .. 3 :
       asked' = [type |-> "operation", eid |-> e, op |-> op] /\ wire' = {EffectOp(e, op)}

\* ffb_handleDeviceControl, the controls that speak to the wheel apart from
\* stopping effects: reset, pause and continue (4, 5 and 6).
DeviceControl ==
  /\ wire = {}
  /\ \E c \in 4 .. 6 :
       /\ asked' = [type |-> "control", control |-> c]
       /\ wire' = IF c = 5 THEN AutoCenter(TRUE) ELSE EnableFFB

\* The line takes the bytes.
Drain == wire # {} /\ wire' = {} /\ asked' = Nothing

Next ==
  \/ SetWave \/ SetRamp \/ SetConstant \/ SetFriction \/ SetCondition
  \/ Operate \/ DeviceControl \/ Drain

Spec == Init /\ [][Next]_vars

-----------------------------------------------------------------------------

\* Every message is a sequence of bytes that begins with its command.
TypeOK == \A m \in wire : m \in Seq(0 .. 255) /\ m[1] \in 240 .. 243

\* The data bytes of m: all but the command and the end of a SysEx.
DataOf(m) == {m[i] : i \in 2 .. IF m[1] = 240 THEN Len(m) - 1 ELSE Len(m)}

Clean == \A m \in wire : \A byte \in DataOf(m) : byte < 128

\* Modifications that may leave a byte above 127: a ramp that spans more than
\* half the range, a period raised to 150, the default fade of a constant.
Unmasked ==
  \/ asked.type = "ramp"
  \/ asked.type = "wave" /\ asked.period < 150
  \/ /\ asked.type = "constant" /\ HasEnvelope(asked)
     /\ Uint16ToMidiUint14(asked.env.fall) = 0

\* Each bit is set in an even number of the half bytes of m.
HalfBytesCancel(m) ==
  \A k \in {1, 2, 4, 8} :
    SumOf([i \in DOMAIN m |-> (m[i] \div k) + (m[i] \div (16 * k))]) % 2 = 0

\* Every message is one the wheel can take.  Uploads (which are masked),
\* operations, the set-up, and modifications of everything but ramps, fast
\* waves and constants without a fade time consist of data bytes: no value a
\* conversion leaves can be taken for a command.  And every message passes
\* its check: the bytes of a modification without the flag in its address,
\* and the data of an upload as they were sent (the code sums them before it
\* masks them), add up to 0 with their checksum; the half bytes of all
\* others cancel, also in those the code writes out as bytes.
ValidMessages ==
  /\ (Unmasked => ~asked.sent) => Clean
  /\ \A m \in wire :
       /\ m[1] = 241 => (SumOf(m) - (m[3] - (m[3] % 64))) % 128 = 0
       /\ m[1] = 240 => SumOf(SubSeq(m, 6, Len(m) - 1)) % 128 = 0
       /\ m[1] \in {242, 243} => HalfBytesCancel(m)

\* The amplitude of a wave, or the force of a constant, in the messages ms.
Strength(ms) ==
  LET wave == asked.type = "wave"
      m == CHOOSE m \in ms : m[1] = 240 \/ (m[1] = 241 /\ m[3] = IF wave THEN 71 ELSE 70)
  IN  IF m[1] = 241 THEN m[5] ELSE m[IF wave THEN 18 ELSE 16]

\* The level a value is scaled to fits in the seven bits that are kept of it.
Fits(value, gain) == (value * gain) \div 127 < 128

\* A stronger request never reaches the wheel as a weaker force, though gain
\* and level are multiplied, divided and cut to seven bits, as long as the
\* stronger one still fits in them; and a gain of 127 leaves a wave its
\* amplitude.  What does not fit is excepted, for there the code breaks it:
\* calcAmplitude takes "a maximum <gain> of 127 into account" (ffb.c), while
\* the gain of a Set Effect report goes to 255 and nothing caps it, so that
\* the level 127 becomes 0 at a gain of 128.
LouderNotSofter ==
  /\ asked.type = "wave" =>
       /\ \A l \in Levels, g \in Gains : l >= asked.level /\ g >= asked.gain /\ Fits(l, g) =>
            Strength(Wave([asked EXCEPT !.level = l, !.gain = g])) >= Strength(wire)
       /\ asked.gain = 127 => Strength(wire) = asked.level
  /\ asked.type = "constant" =>
       \A m \in Magnitudes, g \in Gains :
         /\ AbsOf(m) >= AbsOf(asked.magnitude) /\ g >= asked.gain
         /\ Fits(AbsOf(m) \div 2, g)
         => Strength(Constant([asked EXCEPT !.magnitude = m, !.gain = g])) >= Strength(wire)

=============================================================================
