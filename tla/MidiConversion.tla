--------------------------- MODULE MidiConversion ---------------------------
(***************************************************************************)
(* The conversions from USB report values to the values the wheel is sent  *)
(* (ffb.c and ffb-wheel.c), with the widths of the code's types.  A 16-bit *)
(* value goes out low byte first, and the wheel reads two data bytes as    *)
(* one 14-bit number.                                                      *)
(***************************************************************************)
EXTENDS Integers

Low(v)  == v % 256
High(v) == (v \div 256) % 256

\* What the wheel makes of the two bytes of v.
Value14(v) == High(v) * 128 + Low(v)

\* Uint16ToMidiUint14: bit 7 is dropped, and no bit moves into its place.
Uint16ToMidiUint14(v) == IF v >= 32767 THEN 0 ELSE ((v \div 256) * 256) + (v % 128)

\* Mutant of CalcAmplitude: the gain is taken for a percentage.
CalcAmplitudePercent(value, gain) == ((value * gain) \div 100) % 128

\* calcAmplitude
CalcAmplitude(value, gain) == ((value * gain) \div 127) % 128

\* A byte of a report that is read as int8_t.
Int8(byte) == IF byte < 128 THEN byte ELSE byte - 256

AbsOf(n) == IF n < 0 THEN -n ELSE n

\* calcForce
CalcForce(magnitude, gain) == CalcAmplitude(AbsOf(magnitude) \div 2, gain)

\* applyPeriod: the limits are sent as they are.
PeriodOf(period) ==
  IF period > 10000 THEN 10000 ELSE IF period < 150 THEN 150 ELSE Uint16ToMidiUint14(period)

\* applyRamp; delta and midpoint are bytes.
RampDelta(start, end) == AbsOf(end - start)
RampMidpoint(start, end) == AbsOf(start - RampDelta(start, end) \div 2) % 256

\* applyFriction, without the extra friction of the debug console.
FrictionOf(coefficient) == ((127 * (IF coefficient < 50 THEN 50 ELSE coefficient)) \div 100) % 128

\* applyEnvelopeOnWave: the fade time becomes the time at which to fade,
\* unless it is longer than the effect.
FadeOnWave(duration, fade) ==
  Uint16ToMidiUint14(IF duration > fade THEN duration - fade ELSE fade)

\* applyEnvelopeOnConstant: the fade time itself, or "right" when it is 0.
FadeOnConstant(fade) == IF Uint16ToMidiUint14(fade) = 0 THEN 5862 ELSE Uint16ToMidiUint14(fade)

=============================================================================
