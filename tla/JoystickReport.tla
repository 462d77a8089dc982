--------------------------- MODULE JoystickReport ---------------------------
(***************************************************************************)
(* From the bits of one wheel packet to the HID report of its position:    *)
(* the wheel's decoder (Sidewinder.h), the copy into joystick_state        *)
(* (SwFFB.h) and Joystick_CreateReport (lufa-iface.c), with the widths of  *)
(* the C types.                                                            *)
(***************************************************************************)
EXTENDS Integers

\* What joystick_state can hold of the wheel.
Axis == 0 .. 1023
Byte == 0 .. 255
SignedByte == -128 .. 127
Symmetric == -127 .. 127
JoystickStates == [X : Axis, Y : Axis, Z : Axis, Button : Byte]

\* joystick_state before the first packet.
ZeroState == [X |-> 0, Y |-> 0, Z |-> 0, Button |-> 0]

\* map(v, 0, 63, 0, 1023)
Scale(v) == (v * 1023) \div 63

\* Decoder<SW_FORCE_FEEDBACK_WHEEL>, value being the bits of the packet:
\* steering, accelerator and brake pedal, buttons (low active).
Decoded(value) ==
  [X |-> value % 1024,
   Y |-> Scale((value \div 1024) % 64),
   Z |-> Scale((value \div (1024 * 64)) % 64),
   Button |-> 255 - ((value \div (1024 * 64 * 64)) % 256)]

Int8(n) == ((n + 128) % 256) - 128
UInt8(n) == n % 256

\* Mutant of Steering: centred one to the right.
SteeringOffByOne(axis) == Int8((axis \div 4) - 127)

\* From 0 .. 1023 to the signed byte of the report.
Steering(axis) == Int8(((axis \div 4) - 1) - 127)

\* A pedal at rest is 1023, the report wants 0 to 255.
Pedal(axis) == UInt8((1023 - axis) \div 4)

\* struct WheelReport
WheelReport(j) ==
  LET accelerator == Pedal(j.Y)
      brake == Pedal(j.Z)
      throttle == Int8((accelerator \div 2) - (brake \div 2))
  IN [X |-> j.X, Y |-> j.Y, Z |-> j.Z,
      steering |-> Steering(j.X),
      accelerator |-> accelerator,
      brake |-> brake,
      throttle |-> IF throttle < -127 THEN -127 ELSE throttle,
      shifter |-> 0,
      Button |-> j.Button]

-----------------------------------------------------------------------------

\* The logical ranges of the report descriptor, but for the steering, which
\* reaches -128 where the descriptor has -127.
InRange(r) ==
  /\ r.steering \in SignedByte
  /\ r.accelerator \in Byte /\ r.brake \in Byte
  /\ r.throttle \in Symmetric

\* No field wraps on the way: a wheel turned further right is never reported
\* further left, a pedal pressed further never less, and the combined axis
\* follows both.
Orders(j, k) ==
  LET r == WheelReport(j)
      s == WheelReport(k)
  IN /\ j.X <= k.X => r.steering <= s.steering
     /\ j.Y >= k.Y => r.accelerator <= s.accelerator
     /\ j.Z >= k.Z => r.brake <= s.brake
     /\ j.Y >= k.Y /\ j.Z <= k.Z => r.throttle <= s.throttle

=============================================================================
