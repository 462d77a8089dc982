------------------------ MODULE SidewinderLinkProofs ------------------------
(***************************************************************************)
(* Proofs about the joystick report and the game-port link: the safety     *)
(* properties that TLC checks on a few samples, for all of them.           *)
(***************************************************************************)
EXTENDS SidewinderLink, TLAPS

-----------------------------------------------------------------------------
(***************************************************************************)
(* The report.                                                             *)
(***************************************************************************)

\* The decoder fills joystick_state with values of 10 and 8 bits.
LEMMA DecodedType ==
  ASSUME NEW value \in Nat
  PROVE  Decoded(value) \in JoystickStates
<1>1. \A v \in 0 .. 63 : Scale(v) \in Axis
  BY DEF Scale, Axis
<1>2. \A n \in Nat : n % 1024 \in Axis /\ n % 64 \in 0 .. 63 /\ 255 - (n % 256) \in Byte
  BY DEF Axis, Byte
<1> DEFINE x == value % 1024
           y == Scale((value \div 1024) % 64)
           z == Scale((value \div (1024 * 64)) % 64)
           b == 255 - ((value \div (1024 * 64 * 64)) % 256)
<1>3. x \in Axis /\ y \in Axis /\ z \in Axis /\ b \in Byte
  <2>1. /\ value \div 1024 \in Nat
        /\ value \div (1024 * 64) \in Nat
        /\ value \div (1024 * 64 * 64) \in Nat
    OBVIOUS
  <2> QED BY <2>1, <1>1, <1>2
<1>4. Decoded(value) = [X |-> x, Y |-> y, Z |-> z, Button |-> b]
  BY DEF Decoded
<1> HIDE DEF x, y, z, b
<1> QED BY <1>3, <1>4 DEF JoystickStates

\* The axis that combines the pedals fits its signed byte.
LEMMA Combined ==
  \A a, b \in Byte :
    /\ Int8((a \div 2) - (b \div 2)) = (a \div 2) - (b \div 2)
    /\ (a \div 2) - (b \div 2) \in Symmetric
BY DEF Int8, Byte, Symmetric

\* Joystick_CreateReport: no field overflows its byte, all are monotonic.
LEMMA Fields ==
  \A a, b \in Axis :
    /\ Steering(a) \in SignedByte /\ Pedal(a) \in Byte
    /\ a <= b => Steering(a) <= Steering(b)
    /\ b >= a => Pedal(b) <= Pedal(a)
BY DEF Steering, Pedal, Int8, UInt8, Axis, Byte, SignedByte

LEMMA CombinedOrder ==
  \A a, b, c, d \in Byte :
    a <= c /\ d <= b => (a \div 2) - (b \div 2) <= (c \div 2) - (d \div 2)
BY DEF Byte

\* The throttle of a report is the difference of its pedals.
LEMMA Throttle ==
  ASSUME NEW j \in JoystickStates
  PROVE  /\ WheelReport(j).throttle = (Pedal(j.Y) \div 2) - (Pedal(j.Z) \div 2)
         /\ WheelReport(j).throttle \in Symmetric
<1>1. Pedal(j.Y) \in Byte /\ Pedal(j.Z) \in Byte
  BY Fields, Zenon DEF JoystickStates
<1>2. \A t \in Symmetric : (IF t < -127 THEN -127 ELSE t) = t
  BY DEF Symmetric
<1> QED BY <1>1, <1>2, Combined, Zenon DEF WheelReport

\* Joystick_CreateReport, all of it: the fields are in range and in order.
THEOREM ReportIsOrdered ==
  ASSUME NEW j \in JoystickStates, NEW k \in JoystickStates
  PROVE  InRange(WheelReport(j)) /\ Orders(j, k)
<1>1. \A s \in JoystickStates : s.X \in Axis /\ s.Y \in Axis /\ s.Z \in Axis
  BY Zenon DEF JoystickStates
<1>2. \A s \in JoystickStates :
        /\ WheelReport(s).steering = Steering(s.X)
        /\ WheelReport(s).accelerator = Pedal(s.Y)
        /\ WheelReport(s).brake = Pedal(s.Z)
  BY Zenon DEF WheelReport
<1>3. InRange(WheelReport(j))
  BY <1>1, <1>2, Fields, Throttle, Zenon DEF InRange
<1>4. /\ j.X <= k.X => WheelReport(j).steering <= WheelReport(k).steering
      /\ j.Y >= k.Y => WheelReport(j).accelerator <= WheelReport(k).accelerator
      /\ j.Z >= k.Z => WheelReport(j).brake <= WheelReport(k).brake
  BY <1>1, <1>2, Fields, Zenon
<1>5. ASSUME j.Y >= k.Y, j.Z <= k.Z
      PROVE  WheelReport(j).throttle <= WheelReport(k).throttle
  <2>1. \A a, b \in Axis : b <= a => a >= b
    BY DEF Axis
  <2>2. /\ Pedal(j.Y) \in Byte /\ Pedal(j.Z) \in Byte
        /\ Pedal(k.Y) \in Byte /\ Pedal(k.Z) \in Byte
        /\ Pedal(j.Y) <= Pedal(k.Y) /\ Pedal(k.Z) <= Pedal(j.Z)
    BY <1>1, <1>5, <2>1, Fields, Zenon
  <2> QED BY <2>2, CombinedOrder, Throttle, Zenon
<1> QED BY <1>3, <1>4, <1>5, Zenon DEF Orders

-----------------------------------------------------------------------------
(***************************************************************************)
(* The bits of the device state.                                           *)
(***************************************************************************)

\* Setting or clearing bit 3 or bit 0 of a word.
LEMMA Bit3 ==
  \A n \in Words :
    /\ (n \div 8) % 2 # 1 => n + 8 \in Words /\ ((n + 8) \div 8) % 2 = 1
    /\ (n \div 8) % 2 = 1 => n - 8 \in Words /\ ((n - 8) \div 8) % 2 # 1
BY SMTT(30) DEF Words

LEMMA Bit0 ==
  \A n \in Words :
    /\ n % 2 # 1 => /\ n + 1 \in Words /\ (n + 1) % 2 = 1
                    /\ ((n + 1) \div 8) % 2 = (n \div 8) % 2
    /\ n % 2 = 1 => /\ n - 1 \in Words /\ (n - 1) % 2 # 1
                    /\ ((n - 1) \div 8) % 2 = (n \div 8) % 2
    /\ n \div 1 = n
BY SMTT(30) DEF Words

\* Putting one of the two bits leaves the other one.
LEMMA PutOverride ==
  ASSUME NEW n \in Words, NEW on \in BOOLEAN
  PROVE  /\ Put(n, ActuatorOverride, on) \in Words
         /\ HasBit(Put(n, ActuatorOverride, on), ActuatorOverride) <=> on
<1>1. CASE on = TRUE
  BY <1>1, Bit3 DEF Put, HasBit, ActuatorOverride
<1>2. CASE on = FALSE
  BY <1>2, Bit3 DEF Put, HasBit, ActuatorOverride
<1> QED BY <1>1, <1>2

LEMMA PutPaused ==
  ASSUME NEW n \in Words, NEW on \in BOOLEAN
  PROVE  /\ Put(n, Paused, on) \in Words
         /\ HasBit(Put(n, Paused, on), Paused) <=> on
         /\ HasBit(Put(n, Paused, on), ActuatorOverride) <=> HasBit(n, ActuatorOverride)
<1>1. CASE on = TRUE
  BY <1>1, Bit0 DEF Put, HasBit, ActuatorOverride, Paused
<1>2. CASE on = FALSE
  BY <1>2, Bit0 DEF Put, HasBit, ActuatorOverride, Paused
<1> QED BY <1>1, <1>2

\* DeviceStateChanged: deviceStateAndID has the bits of the new state.
LEMMA MarkedBits ==
  ASSUME NEW n \in Words, NEW new \in Words
  PROVE  /\ Marked(n, new) \in Words
         /\ HasBit(Marked(n, new), ActuatorOverride) <=> HasBit(new, ForceOverride)
         /\ HasBit(Marked(n, new), Paused) <=> HasBit(new, DevicePaused)
<1>1. HasBit(new, ForceOverride) \in BOOLEAN /\ HasBit(new, DevicePaused) \in BOOLEAN
  BY DEF HasBit
<1> QED BY <1>1, PutOverride, PutPaused, Zenon DEF Marked

-----------------------------------------------------------------------------
(***************************************************************************)
(* The link.  The error count is at most the number of passes without an   *)
(* intact packet, which is why a wheel that is heard is not given up.      *)
(***************************************************************************)

\* An answer of the right size is a word, also one read long ago.
AnswerIsWord == packet.size = IdSize => packet.body \in Words

\* What init() leaves, and what decode failures have to show for them.
ErrorsExplained ==
  /\ model = Unknown => errors = 0
  /\ model = Wheel => errors <= unheard

LinkInv ==
  TypeOK /\ KnowsDeviceState /\ ConnectedOnceFound /\ AnswerIsWord /\ ErrorsExplained

PacketType == [size : 0 .. 68, ok : BOOLEAN, body : Nat]

\* readPacket: what is in m_packet afterwards.
LEMMA ReadingType ==
  ASSUME LinkInv, NEW kind \in {"data", "id"}, NEW p \in Reading(kind)
  PROVE  p \in PacketType /\ (p.size = IdSize => p.body \in Words)
<1> USE LinkAssumption
<1>1. packet \in PacketType /\ (packet.size = IdSize => packet.body \in Words)
  BY DEF LinkInv, TypeOK, AnswerIsWord, PacketType
<1>2. \A w \in Words : w \in Nat
  BY DEF Words
<1>3. position \in Nat /\ mood \in Words /\ mood \in Nat
  BY <1>2 DEF LinkInv, TypeOK
<1>4. ASSUME NEW q \in NoisePackets
      PROVE  q \in PacketType /\ (q.size = IdSize => q.body \in Words)
  <2>1. q \in [size : NoiseSizes, ok : BOOLEAN, body : Samples \cup Ids]
    BY <1>4, Zenon DEF NoisePackets
  <2>2. q.size = IdSize => q.body \in Ids
    BY <1>4, Zenon DEF NoisePackets
  <2>3. Samples \cup Ids \subseteq Nat /\ Ids \subseteq Words
    BY <1>2
  <2> HIDE LinkAssumption
  <2>4. NoiseSizes \subseteq 0 .. 68
    BY LinkAssumption
  <2>5. [size : NoiseSizes, ok : BOOLEAN, body : Samples \cup Ids] \subseteq PacketType
    BY <2>3, <2>4 DEF PacketType
  <2> QED BY <2>1, <2>2, <2>3, <2>5
<1>5. CASE line = "unplugged"
  <2>1. p = NoPacket
    BY <1>5, Zenon DEF Reading
  <2> QED BY <2>1 DEF NoPacket, Packet, PacketType, IdSize
<1>6. CASE line = "silent"
  BY <1>6, <1>1 DEF Reading
<1>7. CASE line = "noisy"
  <2>1. p \in NoisePackets \/ p = packet
    BY <1>7, Zenon DEF Reading
  <2> QED BY <2>1, <1>1, <1>4, Zenon
<1>8. CASE line = "clean"
  <2>1. p = Packet(11, TRUE, position) \/ p = Packet(IdSize, TRUE, mood)
    BY <1>8, Zenon DEF Reading
  <2>2. p.size # IdSize \/ p.body = mood
    BY <2>1 DEF Packet, IdSize
  <2>3. p \in PacketType
    <3>1. \A body \in Nat : Packet(11, TRUE, body) \in PacketType /\ Packet(IdSize, TRUE, body) \in PacketType
      BY DEF Packet, PacketType, IdSize
    <3> QED BY <2>1, <1>3, <3>1, Zenon
  <2> QED BY <2>2, <2>3, <1>3
<1> QED BY <1>5, <1>6, <1>7, <1>8 DEF LinkInv, TypeOK, Lines

\* guessModel
LEMMA GuessType == \A n : GuessModel(n) \in Models
BY Zenon DEF GuessModel, Models, Unknown

\* On a clean line readAndDecode gets a packet that the wheel's decoder takes.
LEMMA CleanDecodes ==
  ASSUME line = "clean", packet' \in Reading("data")
  PROVE  Decodes(Wheel, packet')
BY DEF Reading, Packet, Decodes, SizesOf, Wheel

LEMMA InitInv == Init => LinkInv
<1> SUFFICES ASSUME Init PROVE LinkInv
  OBVIOUS
<1> USE LinkAssumption DEF Init
<1>1. ZeroState \in JoystickStates
  BY DEF ZeroState, JoystickStates, Axis, Byte
<1>2. TypeOK
  <2>1. 0 \in Words /\ 0 \in 0 .. MaxErrors /\ 0 \in 0 .. MaxErrors + 1 /\ 0 \in 0 .. PollEvery
    BY DEF Words
  <2>2. packet \in [size : 0 .. 68, ok : BOOLEAN, body : Nat]
    BY DEF NoPacket, Packet
  <2> QED BY <1>1, <2>1, <2>2, Zenon DEF TypeOK, Models, Unknown, Places
<1>3. KnowsDeviceState /\ ConnectedOnceFound
  BY DEF KnowsDeviceState, ConnectedOnceFound
<1>4. AnswerIsWord /\ ErrorsExplained
  BY DEF AnswerIsWord, ErrorsExplained, NoPacket, Packet, IdSize, Unknown, Wheel
<1> QED BY <1>2, <1>3, <1>4 DEF LinkInv

\* readDeviceStateAndID and DeviceStateChanged.
LEMMA ReadStateKnows ==
  ASSUME LinkInv, ReadState
  PROVE  /\ packet' \in PacketType /\ AnswerIsWord'
         /\ id' \in Words /\ oldState' \in Words /\ devState' \in Words /\ wiped' \in BOOLEAN
         /\ KnowsDeviceState'
<1>1. PICK p \in Reading("id") :
        /\ packet' = p
        /\ IF p.size = IdSize /\ p.body # id
           THEN /\ id' = p.body /\ oldState' = p.body
                /\ devState' = Marked(devState, p.body) /\ wiped' = FALSE
           ELSE UNCHANGED stateVars
  BY Zenon DEF ReadState
<1>2. p \in PacketType /\ (p.size = IdSize => p.body \in Words)
  BY ReadingType
<1>3. packet' \in PacketType /\ AnswerIsWord'
  BY <1>1, <1>2, Zenon DEF AnswerIsWord, IdSize
<1>4. /\ id \in Words /\ oldState \in Words /\ devState \in Words /\ wiped \in BOOLEAN
      /\ KnowsDeviceState
  BY Zenon DEF LinkInv, TypeOK
<1>5. CASE p.size = IdSize /\ p.body # id
  <2>1. /\ id' = p.body /\ oldState' = p.body /\ devState' = Marked(devState, p.body)
        /\ wiped' \in BOOLEAN /\ p.body \in Words
    BY <1>1, <1>2, <1>5, Zenon
  <2>2. /\ Marked(devState, p.body) \in Words
        /\ HasBit(Marked(devState, p.body), ActuatorOverride) <=> HasBit(p.body, ForceOverride)
        /\ HasBit(Marked(devState, p.body), Paused) <=> HasBit(p.body, DevicePaused)
    BY <1>4, <2>1, MarkedBits, Zenon
  <2>3. KnowsDeviceState'
    BY <2>1, <2>2 DEF KnowsDeviceState, HasBit, ActuatorOverride, ForceOverride, Paused, DevicePaused
  <2> QED BY <1>3, <2>1, <2>2, <2>3, Zenon
<1>6. CASE ~(p.size = IdSize /\ p.body # id)
  <2>1. UNCHANGED stateVars
    BY <1>1, <1>6, Zenon
  <2> QED BY <1>3, <1>4, <2>1 DEF stateVars, KnowsDeviceState, HasBit, ActuatorOverride,
                                  ForceOverride, Paused, DevicePaused
<1> QED BY <1>5, <1>6

\* Every step keeps the invariant.
LEMMA StepInv == LinkInv /\ [Next]_vars => LinkInv'
<1> SUFFICES ASSUME LinkInv, [Next]_vars PROVE LinkInv'
  OBVIOUS
<1> USE LinkAssumption
<1>a. TypeOK /\ KnowsDeviceState /\ ConnectedOnceFound /\ AnswerIsWord /\ ErrorsExplained
  BY Zenon DEF LinkInv
<1>b. ASSUME packet' \in Reading("data")
      PROVE  packet' \in PacketType /\ AnswerIsWord'
  BY <1>b, ReadingType, Zenon DEF AnswerIsWord, IdSize
<1>c. ASSUME UNCHANGED stateVars
      PROVE  /\ KnowsDeviceState' /\ wiped' \in BOOLEAN
             /\ id' \in Words /\ oldState' \in Words /\ devState' \in Words
  BY <1>a, <1>c DEF stateVars, TypeOK, KnowsDeviceState, HasBit, ActuatorOverride,
                    ForceOverride, Paused, DevicePaused
<1>d. 0 \in 0 .. MaxErrors /\ 0 \in 0 .. PollEvery
  OBVIOUS
<1>1. CASE Probe
  <2>1. packet' \in PacketType /\ AnswerIsWord'
    BY <1>1, <1>b, Zenon DEF Probe
  <2>2. model' \in Models /\ place' \in Places
    BY <1>1, GuessType, Zenon DEF Probe, Places
  <2>3. TypeOK' /\ KnowsDeviceState'
    BY <1>a, <1>1, <1>c, <2>1, <2>2, Zenon DEF Probe, TypeOK, wheelVars, PacketType
  <2>4. ConnectedOnceFound'
    BY <1>1, Zenon DEF Probe, ConnectedOnceFound
  <2>5. ErrorsExplained'
    BY <1>a, <1>1 DEF Probe, ErrorsExplained, TypeOK
  <2> QED BY <2>1, <2>3, <2>4, <2>5, Zenon DEF LinkInv
<1>2. CASE Connect
  <2>1. PICK p \in Reading("id") :
          packet' = p /\ id' = IF p.size = IdSize THEN p.body ELSE id
    BY <1>2, Zenon DEF Connect
  <2>2. p \in PacketType /\ (p.size = IdSize => p.body \in Words)
    BY ReadingType
  <2>3. id' \in Words /\ oldState' = id' /\ devState' = id' /\ wiped' \in BOOLEAN
    BY <1>a, <1>2, <2>1, <2>2, Zenon DEF Connect, TypeOK
  <2>4. TypeOK'
    BY <1>a, <1>2, <2>1, <2>2, <2>3, Zenon DEF Connect, TypeOK, wheelVars, PacketType, Places
  <2>5. KnowsDeviceState' /\ ConnectedOnceFound' /\ AnswerIsWord'
    BY <1>2, <2>1, <2>2, <2>3, Zenon DEF Connect, KnowsDeviceState, ConnectedOnceFound,
                                         AnswerIsWord, IdSize
  <2>6. ErrorsExplained'
    BY <1>a, <1>2 DEF Connect, ErrorsExplained
  <2> QED BY <2>4, <2>5, <2>6, Zenon DEF LinkInv
<1>3. CASE PollState
  <2>1. /\ packet' \in PacketType /\ AnswerIsWord'
        /\ id' \in Words /\ oldState' \in Words /\ devState' \in Words /\ wiped' \in BOOLEAN
        /\ KnowsDeviceState'
    BY <1>3, ReadStateKnows, Zenon DEF PollState
  <2>2. TypeOK'
    BY <1>a, <1>d, <1>3, <2>1, Zenon DEF PollState, TypeOK, wheelVars, PacketType, Places
  <2>3. ConnectedOnceFound' /\ ErrorsExplained'
    BY <1>a, <1>3 DEF PollState, ConnectedOnceFound, ErrorsExplained
  <2> QED BY <2>1, <2>2, <2>3, Zenon DEF LinkInv
<1>4. ASSUME ReadData
      PROVE  /\ packet' \in PacketType /\ AnswerIsWord' /\ KnowsDeviceState'
             /\ id' \in Words /\ oldState' \in Words /\ devState' \in Words /\ wiped' \in BOOLEAN
             /\ since' \in 0 .. PollEvery /\ place' \in Places
             /\ unheard' \in 0 .. MaxErrors + 1
             /\ UNCHANGED wheelVars /\ connected' = connected /\ connected
  <2>1. packet' \in PacketType /\ AnswerIsWord'
    BY <1>4, <1>b, Zenon DEF ReadData
  <2>2. since' \in 0 .. PollEvery
    BY <1>a, <1>4 DEF ReadData, TypeOK
  <2>3. unheard' \in 0 .. MaxErrors + 1
    BY <1>a, <1>4 DEF ReadData, TypeOK
  <2>4. UNCHANGED wheelVars /\ UNCHANGED stateVars /\ connected' = connected
    BY <1>4, Zenon DEF ReadData
  <2>5. place' \in Places /\ connected
    BY <1>a, <1>4 DEF ReadData, ConnectedOnceFound, Places
  <2> QED BY <1>c, <2>1, <2>2, <2>3, <2>4, <2>5, Zenon
<1>5. ASSUME ReadData, ~Decodes(model, packet'), model = Wheel
      PROVE  unheard' >= errors + 1 \/ unheard' > MaxErrors
  <2>1. line # "clean"
    BY <1>5, CleanDecodes, Zenon DEF ReadData
  <2> QED BY <1>a, <1>5, <2>1 DEF ReadData, TypeOK, ErrorsExplained
<1>6. CASE Decode
  <2>1. packet'.body \in Nat
    BY <1>4, <1>6 DEF Decode, PacketType
  <2>2. joystick' \in JoystickStates
    BY <1>6, <2>1, DecodedType, Zenon DEF Decode
  <2>3. TypeOK'
    BY <1>a, <1>d, <1>4, <1>6, <2>2, Zenon DEF Decode, TypeOK, wheelVars, PacketType
  <2>4. ConnectedOnceFound' /\ ErrorsExplained'
    BY <1>a, <1>4, <1>6 DEF Decode, ConnectedOnceFound, ErrorsExplained
  <2> QED BY <1>4, <1>6, <2>3, <2>4, Zenon DEF LinkInv, Decode
<1>7. CASE DecodeFails
  <2>1. errors' \in 0 .. MaxErrors
    BY <1>a, <1>7 DEF DecodeFails, TypeOK
  <2>2. TypeOK'
    BY <1>a, <1>4, <1>7, <2>1, Zenon DEF DecodeFails, TypeOK, wheelVars, PacketType
  <2>3. model # Unknown
    BY <1>7, Zenon DEF DecodeFails, ReadData
  <2>4. ConnectedOnceFound'
    BY <1>4, <1>7, Zenon DEF DecodeFails, ConnectedOnceFound
  <2>5. ErrorsExplained'
    BY <1>a, <1>4, <1>5, <1>7, <2>3 DEF DecodeFails, ErrorsExplained, TypeOK
  <2> QED BY <1>4, <1>7, <2>2, <2>4, <2>5, Zenon DEF LinkInv, DecodeFails
<1>8. CASE StartOver
  <2>1. TypeOK'
    BY <1>a, <1>d, <1>4, <1>8, Zenon DEF StartOver, TypeOK, wheelVars, PacketType, Models
  <2>2. ConnectedOnceFound' /\ ErrorsExplained'
    BY <1>8 DEF StartOver, ConnectedOnceFound, ErrorsExplained, Unknown, Wheel
  <2> QED BY <1>4, <1>8, <2>1, <2>2, Zenon DEF LinkInv, StartOver
<1>9. CASE Outside
  <2>1. TypeOK' /\ KnowsDeviceState'
    BY <1>a, <1>c, <1>9, Zenon DEF Outside, TypeOK
  <2>2. ConnectedOnceFound' /\ AnswerIsWord' /\ ErrorsExplained'
    BY <1>a, <1>9 DEF Outside, ConnectedOnceFound, AnswerIsWord, ErrorsExplained, IdSize
  <2> QED BY <2>1, <2>2, Zenon DEF LinkInv
<1>10. CASE UNCHANGED vars
  <2>1. TypeOK' /\ KnowsDeviceState'
    BY <1>a, <1>c, <1>10, Zenon DEF vars, wheelVars, TypeOK
  <2>2. ConnectedOnceFound' /\ AnswerIsWord' /\ ErrorsExplained'
    BY <1>a, <1>10 DEF vars, wheelVars, ConnectedOnceFound, AnswerIsWord, ErrorsExplained, IdSize
  <2> QED BY <2>1, <2>2, Zenon DEF LinkInv
<1>11. CASE DeviceReset
  <2>1. KnowsDeviceState'
    BY <1>a, <1>11 DEF DeviceReset, KnowsDeviceState
  <2>2. TypeOK'
    <3>1. 0 \in Words
      BY DEF Words
    <3> QED BY <1>a, <1>11, <3>1, Zenon DEF DeviceReset, TypeOK, wheelVars
  <2>3. ConnectedOnceFound' /\ AnswerIsWord' /\ ErrorsExplained'
    BY <1>a, <1>11 DEF DeviceReset, wheelVars, ConnectedOnceFound, AnswerIsWord, ErrorsExplained, IdSize
  <2> QED BY <2>1, <2>2, <2>3, Zenon DEF LinkInv
<1> QED BY <1>1, <1>2, <1>3, <1>6, <1>7, <1>8, <1>9, <1>10, <1>11, Zenon DEF Next, Update

-----------------------------------------------------------------------------

\* The invariant of the link, for all positions, answers, kinds of noise,
\* limits of errors and rates of polling.
THEOREM LinkInvariant == Spec => []LinkInv
<1>1. Spec => Init /\ [][Next]_vars
  BY PTL DEF Spec
<1> QED BY <1>1, InitInv, StepInv, PTL

\* What the link tells the firmware: the device state and its bits are known
\* (readDeviceStateAndID, DeviceStateChanged), a model is connected before its
\* positions count, and the report of every position keeps their order
\* (Joystick_CreateReport).
THEOREM LinkSafety == Spec => [](TypeOK /\ KnowsDeviceState /\ ConnectedOnceFound /\ ReportOrders)
<1>1. LinkInv => TypeOK /\ KnowsDeviceState /\ ConnectedOnceFound
  BY Zenon DEF LinkInv
<1>2. LinkInv => ReportOrders
  <2> SUFFICES ASSUME LinkInv PROVE ReportOrders
    OBVIOUS
  <2>1. joystick \in JoystickStates
    BY Zenon DEF LinkInv, TypeOK
  <2>2. \A value \in Samples : Decoded(value) \in JoystickStates
    BY LinkAssumption, DecodedType, Zenon DEF LinkAssumption
  <2> QED BY <2>1, <2>2, ReportIsOrdered, Zenon DEF ReportOrders
<1> QED BY <1>1, <1>2, LinkInvariant, PTL

\* readAndDecode: a wheel that is heard once in MaxErrors + 1 passes is kept.
THEOREM LinkKeepsWheel == Spec => KeptIfHeard
<1>1. ASSUME LinkInv, [Next]_vars, model = Wheel, model' = Unknown
      PROVE  unheard' > MaxErrors
  <2>1. model # model'
    BY <1>1 DEF Wheel, Unknown
  <2>2. StartOver
    BY <1>1, <2>1, Zenon DEF Next, Update, Probe, Connect, PollState, Decode, DecodeFails,
                             DeviceReset, Outside, vars, Wheel, Unknown
  <2>3. line # "clean"
    BY <1>1, <2>2, CleanDecodes, Zenon DEF StartOver, ReadData
  <2>4. errors + 1 > MaxErrors /\ errors <= unheard /\ unheard \in Nat /\ errors \in Nat
    BY <1>1, <2>2, LinkAssumption DEF StartOver, LinkInv, TypeOK, ErrorsExplained
  <2> QED BY <2>2, <2>3, <2>4, LinkAssumption DEF StartOver, ReadData, LinkAssumption
<1>2. LinkInv /\ [Next]_vars => [model = Wheel /\ model' = Unknown => unheard' > MaxErrors]_vars
  BY <1>1, Zenon
<1>3. Spec => [][Next]_vars
  BY PTL DEF Spec
<1> QED BY <1>2, <1>3, LinkInvariant, PTL DEF KeptIfHeard

=============================================================================
