--------------------------- MODULE SidewinderLink ---------------------------
(***************************************************************************)
(* The game-port link to the wheel: class SwFFB (SwFFB.h) on top of        *)
(* Sidewinder (Sidewinder.h), and what it tells the rest of the firmware:  *)
(* joystick_state, DeviceStateChanged and connectDevice (lufa-iface.c).    *)
(*                                                                         *)
(* loop() calls joystick.update() again and again.  A pass reads up to     *)
(* three packets; the line and the wheel may change between any two.  A    *)
(* packet is its number of clock pulses, whether the checks on its content *)
(* pass, and that content.  The bit timing is left out, and so is the      *)
(* PidStateChanged that DeviceStateChanged calls (PidStatus has it).       *)
(***************************************************************************)
EXTENDS JoystickReport

CONSTANTS
  Samples,      \* bound: the positions of the wheel, as the bits it sends
  Ids,          \* bound: what the wheel answers as "device state and ID"
  NoiseSizes,   \* bound: numbers of pulses read from a noisy line
  MaxErrors,    \* 7: one more failure in a row and the link starts over
  PollEvery     \* 127: passes of 8 ms that cover the 1011 ms between two polls

Words == {n \in Nat : n < 256 * 256}    \* uint16_t

ASSUME LinkAssumption ==
  /\ Samples \subseteq Nat /\ Samples # {}
  /\ Ids \subseteq Words /\ Ids # {}
  /\ NoiseSizes \subseteq 0 .. 68
  /\ MaxErrors \in Nat /\ PollEvery \in Nat

Unknown == "SW_UNKNOWN"
Wheel == "SW_FORCE_FEEDBACK_WHEEL"
Models == {Unknown, Wheel, "SW_GAMEPAD", "SW_PRECISION_PRO", "SW_3D_PRO"}

\* The clock line as the adapter sees it: nothing plugged in (the pull-up
\* keeps it high), low without pulses, disturbed, or as it should be.
Lines == {"unplugged", "silent", "noisy", "clean"}

Places == {"idle", "data", "retry", "connect"}

VARIABLES
  line,       \* environment: the clock line
  position,   \* environment: the wheel's position
  mood,       \* environment: the wheel's device state and ID
  packet,     \* m_packet
  model,      \* m_model
  errors,     \* m_errors
  id,         \* m_deviceStateAndID
  oldState,   \* DeviceStateChanged's static
  devState,   \* gDevice.deviceStateAndID
  wiped,      \* history: no state has been put there since the last reset
  connected,  \* connectDevice's devConnected
  joystick,   \* joystick_state
  since,      \* passes since m_last_devID_poll
  place,      \* where update() is
  unheard     \* history: decoding passes since the wheel was heard intact

wheelVars == <<line, position, mood>>
stateVars == <<id, oldState, devState, wiped>>
vars == <<wheelVars, packet, model, errors, stateVars, connected, joystick, since,
          place, unheard>>

-----------------------------------------------------------------------------
(***************************************************************************)
(* Packets.                                                                *)
(***************************************************************************)

Packet(size, ok, body) == [size |-> size, ok |-> ok, body |-> body]

IdSize == 6

\* Packet is zeroed when the joystick object is constructed.
NoPacket == Packet(0, FALSE, 0)

NoisePackets ==
  {p \in [size : NoiseSizes, ok : BOOLEAN, body : Samples \cup Ids] :
     p.body \in IF p.size = IdSize THEN Ids ELSE Samples}

\* Mutant of Reading: the clock has to rise before anything is counted.
ReadingAfterEdge(kind) ==
  CASE line \in {"unplugged", "silent"} -> {packet}
    [] line = "noisy" -> NoisePackets \cup {packet}
    [] OTHER -> IF kind = "data" THEN {Packet(11, TRUE, position)}
                ELSE {Packet(IdSize, TRUE, mood)}

\* readPacket: with the clock high it counts the pulses, be there none; with
\* the clock low and no edge within the timeout m_packet stays as it is.
Reading(kind) ==
  CASE line = "unplugged" -> {NoPacket}
    [] line = "silent" -> {packet}
    [] line = "noisy" -> NoisePackets \cup {packet}
    [] OTHER -> IF kind = "data" THEN {Packet(11, TRUE, position)}
                ELSE {Packet(IdSize, TRUE, mood)}

\* Mutant of SizesOf: the packets of one bit per clock pulse only.
SizesOfOneBit(m) ==
  CASE m = "SW_GAMEPAD" -> {15}
    [] m = "SW_PRECISION_PRO" -> {48}
    [] m = Wheel -> {33}
    [] m = "SW_3D_PRO" -> {64}
    [] OTHER -> {}

\* The sizes of each model's packets, with three bits or one per pulse.
SizesOf(m) ==
  CASE m = "SW_GAMEPAD" -> {15}
    [] m = "SW_PRECISION_PRO" -> {16, 48}
    [] m = Wheel -> {11, 33}
    [] m = "SW_3D_PRO" -> {64}
    [] OTHER -> {}

GuessModel(size) ==
  IF \E m \in Models : size \in SizesOf(m)
  THEN CHOOSE m \in Models : size \in SizesOf(m)
  ELSE Unknown

\* A model's decoder accepts the packet: its size, then parity, checksum or
\* sync bits.  The contents of the other models are taken to be the wheel's.
Decodes(m, p) == p.size \in SizesOf(m) /\ p.ok

-----------------------------------------------------------------------------
(***************************************************************************)
(* The device state.                                                       *)
(***************************************************************************)

Paused == 1
ActuatorOverride == 8
ForceOverride == 256
DevicePaused == 32 * 256

HasBit(n, bit) == (n \div bit) % 2 = 1

Put(n, bit, on) ==
  IF HasBit(n, bit) = on THEN n ELSE IF on THEN n + bit ELSE n - bit

\* Mutant of Marked: the bits are set and never cleared.
MarkedForGood(n, new) ==
  Put(Put(n, ActuatorOverride, HasBit(n, ActuatorOverride) \/ HasBit(new, ForceOverride)),
      Paused, HasBit(n, Paused) \/ HasBit(new, DevicePaused))

\* What DeviceStateChanged makes of gDevice.deviceStateAndID.
Marked(n, new) ==
  Put(Put(n, ActuatorOverride, HasBit(new, ForceOverride)),
      Paused, HasBit(new, DevicePaused))

\* readDeviceStateAndID: an answer of the right size is the new device state,
\* and DeviceStateChanged hears of it if it is another one.
ReadState ==
  \E p \in Reading("id") :
    /\ packet' = p
    /\ IF p.size = IdSize /\ p.body # id
       THEN /\ id' = p.body /\ oldState' = p.body
            /\ devState' = Marked(devState, p.body) /\ wiped' = FALSE
       ELSE UNCHANGED stateVars

-----------------------------------------------------------------------------
(***************************************************************************)
(* update().                                                               *)
(***************************************************************************)

Init ==
  /\ line \in Lines /\ position \in Samples /\ mood \in Ids
  /\ packet = NoPacket
  /\ model = Unknown /\ errors = 0
  /\ id = 0 /\ oldState = 0 /\ devState = 0 /\ wiped = FALSE
  /\ connected = FALSE /\ joystick = ZeroState
  /\ since = 0 /\ place = "idle" /\ unheard = 0

\* Mutant of Probe: a model found by the second attempt is not connected.
ProbeRetryOnly ==
  /\ model = Unknown /\ place \in {"idle", "retry"}
  /\ packet' \in Reading("data")
  /\ model' = GuessModel(packet'.size)
  /\ place' = IF place = "retry" THEN "idle"
              ELSE IF model' # Unknown THEN "connect" ELSE "retry"
  /\ UNCHANGED <<wheelVars, errors, stateVars, connected, joystick, since, unheard>>

\* No model: read a packet and guess, and once more after enableDigitalMode.
Probe ==
  /\ model = Unknown /\ place \in {"idle", "retry"}
  /\ packet' \in Reading("data")
  /\ model' = GuessModel(packet'.size)
  /\ place' = IF model' # Unknown THEN "connect"
              ELSE IF place = "idle" THEN "retry" ELSE "idle"
  /\ UNCHANGED <<wheelVars, errors, stateVars, connected, joystick, since, unheard>>

\* connect(): DeviceStateChanged, whatever was read, and connectDevice, which
\* stores the device state as it is.
Connect ==
  /\ place = "connect" /\ place' = "idle"
  /\ \E p \in Reading("id") :
       packet' = p /\ id' = IF p.size = IdSize THEN p.body ELSE id
  /\ oldState' = id' /\ devState' = id' /\ wiped' = FALSE
  /\ connected' = TRUE
  /\ UNCHANGED <<wheelVars, model, errors, joystick, since, unheard>>

\* The poll of the device state, due after 1011 ms at the latest.
PollState ==
  /\ model # Unknown /\ place = "idle"
  /\ ReadState
  /\ since' = 0 /\ place' = "data"
  /\ UNCHANGED <<wheelVars, model, errors, connected, joystick, unheard>>

\* Mutant of ReadData: the time of the last poll is updated on every pass.
ReadDataPutsOffPoll ==
  /\ model # Unknown /\ place \in {"idle", "data"} /\ place' = "idle" /\ since' = 0
  /\ packet' \in Reading("data")
  /\ unheard' = IF line = "clean" THEN 0
                ELSE IF unheard > MaxErrors THEN unheard ELSE unheard + 1
  /\ UNCHANGED <<wheelVars, stateVars, connected>>

\* readAndDecode reads its packet: behind a poll, or alone.
ReadData ==
  /\ model # Unknown /\ place' = "idle"
  /\ \/ place = "data" /\ UNCHANGED since
     \/ place = "idle" /\ since < PollEvery /\ since' = since + 1
  /\ packet' \in Reading("data")
  /\ unheard' = IF line = "clean" THEN 0
                ELSE IF unheard > MaxErrors THEN unheard ELSE unheard + 1
  /\ UNCHANGED <<wheelVars, stateVars, connected>>

\* Mutant of Decode: the errors stay counted.
DecodeKeepsErrors ==
  /\ ReadData
  /\ Decodes(model, packet')
  /\ joystick' = Decoded(packet'.body)
  /\ UNCHANGED <<model, errors>>

Decode ==
  /\ ReadData
  /\ Decodes(model, packet')
  /\ joystick' = Decoded(packet'.body) /\ errors' = 0
  /\ UNCHANGED model

\* Mutant of DecodeFails: the limit is not looked at.
DecodeFailsUnlimited ==
  /\ ReadData
  /\ ~Decodes(model, packet')
  /\ errors' = errors + 1
  /\ UNCHANGED <<model, joystick>>

DecodeFails ==
  /\ ReadData
  /\ ~Decodes(model, packet') /\ errors + 1 <= MaxErrors
  /\ errors' = errors + 1
  /\ UNCHANGED <<model, joystick>>

\* Mutant of StartOver: init() forgets the model.
StartOverSameModel ==
  /\ ReadData
  /\ ~Decodes(model, packet') /\ errors + 1 > MaxErrors
  /\ errors' = 0
  /\ UNCHANGED <<model, joystick>>

\* One error too many: init().
StartOver ==
  /\ ReadData
  /\ ~Decodes(model, packet') /\ errors + 1 > MaxErrors
  /\ errors' = 0 /\ model' = Unknown
  /\ UNCHANGED joystick

Update == Probe \/ Connect \/ PollState \/ Decode \/ DecodeFails \/ StartOver

\* Device Control, Reset: ffb_init clears gDevice, but neither what the link
\* has read nor what DeviceStateChanged has heard.  ffb_Task, which handles the
\* report between two passes, runs once connectDevice has been told of a model.
DeviceReset ==
  /\ connected /\ place = "idle"
  /\ devState' = 0 /\ wiped' = TRUE
  /\ UNCHANGED <<wheelVars, packet, model, errors, id, oldState, connected, joystick, since,
                 place, unheard>>

\* The user turns the wheel or its switches, or pulls the plug.
Outside ==
  /\ line' \in Lines /\ position' \in Samples /\ mood' \in Ids
  /\ UNCHANGED <<packet, model, errors, stateVars, connected, joystick, since, place,
                 unheard>>

Next == Update \/ DeviceReset \/ Outside

\* loop() calls update() for ever.
Spec == Init /\ [][Next]_vars /\ WF_vars(Update)

-----------------------------------------------------------------------------

\* Types; the error count never passes its limit.
TypeOK ==
  /\ line \in Lines /\ position \in Samples /\ mood \in Ids
  /\ packet \in [size : 0 .. 68, ok : BOOLEAN, body : Nat]
  /\ model \in Models /\ errors \in 0 .. MaxErrors
  /\ id \in Words /\ oldState \in Words /\ devState \in Words /\ wiped \in BOOLEAN
  /\ connected \in BOOLEAN /\ joystick \in JoystickStates
  /\ since \in 0 .. PollEvery /\ place \in Places /\ unheard \in 0 .. MaxErrors + 1

\* DeviceStateChanged has heard of every change of the device state that
\* update() has read, noise, new connections and resets in between included,
\* and the bits it keeps are right, unless connectDevice has put the raw value
\* there or a reset has cleared them and the wheel has not changed since.
KnowsDeviceState ==
  /\ oldState = id
  /\ \/ devState = id
     \/ wiped /\ devState = 0
     \/ /\ HasBit(devState, ActuatorOverride) <=> HasBit(id, ForceOverride)
        /\ HasBit(devState, Paused) <=> HasBit(id, DevicePaused)

\* No position is taken from a model that has not been connected, whichever
\* attempt found it: ffb_Task then runs and has its driver.
ConnectedOnceFound == model # Unknown => connected \/ place = "connect"

\* The position that is reported keeps the order of the positions (see
\* Orders), after any packet from any line.
ReportOrders ==
  /\ InRange(WheelReport(joystick))
  /\ \A value \in Samples :
       Orders(joystick, Decoded(value)) /\ Orders(Decoded(value), joystick)

\* A wheel is not given up while at least one of MaxErrors + 1 passes in a row
\* found the line clean, whatever was read in the others.
KeptIfHeard == [][model = Wheel /\ model' = Unknown => unheard' > MaxErrors]_vars

\* On a line that is clean from some time on the wheel is found, also when it
\* was taken for another model before, and stays found without an error.
WheelFound == <>[](line = "clean") => <>[](model = Wheel /\ errors = 0)

\* ... what the host is told is then where the wheel is ...
PositionReaches ==
  \A value \in Samples :
    <>[](line = "clean" /\ position = value) => <>[](joystick = Decoded(value))

\* ... and the device state is known as it is, old answers notwithstanding.
StateReaches ==
  \A i \in Ids : <>[](line = "clean" /\ mood = i) => <>[](oldState = i)

\* A wheel that is unplugged is given up.  A clock line that is held low is not
\* noticed: the last packet is decoded again on every pass.
UnpluggedNoticed == <>[](line = "unplugged") => <>[](model = Unknown)

=============================================================================
