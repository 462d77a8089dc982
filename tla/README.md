# A TLA+ model of sw-forcefeedback

`ffb-lufa/LUFA-ffb` is the firmware of an AVR board (ATmega32U4) that makes an
old game-port wheel, the SideWinder Force Feedback Wheel, look like a USB
force-feedback device.  The host talks USB PID (HID reports); the wheel gets
MIDI messages and answers over the game port.  This directory models the part
of the firmware that decides things, checks it with TLC on small instances and
proves the central results with TLAPS for all sizes.

All paths below are relative to `src/ffb-lufa/LUFA-ffb/`.

## The system

    host --control endpoint 0--> EVENT_USB_Device_ControlRequest   (interrupt)
         --bus events----------> EVENT_USB_Device_ConfigurationChanged, ...
         --OUT endpoint--------> ffb_Task -> ffb_handleSetReport   (main loop)
         <--IN endpoint--------- PidStateChanged, HID_Device_USBTask
    ffb.c  -- DRV_CALL --> ffb-wheel.c --FfbSendByte--> wheel (MIDI, 31250 baud)
    wheel  -- game port --> Sidewinder.h/SwFFB.h --> joystick report, DeviceStateChanged

| component | state | operations | talks to |
|---|---|---|---|
| effect pool (`ffb.c`, `struct memPool` in `ffb.h`) | 12 effect blocks (0 and 1 unused), 24 parameter blocks, bit map `used[3]`, `slotsAvail`, `nextID` | create, free one, free all, `ffb_init` | control requests call create in the interrupt; everything else in the main loop |
| playback (`ffb.c`) | per effect `state`, `duration`, `startStopTime` | start, solo, stop, stop all, `updateEffectStates` on each pass, device control | the driver's start/stop/free; `changePidStateOnEffect` |
| PID state report (`ffb.c`, `lufa-iface.c`) | `state`, `deviceStateAndID`, `pidState`, `previousPidState`; the IN bank; the selected endpoint | `PidStateChanged`, `changePidStateOnEffect`, `DeviceStateChanged`, device control | shares the IN endpoint with the joystick report |
| wheel driver, parameters (`ffb-wheel.c`) | effect block and its two parameter blocks, one message buffer | Set Effect/Envelope/Periodic/Ramp/Constant/Condition | uploads (f0) and modifications (f1) to the wheel |
| wheel driver, messages (`ffb-wheel.c`, `ffb.c`) | none | conversions, `modifyAttribute`, `ffb_sendSysEx`, `wheel_EffectOp` | MIDI line |
| report parser (`lufa-iface.c`, `ffb_Task`) | the buffer, `total_read`, `wait_for_n`; the OUT bank; the selected endpoint | read an id, read the rest, over a second packet if need be, dispatch, hand the bank back | the handlers above, which may select the IN endpoint |
| control requests (`lufa-iface.c`, `ffb.c`) | `blockLoadReport` | Create New Effect, Block Load, Pool | the pool, in the interrupt |
| USB connection (`lufa-iface.c`) | `USB_DeviceState`, `usb_configOnce`, `devConnected` | connect, configure, and once more in the first pass of `ffb_Task`, reset, disconnect | empties the endpoints under the parser |
| descriptors (`Descriptors.c`) | constant | | say how the host lays out each report, which `ffb.h` says again for the firmware |
| game-port link (`Sidewinder.h`, `SwFFB.h`, `GamePort.h`, `Buffer.h`) | model, error count, packet buffer | read a packet, decode, guess the model, re-initialise | joystick report, `connectDevice`, `DeviceStateChanged` |
| joystick report (`lufa-iface.c`) | `joystick_state`, written by the link | `Joystick_CreateReport` | IN endpoint |
| Force Feedback Pro driver (`ffb-pro.c`) | none of its own | as the wheel driver | not compiled (`WHEEL_ONLY_DRIVER`) |
| debug console, board support, LUFA | | | |

What is hard here: the control endpoint is served in an interrupt while the
main loop works on the same pool, without any lock; a create may overtake
reports that wait in the OUT endpoint; one field, `startStopTime`, means four
things; `PidStateChanged` drops what it cannot send and changes the selected
endpoint under its callers; one field, `changedParams`, and one message buffer
serve all effects and all kinds of changes; values lose bits on their way into
seven-bit bytes.  `PROJECT.json` lists these hazards one by one with the
properties that would catch them.  On the game port a packet is read by waiting for
clock edges: noise, silence and an unplugged cable all look like packets of some
size, or like the packet before.  On USB, packets cut reports in two, the next
packet may be late, a handler may leave another endpoint selected, the first pass
configures the device again, and the bus may go away between any two of these.

What makes each component correct: *pool*: every slot is counted, the host's
identifiers and the slots agree, nobody is given a slot in use, no two effects
share a parameter block; *playback*: what plays is what was asked for, as long
as it was asked for; *state report*: what the host was told last is known, and a
difference is sent; *parameters*: what the wheel has is what the host set last;
*messages*: they are MIDI, and they carry the value; *link*: a wheel that can be
heard is found, kept and followed, and what the firmware is told of it is what was
read last; *joystick report*: positions arrive in range and in order; *parser*:
every report is handled once, whole, in order, and with its fields where the
structures of `ffb.h` have them; *control requests*: the answer is about the host's
last create.

## Modules

| module | models | how it corresponds to the code |
|---|---|---|
| `EffectSlots` | what the pool promises the host | abstract: grant, release, clear, hang |
| `FfbPool` | the pool, one action per request | `estate`, `pblocks`, `used`, `slotsAvail`, `nextID` are the fields of `struct memPool`; `halted` is the `error_loop` code the firmware blinks for ever; `held` is what the host believes it owns. `ClearedBit` is the arithmetic of `freeParamBlock`, wrong index included |
| `FfbIsr` | the pool used from interrupt and main loop | EXTENDS `FfbPool`; the interrupt runs a create as a whole, `freeEffect`, `freeAllEffects` and `ffb_init` are followed load by load and store by store (`pc`, `register`), with the OUT endpoint (`bank`) before them; only the `memset` of `ffb_init` is one step |
| `FfbIsrAtomic` | refinement of `FfbPool` by `FfbIsr` | history variables: `rested`, the pool as it was when no report was being handled, which is what is mapped to `FfbPool`; `trust`, whether the host has created without waiting, and whether a reset has been asked for since |
| `FfbPlayback` | what plays, and when it ends | `eff[e]` is the effect block; its field `wheel` is what the wheel was told. `asked`, `began` and `moved` are history |
| `PidStatus` | the state report | `place` follows `loop()` so that the host may poll between any two attempts to send; `selected` is the endpoint register, `left` what is left of a packet |
| `FfbWheel` | parameters of one effect on their way to the wheel | `block` is the effect block with its parameter blocks, `msg` the shared message buffer, `wheel` what the wheel has; `fresh`, `given`, `aimed` (the direction this owner enabled last) and `overtaken` (a constant's new envelope was followed by another change before it was passed on) are history |
| `MidiConversion` | the pure conversions | operators with the widths of the C types |
| `Sums` | sums over a sequence | the loop of `ffb_sendSysEx`; a recursive function, which the layouts and the stream of `UsbReports` use too |
| `WheelMessages` | bytes of f0, f1, f2 and f3 messages | EXTENDS `MidiConversion` and `Sums`; one step composes the messages for one report, or the set-up of a device control, for effects of every type, with an envelope or with the default one |
| `JoystickReport` | from the bits of a wheel packet to the HID report | operators with the widths of the C types: the wheel's decoder and `Joystick_CreateReport` |
| `ReportLayout` | every report, twice | one layout per report from the descriptor's items (`Described...`) and one from the structure (`Stored...`): fields with their widths in bits |
| `UsbReports` | parser, control requests, connection | EXTENDS `ReportLayout`; the stream of bytes is the reports `sent` since the last configuration, `at`, `start`, `need`, `total` are positions in it and the locals of `ffb_Task`; `place` is where `ffb_Task` is, so that control requests and bus events may come there; `done`, `disturbed`, `outcome` are history |
| `SidewinderLink` | the game-port link | EXTENDS `JoystickReport`; `packet`, `model`, `errors`, `id` are `m_packet`, `m_model`, `m_errors`, `m_deviceStateAndID`; `place` is where `update()` is between two packets, so that the line may change there; a Device Control Reset may come between two passes; `line`, `position`, `mood` are the wheel and its cable; `unheard` and `wiped` (a reset has cleared `deviceStateAndID` and nothing has been put there since) are history |
| `NatLemmas`, `FfbPoolProofs` (handlers, then instructions), `FfbPlaybackProofs`, `FfbWheelProofs`, `WheelMessagesProofs`, `PidStatusProofs`, `UsbReportsProofs`, `SidewinderLinkProofs` | proofs | see below |

`FfbPlayback` and `FfbWheel` do not repeat the pool: the first keeps only that a
create takes the lowest free slot (proved in `FfbPoolProofs`), the second assumes
an effect's parameter blocks to be its own, which is what `pool_own_blocks`
refutes for the code as it is; its results hold as long as no block is shared.
`UsbReports` leaves open which slot a create gets (`FfbPool`) and what a handler
does, but for two things: an effect operation or a device control may select the IN
endpoint, and a device control may wipe the answer to a create.  What is then read
from the wrong endpoint, `PidStatus` follows.

Operators called "Mutant of ..." in a module are plausible slips of the code:
each replaces one definition, and the property it is listed with in
`PROJECT.json` then fails.  They show that the properties can fail.

## Runs

| run | asks | bounds, and why they do |
|---|---|---|
| `pool_safety` | accounts, cursor, host's view, own two blocks, and refinement of `EffectSlots` | 3 usable slots, 10 blocks in two bytes of 5 bits: pool full, holes below and above `nextID`, blocks lost by the wrong index, both error loops are all reached; the proofs cover every size |
| `pool_own_blocks` (violated) | may two live effects share a parameter block? | the code's own sizes |
| `isr_pool` | do the split handlers implement `FfbPool` for a host that awaits each report; and after creates that did not wait, from the next awaited reset on? | 2 slots, every interleaving of the main loop's steps, the host's writes and the interrupt. `SlotBound` = 4: no free is read once `slotsAvail` has drifted to twice the slots. One hasty create between two resets: more spoil nothing new, and the types are proved for any number |
| `isr_pool_exceeded` (violated) | is a create beyond `MAX_EFFECTS - 2` ever served? | 2 slots suffice |
| `play_commands` | Playing bit against commands, only uploaded effects play, only what was asked for plays, solo, not too short, not too long, delayed starts | 2 effects, 3 ms, durations below, above and without end, delays 0 and 1: start, delayed start, expiry and restart fit into 3 ms. `LostBit` and `InfiniteFrom` scale 128 and 0x7FFF down. The clock does not wrap in this run |
| `play_stop_delayed` (violated) | is a stop the last word? | 1 effect |
| `pid_report` | can `previousPidState` be trusted, when is the play bit stale, does `loop()` always come round? | 2 effects, 1 report per packet, 2 states of the wheel; the safety part is proved for all sizes |
| `pid_wrong_endpoint` (violated) | is a packet read to its end? | 2 reports per packet |
| `usb_reports` | is every report handled once, whole, in order; are its fields where both sides have them; does the host get the answer to its last create; is every report handled in the end? | 3 reports between two configurations, of four kinds: Set Effect (16 bytes, so that two of them and anything else do not fit into a packet and one is cut), Effect Operation (may select the IN endpoint), Device Control (may reset), and the two bytes of a driver that are no report. Packets and `buf` have the code's 32 bytes. One identifier: the index in an answer is old or new |
| `wheel_attributes` | do force, envelope, direction and duration reach the wheel? | two values each (so that old and new differ), three durations, all effect types, one slot through any number of owners, with and without an envelope and an enabled direction. `ShapeReaches` compares the direction with what this owner enabled, not with the block's, and excepts owners that enable none and the constant's overtaken envelope |
| `link_wheel` | is the device state known, also after a Device Control Reset, is a found model connected, do reports keep order; is a wheel that is heard kept; is it found and followed when the line is clean from some time on; is an unplugged one given up? | 2 positions (the ends of all three axes), 2 answers (without and with both bits), noise of 6 pulses (an answer), 11 (the wheel) and 15 (another model); 1 error tolerated instead of 7 and a poll after at most 1 pass instead of 127: each counter is used at both its ends; the safety part is proved for all sizes |
| `msg_bytes` | are the messages MIDI with right checksums, does more stay more? | gains 0, 64, 127, 128 (the first that wraps) and 255; levels 0, 64, 127; times 127 and 128 (converted to 127 and 0), durations 1000 and 32767 (the first that is infinite); periods and coefficients at and between the saturation points of their conversions; ramp ends -128, -1, 127; both signs of a constant force; an envelope or none. More must stay more wherever the stronger request fits seven bits (`Fits`), which is every one up to a gain of 127 and some above |

Each of the four violated runs is a disagreement between the code and its own
comments; `PROJECT.json` quotes the lines.

`CHECK_DEADLOCK FALSE` appears where `error_loop` stops the firmware or where the
bounded clock runs out.

### Fairness

`FfbPlayback` assumes weak fairness of `Loop` and of `Tick`: `loop()` is the
Arduino main loop and calls `updateEffectStates` on each pass while the device is
configured, and `millis()` is driven by a timer.  `PidStatus` assumes weak
fairness of `Step`, a step of `loop()`, and nothing of the host: `LoopTurns` must
hold even if the host never polls again.  `SidewinderLink`
assumes weak fairness of `Update`: `loop()` calls `joystick.update()` whenever 8 ms
have passed, and each packet it reads ends with a timeout at the latest.  The
cable and the wheel owe nothing; what they must do for a property is its premise
(`<>[](line = "clean")`).  `millis()` enters as the bound `PollEvery` on the passes
between two polls.  `UsbReports` assumes weak fairness of `Step`, a step of
`ffb_Task`, whose only wait (for the next packet) the library ends after 100 ms, and
of `HostPacket`: a host controller serves the OUT endpoint at its polling interval
as long as there is something to send.  That the wheel is found and the bus stays
configured is the premise of `EveryReportHandled`.  Nothing else has fairness.

## Proofs

TLAPS checks, for every `MaxEffects > 2` and every `ByteWidth` that divides
`2 * MaxEffects` (`PoolAssumption`):

* `PoolInvariant`, `PoolSafety`: `Spec => []PoolInv`.  `PoolInv` is the conjunction
  of the five checked invariants, none of which is inductive alone.  A create
  trusts `slotsAvail` and writes to `nextID`: `SlotAccounting` says that a positive
  count means a free slot, `NextIsLowestFree` that `nextID` is the lowest one, so
  the written slot exists and is free (`NextSlotIsFree`); `ScanAfterCreate` then
  restores the cursor.  Freeing needs `HostView`: an identifier the host holds is
  live, so that the count goes up by exactly the number of slots that become free.
  The count is a cardinality, handled with the library's facts on finite sets
  (`FS_Union`, `FS_RemoveElement`, `FS_Interval`).  `BlocksOfLiveEffects` does not
  need the bit map to be right, which is just as well.
* `PoolImplementsSlots`: every step of `FfbPool` is a step of `EffectSlots` or
  stutters, under the mapping live effects / held identifiers / halted.

and, for every set of effects, packet length and behaviour of the wheel
(`PidAssumption`):

* `PidInvariant`, `PidSafety`: `Spec => []PidInv`, with the strengthening `Reported`
  (what `previousPidState` holds was sent, or it is the zeroes of `ffb_init`, which
  no report equals because a report has an id).

and, for all positions, answers, kinds of noise, limits of errors and rates of polling
(`LinkAssumption`):

* `LinkInvariant`, `LinkSafety`, `LinkKeepsWheel`: `Spec => []LinkInv`, the safety
  properties of `link_wheel` and its action property `KeptIfHeard`.  Two
  strengthenings are needed.  `AnswerIsWord`: a packet of six pulses holds a word,
  also one that is read again from a silent line.  `ErrorsExplained`: the errors
  counted against a wheel are at most the passes since it was heard, because a
  packet from a clean line decodes (`CleanDecodes`); at the limit there have been
  `MaxErrors + 1` of them.  `MarkedBits` says what setting and clearing bits of a
  word by addition does.
* `ReportIsOrdered`: no field of the joystick report overflows, and all are
  monotonic; `LinkSafety` uses it for whatever the link has decoded (`DecodedType`).

for every `PoolAssumption` pool, with the interrupt between any two instructions
(second part of `FfbPoolProofs`):

* `IsrInvariant`, `IsrTypes`.  `IsrInv` says where the main loop is in which handler
  (`PlaceInv`), and how far `slotsAvail` has drifted above the number of slots: a
  create that comes between the load and the store of `slotsAvail` is lost to it.
  The bound is not inductive as such; what is, is `slotsAvail + Due`, where `Due` are
  the increments this handler has still to make (`DriftInv`).
* `IsrImplementsPool`: `AtomicSpec => Atomic!Spec`.  The handlers' single step of
  `FfbPool` is taken when the handler returns; until then the invariant has to
  say, for each instruction, which part of that step has been done since `rested`
  (`FreedPartly`, `ResetPartly`).  `nextID` is the interesting part: rewinding it once
  for each freed effect gives the least of all of them (`MinWith`).  That the pool may
  be given a step of `FfbPool` at all needs its soundness (`Sound`, the accounts
  of `PoolInv`) of `rested`.  After a hasty create the mapped pool is the empty one,
  a `DeviceReset` step of `FfbPool`; `Regaining` says what the next awaited reset has
  restored at each of its steps, and that nothing the endpoint holds behind it
  spoils it again.

for every set of effects, durations and delays and a clock of any width
(`PlaybackAssumption`, `FfbPlaybackProofs`):

* `PlayInvariant`, `PlaySafety`: `TypeOK`, `WheelAgrees`, `PlaysOnlyLoaded`,
  `PlaysOnlyAsked`.  The strengthening is per effect (`Sound`): the Playing bit is what
  the wheel was told, and whatever plays, or is armed to start, has been sent to the
  device (`Started`, `Sent`).  The proof does the functions of `ffb.c` once for one
  block, then lifts them to all effects (`Effectwise`).
* `PlaySoloAlone`, from the same invariant: `StopOf` leaves no block playing.
* `PlayNotCutShort`: `EndsNotEarly`, also where the clock wraps.  `Timed`: unless a start
  delay has overwritten it, `startStopTime` is what the clock showed when the effect
  began.  `ClockDistance`: of two readings of the clock, the later one shows at most
  the time that has gone by more than the earlier, so a comparison whose right side
  has not wrapped comes true no earlier than it should.  One that has wrapped comes
  true at once (see the divergences): that is the exception `EndWraps` of the
  property, which for the constants of `play_commands` never applies.

for all parameters, gains and durations (`WheelAssumption`, `FfbWheelProofs`):

* `WheelInvariant`, `WheelSafety`: the four checked invariants.  Four strengthenings:
  `Noticed`, that `changedParams` is not 0 from an owner's first parameters on, or a
  force would be taken for unchanged; `Plain`, that an effect in the wheel that
  never had an envelope has the default one, also when changes wait; `Aimed`, that the
  block holds the direction this owner enabled, if it enabled any; and `Kept`, that an
  envelope that waits for the next Set Effect is what `changedParams` names, unless a
  magnitude or a duration has overtaken it.

for all values of the report fields (`MessageAssumption`, `WheelMessagesProofs`):

* `AmplitudeFaithful`, `ForceFaithful`, for all gains from 0 to 255: a level stays a
  level, and keeps the order of levels and gains if the stronger one fits seven bits;
  up to a gain of 127 it always does, is at most what was asked for, and exact at 127.
  `TimeBytes`: no time that is converted puts a bit 7 on the wire, times
  below 128 arrive, longer ones lose bit 7 and nothing else.
* `MessagesSafety`: `TypeOK` and `ValidMessages`.  The invariant behind it, `WireInv`, says
  what is on the line after each report.  The rest is about one message (`Good`,
  `CleanBytes`): `ModifyIs` for modifications; `SysExIs` for uploads, where cutting the
  data to seven bits leaves their sum alone modulo 128 (`MaskedSum`), so that a
  checksum of the unmasked data is right; `EffectOpIs` for operations, bit by bit
  (`XorBits`).  The uploads are put together byte by byte (`Run`), because where the
  amplitude ends up in them matters for the next theorem.
* `Louder`: `LouderNotSofter`, for all gains the descriptor allows.  A request that does
  not fit seven bits is excepted by the property: the code wraps it (see the
  divergences).  `Tells` says that a set of messages names one strength only, in the
  upload or in the modification with its address; `StrengthIs` that it is the one read.

for any number of reports between two configurations, of any kinds but Custom Force
Data, any size of packets and of `buf`, and any way of cutting the reports into
packets (`UsbAssumption`, `NoCustomForceData`, `UsbReportsProofs`):

* `UsbInvariant`, `UsbSafety`: `TypeOK`, `HandledAsWritten`, `AnswersLastCreate`.  Three
  strengthenings, none of which a run checks as a property.  `InStep`: unless the
  stream was broken, `ffb_Task` is at the boundary of the first report not dealt with,
  or inside it with exactly its remaining bytes still to read.  `Fits`: `total_read`
  counts one report, which fits into `buf` (a longer one ends in `error_loop(3)`).
  `Answered`: while the host may rely on the answer to its last create, nothing it
  has sent since will reset the device.  `SameLayouts` gives the lengths: what the
  host sends for a report is what the firmware waits for.
* `NoCustomForceData` is the shipped configuration.  With `SUPPORT_CUSTOM_FORCE` the
  descriptor gives that report two bytes for its offset, `ffb.h` one, and the parser
  would be out of step after it.

`NatLemmas` proves that `Min` of a nonempty set of naturals is its least element, on
which all scans of `ffb.c` rest.  `CountTo` makes it a principle of induction: a set
that holds 0, and `n + 1` with every `n` below a bound, holds everything up to the
bound, because the least number it lacks would be the successor of one it has.
With it the recursive function `SumsOf` can be reasoned about (`SumsAdd`, `SumsOfNat`,
`SumsGrow`, `SumsOfPrefix`), which checksums and positions in the stream need.

Only model-checked: liveness and fairness, which the installed provers do not handle:
`EveryReportHandled`, `LoopTurns`, `ExpiredEnds`, `DelayedStartResolves`, `WheelFound`,
`PositionReaches`, `StateReaches`, `UnpluggedNoticed`.  Every safety property of the
passing runs is proved, those of the parser for `NoCustomForceData`.

## Assumptions about what is outside

* The host names only identifiers it was given and has not freed (`FfbPool`),
  starts only effects it has sent Set Effect for (`FfbPlayback`), and sends whole
  reports, in packets that hold some of them or are full (`UsbReports`).  In
  `isr_pool` it may fail to await a report before it creates, once between two resets.
* A Set Effect names the type its effect was created with (`FfbWheel`): the code
  composes the message for the type in the report (`ffb-wheel.c:861-862`), with the
  default envelope of the type in the block.
* No create comes in the middle of the `memset` of `ffb_init` (`ffb.c:887`): `FfbIsr`
  takes it as one step, though an interrupt could come between two bytes.
* The wheel gives an uploaded effect the number the adapter expects (an upload
  carries none), plays what it is told to start and forgets what it is told to free.
* The library's `Endpoint_Read_Stream_LE` waits for the next packet when the bank is
  empty, gives up after 100 ms or when the device is no longer configured, and
  configuring an endpoint empties it.
* The USB controller, with the IN endpoint selected, returns bytes that are no
  report and takes `Endpoint_ClearOUT` as handing over the IN bank.
* A clean line delivers the wheel's packet, and at the second trigger its device
  state ("for the wheel you just have to read a second time"); noise is any number
  of pulses, with the check bits right or wrong.
* `IdleCount` stays 0: the host does not set an idle rate.

## Divergences seen while modelling

Checked by a run: the four above.  Read off the models, without a run of their own:

* a create that finds the pool full ends in `error_loop(6)` (`ffb.c:225`), so the
  answer "2=Full" (`ffb.h:268`, `ffb.c:800`) is never given; lost parameter blocks
  make a create end in `error_loop(7)` while slots are free;
* "all effects" of Block Free (`ffb.c:338`) are those that are exactly Allocated;
* an operation on index 0xFF, "All effects" (`ffb.c:358`), reaches none;
* a Set Effect with a start delay moves the end of an effect that plays
  (`ffb-wheel.c:906`), and the wrap of `millis()` ends effects at once (`ffb.c:136`);
* a change of the state report that cannot be sent is overwritten, or waits for
  ever behind joystick reports (`lufa-iface.c:204`: "a report MUST be sent"); pause
  and the override switch are not reported; Device Control 1 and 2 are exchanged
  (`ffb.c:604` against `612-618`);
* an upload carries an infinite duration (`ffb-wheel.c:826` against the comment at
  `854`); a new envelope of a constant force is lost when its magnitude or its duration changes
  before the next Set Effect (`733`), and does not follow a new gain; a slot's next
  owner inherits the enabled direction until it enables one itself.  `ShapeReaches`
  makes these exceptions;
* `calcAmplitude` is written for "a maximum <gain> of 127" (`ffb.c:508`), but the gain
  of a Set Effect goes to 255 (`Descriptors.c:172-177`) and nothing caps it
  (`ffb-wheel.c:852`): what does not fit seven bits wraps (`ffb.c:515`), so that the level
  127 becomes 0 at a gain of 128.  `LouderNotSofter` excepts it;
* a ramp over more
  than half the range, a period below 150 and the default fade of a constant put
  bytes above 127 into modifications, and dropping bit 7 turns a duration of 128 ms
  into an infinite one (`ffb.c:483`).

* a clock line that stays low after a good packet is not noticed, the old position
  is decoded again on every pass (`Sidewinder.h:179`);
* a Device Control Reset clears `deviceStateAndID` (`ffb.c:887`, called at `629`), but not
  what `SwFFB` and `DeviceStateChanged` remember of the wheel, so that the Paused and
  override bits stay clear until the wheel's word changes.  `KnowsDeviceState` excepts it;
* `connectDevice` replaces the Paused and override bits that `DeviceStateChanged`
  has just set (`lufa-iface.c:293`), and no reader of `deviceStateAndID` exists;
  `devConnected` is never cleared, `SentToDevice` survives a new plug;
* full left is reported as steering -128 (`lufa-iface.c:138`) where the descriptor
  and `lufa-iface.h:81` have -127; before the first packet `joystick_state` is zero,
  which reads as both pedals pressed.

* two creates inside one `freeEffect`, after the state is cleared and before `nextID`
  is compared (`ffb.c:267-269`): the first takes a lower hole and scans its way to the
  freed slot, the second takes that slot, and `freeEffect` then moves `nextID` back to
  it, so that the next create is given it again.  It takes three slots and a host that
  does not wait;
* the PID state report is described with 10 bytes, a flag in each byte and the play
  bit in bit 0 (`Descriptors.c:577`, an 8 with the comment "(01)"); 3 bytes are sent,
  the flags in one, the play bit in bit 7 (`ffb.h:84`: "This mirrors the layout
  described to the host").  With custom forces, their data has 16 bytes in the
  descriptor and 15 in `ffb.h`.  `LayoutsAgree` excepts these two;
* the first pass of `ffb_Task` configures the endpoints again (`lufa-iface.c:711`) and
  empties a bank the host may have filled by then;
* a report whose second packet comes later than 100 ms is handled with what the
  buffer holds from earlier reports; the stream is read out of step afterwards;
* an unknown report id that is set as a feature makes `out_len` an uninitialised
  value (`lufa-iface.c:548`); an upload carries no effect index, the adapter relies on
  the wheel's own numbering (`ffb.c:768`); the help of the debug console calls 0x0D
  the id of Device Gain (`debug.c:356`), which is 10 (`ffb.c:536`).

The properties of the passing runs state what remains true around them: the
exception each of them makes is one of these.

## Not modelled

* The bit timing of the game port: analogue.  The packets of other Sidewinder models
  are told apart by size and check, their contents are not.
* The other joystick classes (`HidJoystick.h`, `AnalogJoystick.h`, ...): not used by
  the shipped program.
* The delays of the wheel's set-up, and the adjustment of its force gain and centre
  spring (`Ffbwheel_adjustForceGain`, `Ffbwheel_adjustCenterSpring`): only builds
  with a debug option use them.
* `ffb-pro.c`: not compiled in the shipped configuration (`WHEEL_ONLY_DRIVER`,
  `board.h`).
* The debug console: serial input and formatting, only in builds with
  `ENABLE_SERIAL_DEBUG_CMDS`; what it can send as a report is what the host can.
* Of the descriptors, everything but the layouts of the reports and their logical
  ranges: usages, units, device and configuration descriptors are tables no code
  of the firmware reads.
* What a feature report with an unknown id answers: an uninitialised length.
* Board support: registers and pins.  LUFA: a library that is not in the repository.

## Plan

1. (done) Pool with its abstract specification and proofs; pool from two contexts;
   playback; state report with proofs; wheel parameters; messages.
2. (done) `SidewinderLink` with `JoystickReport` and proofs: model guess, error
   counting and re-initialisation, stale packets, device state, joystick report.
3. (done) `ReportLayout` and `UsbReports`: lengths, driver pairs, reports over two
   packets, the overrun stop, control requests, connection; `PidStatus` follows what
   is read when another endpoint is selected.
4. (done) Proofs: types, drift and the refinement of `FfbIsr`; the safety of
   `FfbPlayback` and of `FfbWheel`; ranges and order of the conversions; the safety of
   `UsbReports` for any number of reports, and of `WheelMessages` for all values.
5. Left: an abstract specification of the parser (a queue of reports that `UsbReports`
   implements); the custom force reports, which no driver handles.
