----------------------------- MODULE PidStatus -----------------------------
(***************************************************************************)
(* The PID state report: who changes gDevice.pidState (ffb.c), and         *)
(* PidStateChanged (lufa-iface.c), which sends it through an endpoint with *)
(* one bank that the joystick reports of HID_Device_USBTask share.         *)
(*                                                                         *)
(* loop() is followed step by step, each step with at most one attempt to  *)
(* send, because the host polls the endpoint whenever it likes.  When an   *)
(* effect's duration or start delay ends is left open (FfbPlayback decides *)
(* that); IdleCount is 0 for ever, so only a changed report is sent.       *)
(*                                                                         *)
(* PidStateChanged selects the IN endpoint and leaves it selected.  What   *)
(* the USB controller makes of the reads and of the ClearOUT that ffb_Task *)
(* then means for the OUT endpoint is external: here it reads bytes that   *)
(* are no report and hands the IN bank over as it is.                      *)
(***************************************************************************)
EXTENDS Naturals, FiniteSetsExt

CONSTANTS
  Effects,      \* the effect block indices in use, a subset of 2 .. MAX_EFFECTS - 1
  MaxReports,   \* bound: reports in one packet of the OUT endpoint
  WheelStates   \* bound: what the wheel may answer, sets of WheelBits

StateBits == {"Paused", "ActuatorsEnabled", "ActuatorPower"}
WheelBits == {"ActuatorOverride", "Paused"}

ASSUME PidAssumption ==
  Effects \subseteq Nat \ {0, 1} /\ MaxReports \in Nat /\ WheelStates \subseteq SUBSET WheelBits

NoEffect == 0

Zero == [id |-> FALSE, status |-> {}, eid |-> NoEffect, play |-> FALSE]

Places == {"hid", "update", "due", "pid", "read", "stopping", "wheel"}

\* What follows stopAllEffects: the rest of the device control that called
\* it, or the solo start of an effect.
StopCallers == {"stopAll", "reset", "pause"} \X {NoEffect} \cup {"solo"} \X Effects
Nobody == <<"nobody", NoEffect>>

VARIABLES
  state,      \* gDevice.state
  wheel,      \* the PidState bits kept in gDevice.deviceStateAndID
  oldState,   \* DeviceStateChanged's static: the wheel state seen last
  pid,        \* gDevice.pidState
  previous,   \* gDevice.previousPidState
  playing,    \* the effects with the Playing bit
  endpoint,   \* the bank of the IN endpoint: "free" or "full"
  selected,   \* the endpoint selected in the controller: "in" or "out"
  place,      \* where loop() is
  todo,       \* the effects a loop over effect blocks has still to visit
  caller,     \* who called stopAllEffects
  left,       \* reports left in the packet of the OUT endpoint
  told,       \* history: the PID report written to the endpoint last
  freed       \* history: freed while playing, and not reported on since

dev == <<state, wheel, oldState>>
report == <<pid, previous, endpoint, told, selected>>
loop == <<place, todo, caller, left>>
vars == <<dev, report, playing, loop, freed>>

\* ffb_init: memset, then the report id of pidState alone.
DeviceInit ==
  /\ state' = {"ActuatorsEnabled", "ActuatorPower"} /\ wheel' = {} /\ playing' = {}
  /\ pid' = [Zero EXCEPT !.id = TRUE] /\ previous' = Zero

Init ==
  /\ state = {"ActuatorsEnabled", "ActuatorPower"} /\ wheel = {} /\ oldState = {}
  /\ pid = [Zero EXCEPT !.id = TRUE] /\ previous = Zero /\ told = Zero
  /\ playing = {} /\ endpoint = "free" /\ selected = "in"
  /\ place = "hid" /\ todo = {} /\ caller = Nobody /\ left = 0 /\ freed = {}

\* Mutants of Send: the report counts as sent though the endpoint was busy;
\* the report waits for the endpoint.
SendForgetsBusy(p) ==
  IF p = previous THEN UNCHANGED <<previous, endpoint, told>>
  ELSE /\ previous' = p /\ endpoint' = "full"
       /\ told' = IF endpoint = "free" THEN p ELSE told

SendWaits(p) ==
  /\ endpoint = "free"
  /\ IF p = previous THEN UNCHANGED <<previous, endpoint, told>>
     ELSE previous' = p /\ told' = p /\ endpoint' = "full"

\* PidStateChanged, with pidState = p.
Send(p) ==
  IF endpoint = "free" /\ p # previous
  THEN previous' = p /\ told' = p /\ endpoint' = "full"
  ELSE UNCHANGED <<previous, endpoint, told>>

\* Mutant of StatusOf: the bits read from the wheel are reported.
StatusOfWheel == state \cup wheel

\* The status byte that changePidStateOnEffect stores.
StatusOf == state

\* Mutant of ChangeOn: the play bit is what it was before the change.
ChangeOnEarly(e) ==
  /\ pid' = [id |-> TRUE, status |-> StatusOf, eid |-> e, play |-> e \in playing]
  /\ Send(pid') /\ selected' = "in"
  /\ freed' = freed \ {e}

\* changePidStateOnEffect, once playing' is known.
ChangeOn(e) ==
  /\ pid' = [id |-> TRUE, status |-> StatusOf, eid |-> e, play |-> e \in playing']
  /\ Send(pid') /\ selected' = "in"
  /\ freed' = freed \ {e}

\* startEffect of an effect that has no start delay to wait for.
StartEffect(e) ==
  IF e \in playing THEN UNCHANGED <<playing, report, freed>>
  ELSE playing' = playing \cup {e} /\ ChangeOn(e)

StopEffect(e) ==
  IF e \in playing THEN playing' = playing \ {e} /\ ChangeOn(e)
  ELSE UNCHANGED <<playing, report, freed>>

-----------------------------------------------------------------------------
(***************************************************************************)
(* One pass of loop(): HID_Device_USBTask, then ffb_Task.                  *)
(***************************************************************************)

\* HID_Device_USBTask: the callback asks for a joystick report on every
\* frame, so the endpoint is filled whenever it is free.
HidTask ==
  /\ place = "hid"
  /\ endpoint' = "full" /\ selected' = "in"
  /\ place' = "update" /\ todo' = Effects
  /\ UNCHANGED <<dev, pid, previous, told, playing, caller, left, freed>>

\* updateEffectStates, its turn for effect Min(todo): nothing is due.
UpdateNothing ==
  /\ place = "update" /\ todo # {}
  /\ todo' = todo \ {Min(todo)}
  /\ UNCHANGED <<dev, report, playing, place, caller, left, freed>>

\* Its duration is over.  A start delay of the same effect may be over too:
\* then the turn goes on with it.
UpdateEnds ==
  /\ place = "update" /\ todo # {} /\ Min(todo) \in playing
  /\ StopEffect(Min(todo))
  /\ todo' \in {todo, todo \ {Min(todo)}}
  /\ UNCHANGED <<dev, place, caller, left>>

\* Its start delay is over: start it, then try to send once more.
UpdateDue ==
  /\ place = "update" /\ todo # {}
  /\ StartEffect(Min(todo))
  /\ todo' = todo \ {Min(todo)} /\ place' = "due"
  /\ UNCHANGED <<dev, caller, left>>

SendAgain ==
  /\ place = "due"
  /\ Send(pid) /\ selected' = "in"
  /\ place' = "update"
  /\ UNCHANGED <<dev, pid, playing, todo, caller, left, freed>>

UpdateDone ==
  /\ place = "update" /\ todo = {}
  /\ place' = "pid"
  /\ UNCHANGED <<dev, report, playing, todo, caller, left, freed>>

\* ffb_Task: PidStateChanged, then the OUT endpoint, with what is left of a
\* packet or a new one.
TaskSends ==
  /\ place = "pid"
  /\ Send(pid) /\ selected' = "out"
  /\ place' = "read" /\ left' \in IF left > 0 THEN {left} ELSE 0 .. MaxReports
  /\ UNCHANGED <<dev, pid, playing, todo, caller, freed>>

\* All reports are read and the OUT endpoint is cleared.
PacketDone ==
  /\ place = "read" /\ left = 0 /\ selected = "out"
  /\ place' = "wheel"
  /\ UNCHANGED <<dev, report, playing, todo, caller, left, freed>>

\* A handler has called PidStateChanged: the loop over the packet and the
\* ClearOUT behind it go to the IN endpoint, the rest of the packet stays.
FinishOnIn ==
  /\ place = "read" /\ selected = "in"
  /\ endpoint' = "full" /\ place' = "wheel"
  /\ UNCHANGED <<dev, pid, previous, told, selected, playing, todo, caller, left, freed>>

\* The next report of the packet.
Reads == place = "read" /\ selected = "out" /\ left > 0 /\ left' = left - 1

OpStart(e) ==
  /\ Reads
  /\ StartEffect(e)
  /\ UNCHANGED <<dev, place, todo, caller>>

OpStop(e) ==
  /\ Reads
  /\ StopEffect(e)
  /\ UNCHANGED <<dev, place, todo, caller>>

\* freeEffect: the effect's state becomes Free and no report is made of it.
BlockFree(e) ==
  /\ Reads
  /\ playing' = playing \ {e}
  /\ freed' = IF e \in playing THEN freed \cup {e} ELSE freed
  /\ UNCHANGED <<dev, report, place, todo, caller>>

\* Device Control 1, which the code takes for "disable actuators".
Control1 ==
  /\ Reads
  /\ state' = state \ {"ActuatorsEnabled"}
  /\ UNCHANGED <<wheel, oldState, report, playing, place, todo, caller, freed>>

\* Device Control 2: only the report's copy of the bit is set.
Control2 ==
  /\ Reads
  /\ pid' = [pid EXCEPT !.status = @ \cup {"ActuatorsEnabled"}]
  /\ UNCHANGED <<dev, previous, endpoint, told, selected, playing, place, todo, caller, freed>>

\* Solo start, and Device Controls 3 (stop all), 4 (reset) and 5 (pause),
\* begin with stopAllEffects.
CallStopAll(c) ==
  /\ Reads
  /\ place' = "stopping" /\ todo' = Effects /\ caller' = c
  /\ UNCHANGED <<dev, report, playing, freed>>

\* Device Control 6.
Continue ==
  /\ Reads
  /\ state' = state \ {"Paused"}
  /\ UNCHANGED <<wheel, oldState, report, playing, place, todo, caller, freed>>

StopNext ==
  /\ place = "stopping" /\ todo # {}
  /\ StopEffect(Min(todo))
  /\ todo' = todo \ {Min(todo)}
  /\ UNCHANGED <<dev, place, caller, left>>

Stopped(c) ==
  /\ place = "stopping" /\ todo = {} /\ caller = c
  /\ place' = "read" /\ caller' = Nobody
  /\ UNCHANGED <<oldState, todo, left>>

SoloStarts(e) ==
  /\ Stopped(<<"solo", e>>)
  /\ StartEffect(e)
  /\ UNCHANGED <<state, wheel>>

AllStopped ==
  /\ Stopped(<<"stopAll", NoEffect>>)
  /\ pid' = [pid EXCEPT !.status = @ \cup {"Paused"}]
  /\ UNCHANGED <<state, wheel, previous, endpoint, told, selected, playing, freed>>

Reset ==
  /\ Stopped(<<"reset", NoEffect>>)
  /\ DeviceInit
  /\ freed' = {}
  /\ UNCHANGED <<endpoint, told, selected>>

Pause ==
  /\ Stopped(<<"pause", NoEffect>>)
  /\ state' = state \cup {"Paused"}
  /\ UNCHANGED <<wheel, report, playing, freed>>

\* joystick.update: nothing new, or DeviceStateChanged with the state bits
\* read from the wheel.
WheelQuiet ==
  /\ place = "wheel" /\ place' = "hid"
  /\ UNCHANGED <<dev, report, playing, todo, caller, left, freed>>

DeviceStateChanged(new) ==
  /\ place = "wheel" /\ place' = "hid"
  /\ wheel' = new /\ oldState' = new
  /\ IF new # oldState THEN Send(pid) /\ selected' = "in"
     ELSE UNCHANGED <<previous, endpoint, told, selected>>
  /\ UNCHANGED <<state, pid, playing, todo, caller, left, freed>>

-----------------------------------------------------------------------------

\* The host polls the IN endpoint.
Poll ==
  /\ endpoint = "full"
  /\ endpoint' = "free"
  /\ UNCHANGED <<dev, pid, previous, told, selected, playing, loop, freed>>

\* EVENT_USB_Device_Connect.
Connect ==
  /\ state' = StateBits
  /\ UNCHANGED <<wheel, oldState, report, playing, loop, freed>>

Step ==
  \/ HidTask
  \/ UpdateNothing \/ UpdateEnds \/ UpdateDue \/ SendAgain \/ UpdateDone
  \/ TaskSends \/ PacketDone \/ FinishOnIn
  \/ \E e \in Effects : OpStart(e) \/ OpStop(e) \/ BlockFree(e) \/ SoloStarts(e)
  \/ Control1 \/ Control2 \/ Continue
  \/ \E c \in StopCallers : CallStopAll(c)
  \/ StopNext \/ AllStopped \/ Reset \/ Pause
  \/ WheelQuiet
  \/ \E new \in WheelStates : DeviceStateChanged(new)

Next == Step \/ Poll \/ Connect

Spec == Init /\ [][Next]_vars

\* loop() never stops, whatever the host does.
LoopSpec == Spec /\ WF_vars(Step)

-----------------------------------------------------------------------------

Reports == [id : BOOLEAN, status : SUBSET StateBits, eid : Effects \cup {NoEffect},
            play : BOOLEAN]

\* Types; the status byte only ever holds bits of gDevice.state.
TypeOK ==
  /\ state \subseteq StateBits /\ wheel \subseteq WheelBits /\ oldState \subseteq WheelBits
  /\ pid \in Reports /\ previous \in Reports /\ told \in Reports
  /\ playing \subseteq Effects /\ freed \subseteq Effects /\ todo \subseteq Effects
  /\ endpoint \in {"free", "full"} /\ selected \in {"in", "out"} /\ place \in Places
  /\ caller \in StopCallers \cup {Nobody} /\ left \in 0 .. MaxReports

\* previousPidState can be trusted: when PidStateChanged finds nothing to
\* send, the last PID report on the wire is the present one, also after a
\* busy endpoint and after a reset in between.
NothingPendingMeansTold == pid = previous => told = pid

\* A report with the play bit names an effect that plays, or one that has
\* been freed while it played.
PlayBitStaleOnlyByFree == pid.play => pid.eid \in playing \cup freed

\* Whatever the host does with the endpoint, loop() comes round: no report
\* makes the firmware wait for the host.
LoopTurns == []<>(place = "hid")

\* "Clear the endpoint ready for new packet" (ffb_Task): the endpoint that is
\* cleared at the end is the one the packet came from, read to its end.
PacketReadToItsEnd == [][place = "read" /\ place' = "wheel" => selected = "out" /\ left = 0]_vars

=============================================================================
