---------------------------- MODULE FfbPlayback ----------------------------
(***************************************************************************)
(* Playing effects: ffb.c's startEffect, stopEffect, updateEffectStates    *)
(* and the reports that reach them, the start delay set by                 *)
(* Ffbwheel_SetEffect, and the commands the wheel has been sent.           *)
(*                                                                         *)
(* Identifiers come from the pool, of which only the choice of the slot    *)
(* remains here (theorem PoolSafety of FfbPoolProofs: it is the lowest     *)
(* free one); a create that ends in error_loop is CreateHangs.  The host   *)
(* starts an effect only after Set Effect, as the Windows driver does.     *)
(***************************************************************************)
EXTENDS Integers, FiniteSets, FiniteSetsExt

CONSTANTS
  MaxEffects,       \* MAX_EFFECTS
  ClockMod,         \* millis() counts modulo ClockMod: 2^32 in the code
  BootTime,         \* millis() when the model starts
  Horizon,          \* bound: the model follows this many milliseconds
  LostBit,          \* the bit Uint16ToMidiUint14 drops: 128 in the code
  InfiniteFrom,     \* report durations that mean "infinite": 0x7FFF in the code
  Durations,        \* the durations the host sends
  Delays            \* the start delays the host sends

ASSUME PlaybackAssumption ==
  /\ MaxEffects \in Nat /\ MaxEffects > 2
  /\ ClockMod \in Nat \ {0} /\ BootTime \in 0 .. ClockMod - 1 /\ Horizon \in Nat
  /\ LostBit \in Nat \ {0} /\ InfiniteFrom \in Nat
  /\ Durations \subseteq Nat /\ Delays \subseteq Nat

Eids == 2 .. MaxEffects - 1

Flag == {"Allocated", "SentToDevice", "ToDelay", "DelayedPlay", "Playing"}
Free == {}
Infinite == 0       \* FFB_DURATION_INFINITE

VARIABLES
  eff,      \* per effect: state, duration, startStopTime; then the last of the
            \* start/stop/free commands the wheel was sent (wheel: started), and
            \* when that start was sent (began, history; 0 when it is stopped),
            \* and whether a start delay has overwritten it (moved, history)
  loaded,   \* effects uploaded to the wheel and not freed there since
  held,     \* effects the host holds
  now,      \* milliseconds since the model started
  hung,     \* the firmware is in error_loop
  asked     \* history: the host's last word about the effect

vars == <<eff, loaded, held, now, hung, asked>>

Millis == (BootTime + now) % ClockMod

\* Mutant of MidiDuration: the bit is subtracted even when it is not set.
MidiDurationDropsAlways(d) == IF d >= InfiniteFrom THEN Infinite ELSE d - LostBit

\* The duration stored for a Set Effect report: large ones are infinite, and
\* Uint16ToMidiUint14 drops one bit of the others.
MidiDuration(d) ==
  IF d >= InfiniteFrom THEN Infinite
  ELSE d - (IF (d \div LostBit) % 2 = 1 THEN LostBit ELSE 0)

Playing(b) == "Playing" \in b.state

(***************************************************************************)
(* What the functions of ffb.c do to one effect block b.                   *)
(***************************************************************************)

\* startEffect
StartOf(b) ==
  IF Playing(b) THEN b
  ELSE IF "ToDelay" \in b.state
       THEN [b EXCEPT !.startStop = (@ + Millis) % ClockMod,
                      !.state = (@ \ {"ToDelay"}) \cup {"DelayedPlay"}]
       ELSE [b EXCEPT !.state = @ \cup {"Playing"}, !.startStop = Millis,
                      !.wheel = TRUE, !.began = now, !.moved = FALSE]

\* Mutant of StopOf: the wheel is told only when the firmware thinks it plays.
StopOfSilent(b) ==
  IF Playing(b) THEN [b EXCEPT !.state = @ \ {"Playing"}, !.startStop = Millis] ELSE b

\* stopEffect: the stop command is sent whether or not the effect plays; a
\* pending or armed start delay is left alone.
StopOf(b) ==
  [b EXCEPT !.state = @ \ {"Playing"}, !.wheel = FALSE, !.began = 0, !.moved = FALSE,
            !.startStop = IF Playing(b) THEN Millis ELSE @]

\* Mutant of Ends: the comparison is with the duration alone.
EndsAfterBoot(b) == Playing(b) /\ Millis > b.duration /\ b.duration # Infinite

\* Mutant of Ends: the end is noticed only in its own millisecond.
EndsOnTheDot(b) ==
  Playing(b) /\ Millis = (b.startStop + b.duration + 1) % ClockMod /\ b.duration # Infinite

\* updateEffectStates: the effect has played for its duration.
Ends(b) ==
  /\ Playing(b)
  /\ Millis > (b.startStop + b.duration) % ClockMod
  /\ b.duration # Infinite

\* Mutant of Due: an effect that plays already keeps its delayed start.
DueUnlessPlaying(b) == "DelayedPlay" \in b.state /\ ~Playing(b) /\ Millis > b.startStop

\* updateEffectStates: the start delay is over.
Due(b) == "DelayedPlay" \in b.state /\ Millis > b.startStop

\* updateEffectStates, one turn of its loop: end, then start.
LoopOf(b) ==
  LET ended == IF Ends(b) THEN StopOf([b EXCEPT !.state = @ \ {"Playing"}]) ELSE b
  IN  IF Due(b) THEN StartOf([ended EXCEPT !.state = @ \ {"ToDelay", "DelayedPlay"}])
      ELSE ended

-----------------------------------------------------------------------------

NewBlock == [state |-> Free, duration |-> 0, startStop |-> 0, wheel |-> FALSE, began |-> 0,
             moved |-> FALSE]

Init ==
  /\ eff = [e \in Eids |-> NewBlock]
  /\ loaded = {} /\ held = {} /\ now = 0 /\ hung = FALSE
  /\ asked = [e \in Eids |-> "stop"]

FreeIds == {e \in Eids : eff[e].state = Free}

\* Create Effect, answered from the control endpoint: the slot keeps whatever
\* startStopTime it had.
Create ==
  /\ ~hung /\ FreeIds # {}
  /\ LET e == Min(FreeIds)
     IN /\ eff' = [eff EXCEPT ![e].state = {"Allocated"}, ![e].duration = Infinite]
        /\ held' = held \cup {e}
        /\ asked' = [asked EXCEPT ![e] = "stop"]
  /\ UNCHANGED <<loaded, now, hung>>

\* Create that finds no slot, or no parameter block (FfbPool).
CreateHangs ==
  /\ ~hung
  /\ hung' = TRUE
  /\ UNCHANGED <<eff, loaded, held, now, asked>>

\* Mutant of Upload: SentToDevice survives in the block, the upload does not.
UploadNothing(e) == UNCHANGED loaded

\* ffb_handleSetEffect: the message is sent only the first time.
Upload(e) == loaded' = IF "SentToDevice" \in eff[e].state THEN loaded ELSE loaded \cup {e}

\* Set Effect: the start delay overwrites startStopTime even while the effect
\* plays or waits for its delayed start.
SetEffect(e, d, delay) ==
  /\ ~hung /\ e \in held
  /\ Upload(e)
  /\ LET b == eff[e]
         set == [b EXCEPT
                   !.duration = MidiDuration(d),
                   !.state = @ \cup {"SentToDevice"} \cup (IF delay > 0 THEN {"ToDelay"} ELSE {}),
                   !.startStop = IF delay > 0 THEN delay ELSE @,
                   !.moved = @ \/ (delay > 0 /\ Playing(b))]
     IN eff' = [eff EXCEPT ![e] = set]
  /\ UNCHANGED <<held, now, hung, asked>>

\* What a stop leaves in the history: "late" when a delayed start is under way.
AskedToStop(e) == IF "DelayedPlay" \in eff[e].state THEN "late" ELSE "stop"

\* Effect Operation, Start.
OpStart(e) ==
  /\ ~hung /\ e \in held /\ "SentToDevice" \in eff[e].state
  /\ eff' = [eff EXCEPT ![e] = StartOf(@)]
  /\ asked' = [asked EXCEPT ![e] = "play"]
  /\ UNCHANGED <<loaded, held, now, hung>>

\* Mutant of StopAll: the loop misses the last effect.
StopAllButLast == [e \in Eids |-> IF e = MaxEffects - 1 THEN eff[e] ELSE StopOf(eff[e])]

\* stopAllEffects
StopAll == [e \in Eids |-> StopOf(eff[e])]

\* Effect Operation, Start Solo: stop everything, then start.
OpSolo(e) ==
  /\ ~hung /\ e \in held /\ "SentToDevice" \in eff[e].state
  /\ eff' = [StopAll EXCEPT ![e] = StartOf(@)]
  /\ asked' = [f \in Eids |-> IF f = e THEN "play" ELSE AskedToStop(f)]
  /\ UNCHANGED <<loaded, held, now, hung>>

\* Effect Operation, Stop; the host also sends it for effects it never made.
\* (Index 0xFF, "All effects", becomes 0x7F, fails checkBlockIndex and reaches
\* no effect at all.)
OpStop(e) ==
  /\ ~hung
  /\ eff' = [eff EXCEPT ![e] = StopOf(@)]
  /\ asked' = [asked EXCEPT ![e] = AskedToStop(e)]
  /\ UNCHANGED <<loaded, held, now, hung>>

\* Device Control, Stop All Effects and Pause.
ControlStopAll ==
  /\ ~hung
  /\ eff' = StopAll
  /\ asked' = [e \in Eids |-> AskedToStop(e)]
  /\ UNCHANGED <<loaded, held, now, hung>>

\* Device Control, Reset: stop all, then ffb_init; the wheel is not told to
\* free anything.
ControlReset ==
  /\ ~hung
  /\ eff' = [e \in Eids |-> [NewBlock EXCEPT !.wheel = StopAll[e].wheel]]
  /\ asked' = [e \in Eids |-> "stop"]
  /\ held' = {}
  /\ UNCHANGED <<loaded, now, hung>>

\* freeEffect on each effect of S: the wheel frees (and so stops) them.
FreeEffects(S) ==
  /\ eff' = [e \in Eids |-> IF e \in S THEN [eff[e] EXCEPT !.state = Free, !.wheel = FALSE,
                                                            !.began = 0, !.moved = FALSE]
                                         ELSE eff[e]]
  /\ loaded' = loaded \ S

BlockFree(e) ==
  /\ ~hung /\ e \in held
  /\ FreeEffects({e})
  /\ held' = held \ {e}
  /\ UNCHANGED <<now, hung, asked>>

\* freeAllEffects frees the effects that are Allocated and nothing else.
BlockFreeAll ==
  /\ ~hung
  /\ FreeEffects({e \in Eids : eff[e].state = {"Allocated"}})
  /\ held' = {}
  /\ UNCHANGED <<now, hung, asked>>

\* updateEffectStates, on each pass of the main loop.
Loop ==
  /\ ~hung
  /\ eff' = [e \in Eids |-> LoopOf(eff[e])]
  /\ UNCHANGED <<loaded, held, now, hung, asked>>

Tick ==
  /\ now < Horizon
  /\ now' = now + 1
  /\ UNCHANGED <<eff, loaded, held, hung, asked>>

Next ==
  \/ Create \/ CreateHangs
  \/ \E e \in Eids : \/ \E d \in Durations, delay \in Delays : SetEffect(e, d, delay)
                     \/ OpStart(e) \/ OpSolo(e) \/ OpStop(e)
                     \/ BlockFree(e)
  \/ ControlStopAll \/ ControlReset
  \/ BlockFreeAll
  \/ Loop
  \/ Tick

Spec == Init /\ [][Next]_vars

\* loop() runs for ever and calls updateEffectStates on every pass while the
\* device is configured; time passes.
Fairness == WF_vars(Loop) /\ WF_vars(Tick)

FairSpec == Spec /\ Fairness

-----------------------------------------------------------------------------

\* Types and bounds of the effect blocks (struct paramEffectBlock, ffb.h).
TypeOK ==
  /\ eff \in [Eids -> [state : SUBSET Flag, duration : Nat, startStop : Nat,
                   wheel : BOOLEAN, began : 0 .. Horizon, moved : BOOLEAN]]
  /\ loaded \subseteq Eids /\ held \subseteq Eids
  /\ now \in 0 .. Horizon /\ hung \in BOOLEAN
  /\ asked \in [Eids -> {"play", "stop", "late"}]

\* The Playing bit is what the wheel does: the firmware thinks an effect plays
\* exactly when the last of the start, stop and free commands the wheel got
\* for it was start, through solo, expiry, free, reset and slot reuse.
WheelAgrees == \A e \in Eids : Playing(eff[e]) <=> eff[e].wheel

\* The wheel never plays an effect it has not been sent: SentToDevice, which
\* decides whether Set Effect uploads or only modifies, is not left over from
\* an earlier owner of the slot.
PlaysOnlyLoaded == \A e \in Eids : eff[e].wheel => e \in loaded

\* Once a solo start is handled nothing else plays.
SoloAlone ==
  [][\A e \in Eids : OpSolo(e) => \A f \in Eids \ {e} : ~eff'[f].wheel]_vars

\* An effect plays only while the host's last word about it was "play", unless
\* that word met a delayed start under way (see StopIsFinal): expiry, solo,
\* stop all, reset, free and slot reuse leave nothing behind that starts later.
PlaysOnlyAsked == \A e \in Eids : eff[e].wheel => asked[e] \in {"play", "late"}

\* The effect's end, as updateEffectStates computes it, lies beyond the wrap of
\* the clock.
EndWraps(b) == ((BootTime + b.began) % ClockMod) + b.duration >= ClockMod

\* The main loop ends an effect only after it has played for its duration
\* (comment above updateEffectStates: "remove the Playing bit on effects which
\* ended"), unless a new start delay overwrote its start time meanwhile or its
\* end lies beyond the wrap of millis(), once in seven weeks.
EndsNotEarly ==
  [][\A e \in Eids : Loop /\ eff[e].wheel /\ ~eff'[e].wheel
                       => \/ now > eff[e].began + eff[e].duration
                          \/ eff[e].moved \/ EndWraps(eff[e])]_vars

\* An effect whose duration is over does not go on playing (unless a start
\* delay overwrote its start time).
ExpiredEnds ==
  \A e \in Eids :
    (/\ eff[e].wheel /\ ~eff[e].moved /\ eff[e].duration # Infinite
     /\ now > eff[e].began + eff[e].duration)
      ~> (\/ ~eff[e].wheel \/ eff[e].moved \/ eff[e].duration = Infinite
          \/ now <= eff[e].began + eff[e].duration \/ hung)

\* A delayed start that falls within the horizon is not forgotten.
DelayedStartResolves ==
  \A e \in Eids : ("DelayedPlay" \in eff[e].state /\ eff[e].startStop < Horizon)
                    ~> ("DelayedPlay" \notin eff[e].state \/ eff[e].startStop >= Horizon \/ hung)

(***************************************************************************)
(* A claim of the source that the code does not meet.                      *)
(***************************************************************************)

\* "after EOP(play) delay the play" (startStopTime in ffb.h): an effect is
\* started late only if the host's last operation was a play.
StopIsFinal == \A e \in Eids : eff[e].wheel => asked[e] = "play"

=============================================================================
