------------------------------ MODULE FfbWheel ------------------------------
(***************************************************************************)
(* What the wheel has of one effect, compared with what the host set:      *)
(* ffb_handleSetEffect (ffb.c) and the parameter handlers of ffb-wheel.c,  *)
(* which keep the host's parameters in the effect block and pass them on,  *)
(* either in the one upload of the effect (message f0) or by modifying     *)
(* single attributes of it (message f1).                                   *)
(*                                                                         *)
(* One slot of the pool is followed through its owners.  Parameters are    *)
(* members of Values; the attributes of a message are grouped by the       *)
(* handler that writes them: main (the type-specific block, scaled by the  *)
(* gain where the code does so), env (the envelope), dir (the direction)   *)
(* and dur (the duration).  The memcmp that sets changedParams compares    *)
(* the report from its id on with the stored parameters; no member of      *)
(* Values begins with that id and an effect index, so it always differs.   *)
(* The two parameter blocks are the effect's own (FfbPool's OwnBlocks says *)
(* when they are not).                                                     *)
(*                                                                         *)
(* Assumed of the host: a Set Effect names the type the effect was created *)
(* with.  The code composes the message for the type in the report, with   *)
(* the default envelope of the one in the block.                           *)
(***************************************************************************)
EXTENDS Naturals

CONSTANTS
  Values,       \* parameters the host sends
  Falling,      \* those that, for a ramp, end below their start
  Gains,        \* gains the host sends
  Durations     \* durations after the conversion to MIDI units, Infinite included

Infinite == 0   \* FFB_DURATION_INFINITE

\* The contents of a parameter block that has been freed and cleared.
Zero == "zero"

ASSUME WheelAssumption ==
  /\ Zero \notin Values /\ Falling \subseteq Values
  /\ Gains \subseteq Nat /\ 0 \in Gains
  /\ Durations \subseteq Nat /\ Infinite \in Durations

\* "wave" is square, sine, triangle and the sawtooths; "condition" is spring,
\* damper and inertia.
Types == {"wave", "ramp", "constant", "friction", "condition"}
Enveloped == {"wave", "ramp", "constant"}

Up == "up"
Down == "down"
None == "none"

VARIABLES
  block,        \* the effect block and its two parameter blocks
  wheel,        \* what the wheel has been told of the effect
  msg,          \* gDevice.msg, the message buffer of all effects
  fresh,        \* history: nothing has only been stored since the last Set Effect
  given,        \* history: this owner has sent the type-specific parameters
  aimed,        \* history: the direction this owner enabled last, or None
  overtaken     \* history: before a constant's new envelope was passed on, the magnitude
                \* or the duration changed

history == <<fresh, given, aimed, overtaken>>
vars == <<block, wheel, msg, history>>

DefaultEnv == <<"default", 0, 0>>
\* What other effects, or ffb_init, leave in the buffer.
Foreign == [main |-> <<"foreign", 0>>, env |-> <<"foreign", 0, 0>>, dir |-> None, dur |-> Infinite]
Nothing == [main |-> <<"nothing", 0>>, env |-> DefaultEnv, dir |-> None, dur |-> Infinite]

Free(b) == b.type = "free"

(***************************************************************************)
(* The apply functions: what each makes of r, the upload or the effect in  *)
(* the wheel, from the effect block b.                                     *)
(***************************************************************************)

\* Mutant of SetCommon: the defaults for an effect without envelope are left out.
SetCommonOnly(b, r) == [r EXCEPT !.dur = Infinite, !.dir = None]

\* setCommon and applyTypeSpecificEnvelope: the defaults of an upload.
SetCommon(b, r) ==
  [r EXCEPT !.dur = Infinite, !.dir = None,
            !.env = IF b.type \in Enveloped THEN DefaultEnv ELSE @]

AxisDir(b) == IF b.axis THEN b.dir ELSE Up

\* applyPeriod
ApplyPeriod(b, r) == [r EXCEPT !.main = <<b.main, b.gain>>, !.dir = AxisDir(b)]

\* applyRamp: the gain plays no part.
ApplyRamp(b, r) ==
  [r EXCEPT !.main = <<b.main, 0>>,
            !.dir = IF b.axis THEN b.dir ELSE IF b.main \in Falling THEN Up ELSE Down]

\* Mutant of ApplyConstant: only a new magnitude counts as a change.
ApplyConstantIfMagnitude(b, r) ==
  IF b.sent /\ b.changed # 1 THEN r ELSE [r EXCEPT !.main = <<b.main, b.gain>>]

\* applyConstant
ApplyConstant(b, r) ==
  IF b.sent /\ b.changed = 0 THEN r ELSE [r EXCEPT !.main = <<b.main, b.gain>>]

\* applyFriction
ApplyFriction(b, r) ==
  IF b.sent /\ b.changed = 0 THEN r ELSE [r EXCEPT !.main = <<b.main, 0>>]

\* applyCondition: constants, in the upload only.
ApplyCondition(b, r) == IF b.sent THEN r ELSE [r EXCEPT !.main = <<"fixed", 0>>]

\* applyEnvelopeOnWave: the time to the fade is counted from the duration.
ApplyEnvelopeOnWave(b, r) ==
  IF b.hasEnv THEN [r EXCEPT !.env = <<b.env, b.gain, b.dur>>] ELSE r

\* applyEnvelopeOnConstant: once uploaded, only when the envelope is what
\* changed last.
ApplyEnvelopeOnConstant(b, r) ==
  IF b.hasEnv /\ (~b.sent \/ b.changed = 2) THEN [r EXCEPT !.env = <<b.env, b.gain, 0>>] ELSE r

\* The switch over the effect types in Ffbwheel_SetEffect.
Apply(b, r) ==
  CASE b.type = "ramp"      -> ApplyRamp(b, ApplyEnvelopeOnWave(b, r))
    [] b.type = "wave"      -> ApplyEnvelopeOnWave(b, ApplyPeriod(b, r))
    [] b.type = "constant"  -> ApplyEnvelopeOnConstant(b, ApplyConstant(b, r))
    [] b.type = "condition" -> ApplyCondition(b, r)
    [] b.type = "friction"  -> ApplyFriction(b, r)

-----------------------------------------------------------------------------

\* The effect block after ffb_init.
Cleared == [type |-> "free", sent |-> FALSE, hasEnv |-> FALSE, changed |-> 0, dur |-> Infinite,
            gain |-> 0, axis |-> FALSE, dir |-> Up, main |-> Zero, env |-> Zero]

\* The history of a slot without an owner, or with a new one.
NoHistory(f, g, a, o) == f = FALSE /\ g = FALSE /\ a = None /\ o = FALSE

Init ==
  /\ block = Cleared /\ wheel = Nothing /\ msg = Foreign
  /\ NoHistory(fresh, given, aimed, overtaken)

\* Create Effect: the state byte, type, duration and gain (the device gain)
\* are set; the rest of the block is its last owner's.
Create(type, g) ==
  /\ Free(block)
  /\ block' = [block EXCEPT !.type = type, !.sent = FALSE, !.hasEnv = FALSE,
                            !.dur = Infinite, !.gain = g]
  /\ NoHistory(fresh', given', aimed', overtaken')
  /\ UNCHANGED <<wheel, msg>>

\* freeEffect: the wheel frees the effect, the parameter blocks are cleared,
\* the effect block keeps its contents.
BlockFree ==
  /\ ~Free(block)
  /\ block' = [block EXCEPT !.type = "free", !.main = Zero, !.env = Zero]
  /\ wheel' = Nothing
  /\ UNCHANGED <<msg, history>>

\* Device Control, Reset: everything is cleared, and the wheel keeps what it
\* has.
Reset ==
  /\ block' = Cleared /\ msg' = Foreign
  /\ NoHistory(fresh', given', aimed', overtaken')
  /\ UNCHANGED wheel

\* Mutants of Announce: the two bits are added instead of set; a changed
\* duration is noticed only while nothing else has changed.
AnnounceAdds(b, d) == IF d # b.dur THEN b.changed + 3 ELSE b.changed

AnnounceFirst(b, d) == IF d # b.dur /\ b.changed = 0 THEN 3 ELSE b.changed

\* ffb_handleSetEffect: changedParams after a Set Effect with duration d.
Announce(b, d) == IF d # b.dur THEN 3 ELSE b.changed

\* A constant in the wheel has a new envelope that waits for a Set Effect.
EnvelopePending == block.type = "constant" /\ block.sent /\ ~fresh

\* Set Effect.  The message is composed in the buffer even when the effect is
\* in the wheel already and only modified.
SetEffect(d, g, axis, dir) ==
  /\ ~Free(block)
  /\ LET b == [block EXCEPT !.changed = Announce(block, d), !.dur = d, !.gain = g,
                            !.axis = @ \/ axis, !.dir = IF axis THEN dir ELSE @]
         composed == SetCommon(b, msg)
         modified == IF b.changed = 3 THEN [wheel EXCEPT !.dur = d] ELSE wheel
     IN /\ block' = [b EXCEPT !.sent = TRUE]
        /\ IF b.sent THEN msg' = composed /\ wheel' = Apply(b, modified)
           ELSE msg' = Apply(b, composed) /\ wheel' = msg'
  /\ fresh' = TRUE
  /\ aimed' = IF axis THEN dir ELSE aimed
  /\ overtaken' = (overtaken \/ (EnvelopePending /\ d # block.dur))
  /\ UNCHANGED given

\* Set Periodic and Set Constant Force apply their parameters at once, to the
\* wheel or to whatever message is in the buffer.
AppliedAtOnce(b, toWheel, toMsg) ==
  /\ block' = b
  /\ IF b.sent THEN wheel' = toWheel /\ UNCHANGED msg
     ELSE msg' = toMsg /\ UNCHANGED wheel

SetPeriodic(v) ==
  /\ block.type = "wave"
  /\ LET b == [block EXCEPT !.main = v]
     IN AppliedAtOnce(b, ApplyPeriod(b, wheel), ApplyPeriod(b, msg))
  /\ given' = TRUE
  /\ UNCHANGED <<fresh, aimed, overtaken>>

SetConstantForce(v) ==
  /\ block.type = "constant"
  /\ LET b == [block EXCEPT !.main = v, !.changed = 1]
     IN AppliedAtOnce(b, ApplyConstant(b, wheel), ApplyConstant(b, msg))
  /\ given' = TRUE
  /\ overtaken' = (overtaken \/ EnvelopePending)
  /\ UNCHANGED <<fresh, aimed>>

\* Set Ramp Force only stores.
SetRampForce(v) ==
  /\ block.type = "ramp"
  /\ block' = [block EXCEPT !.main = v]
  /\ fresh' = FALSE /\ given' = TRUE
  /\ UNCHANGED <<wheel, msg, aimed, overtaken>>

\* Set Condition of the first axis only stores; that of the second is never
\* looked at.
SetCondition(v) ==
  /\ block.type \in {"friction", "condition"}
  /\ block' = [block EXCEPT !.main = v, !.changed = 1]
  /\ fresh' = FALSE /\ given' = TRUE
  /\ UNCHANGED <<wheel, msg, aimed, overtaken>>

SetEnvelope(v) ==
  /\ block.type \in Enveloped
  /\ block' = [block EXCEPT !.env = v, !.hasEnv = TRUE, !.changed = 2]
  /\ fresh' = FALSE /\ overtaken' = FALSE
  /\ UNCHANGED <<wheel, msg, given, aimed>>

\* The handlers write the messages of other effects to the same buffer.
OtherEffect ==
  /\ msg' = Foreign
  /\ UNCHANGED <<block, wheel, history>>

Next ==
  \/ \E type \in Types, g \in Gains : Create(type, g)
  \/ BlockFree \/ Reset
  \/ \E d \in Durations, g \in Gains, axis \in BOOLEAN, dir \in {Up, Down} : SetEffect(d, g, axis, dir)
  \/ \E v \in Values : \/ SetPeriodic(v) \/ SetConstantForce(v) \/ SetRampForce(v)
                       \/ SetCondition(v) \/ SetEnvelope(v)
  \/ OtherEffect

Spec == Init /\ [][Next]_vars

-----------------------------------------------------------------------------

Messages ==
  [main : (Values \cup {Zero, "foreign", "nothing", "fixed"}) \X Gains,
   env : (Values \cup {Zero, "default", "foreign"}) \X Gains \X Durations,
   dir : {Up, Down, None}, dur : Durations]

\* Types of the effect block and of the messages (ffb.h, ffb-wheel.h).
TypeOK ==
  /\ block \in [type : Types \cup {"free"}, sent : BOOLEAN, hasEnv : BOOLEAN, changed : 0 .. 3,
                dur : Durations, gain : Gains, axis : BOOLEAN, dir : {Up, Down},
                main : Values \cup {Zero}, env : Values \cup {Zero}]
  /\ wheel \in Messages /\ msg \in Messages
  /\ fresh \in BOOLEAN /\ given \in BOOLEAN
  /\ aimed \in {Up, Down, None} /\ overtaken \in BOOLEAN

InWheel == ~Free(block) /\ block.sent

Scaled == {"wave", "constant"}

\* The force the wheel has is the one the host set last, at the gain it set
\* last: at once for waves and constants, with the next Set Effect for ramps
\* and friction, whatever was uploaded, modified, freed and set before, and
\* although changedParams may suppress the commands that carry it.
ForceReaches ==
  /\ InWheel /\ given /\ block.type \in Scaled => wheel.main = <<block.main, block.gain>>
  /\ InWheel /\ given /\ fresh /\ block.type \in {"ramp", "friction"} => wheel.main = <<block.main, 0>>

\* After a Set Effect an effect in the wheel has the envelope the host set,
\* faded from the present duration, or none if this owner set none; and it
\* points where its owner aimed it last: nothing of another effect leaks
\* through the shared buffer, though an upload and a modification write
\* envelope and direction in different ways.  Two exceptions, in which the
\* code does otherwise: a new envelope of a constant that is in the wheel
\* already is dropped if magnitude or duration change before the Set Effect
\* that would pass it on (nor does such an envelope follow the gain); and an
\* owner that enables no direction inherits that of the last one who did.
ShapeReaches ==
  InWheel /\ fresh =>
    /\ block.type \in Enveloped /\ ~block.hasEnv => wheel.env = DefaultEnv
    /\ block.type \in {"wave", "ramp"} /\ block.hasEnv => wheel.env = <<block.env, block.gain, block.dur>>
    /\ block.type = "constant" /\ block.hasEnv /\ ~overtaken => wheel.env[1] = block.env
    /\ block.type \in {"wave", "ramp"} /\ aimed # None => wheel.dir = aimed
    /\ block.type = "wave" /\ ~block.axis => wheel.dir = Up
    /\ block.type = "ramp" /\ ~block.axis => wheel.dir = IF block.main \in Falling THEN Up ELSE Down

\* The wheel never cuts an effect off at a duration that is not the present
\* one: it has the effect's duration or none.
DurationNotStale == InWheel => wheel.dur \in {Infinite, block.dur}

=============================================================================
