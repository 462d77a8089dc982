--------------------------- MODULE FfbWheelProofs ---------------------------
(***************************************************************************)
(* Proofs about FfbWheel, for all parameters, gains and durations: the     *)
(* force, the shape and the duration of an effect in the wheel are what    *)
(* the host set.  The inductive invariant WheelInv adds to the checked     *)
(* properties that a parameter the host has given is never taken for an    *)
(* unchanged one (Noticed), that an effect without an envelope has the     *)
(* default one in the wheel at any time, fresh or not (Plain), that the    *)
(* effect block points where its owner aimed last (Aimed), and that a      *)
(* constant's new envelope stays announced until it is overtaken (Kept).   *)
(***************************************************************************)
EXTENDS FfbWheel, TLAPS

\* The values of the effect block, as TypeOK has them.
Blocks ==
  [type : Types \cup {"free"}, sent : BOOLEAN, hasEnv : BOOLEAN, changed : 0 .. 3,
   dur : Durations, gain : Gains, axis : BOOLEAN, dir : {Up, Down},
   main : Values \cup {Zero}, env : Values \cup {Zero}]

\* Constant force and friction are sent only if changedParams is not 0: it
\* is not, from the first parameters of an owner on.
Noticed == given /\ block.type \in {"constant", "friction"} => block.changed # 0

\* An effect in the wheel without an envelope has the default one.
Plain == InWheel /\ block.type \in Enveloped /\ ~block.hasEnv => wheel.env = DefaultEnv

\* A direction, once enabled, stays until this owner enables another.
Aimed == aimed # None => block.axis /\ block.dir = aimed

\* The envelope that waits is what changedParams names.
Kept == EnvelopePending /\ ~overtaken => block.changed = 2 /\ block.hasEnv

WheelInv ==
  /\ TypeOK /\ ForceReaches /\ ShapeReaches /\ DurationNotStale
  /\ Noticed /\ Plain /\ Aimed /\ Kept

-----------------------------------------------------------------------------

\* The message built for a live effect is one of Messages.
LEMMA ApplyType ==
  ASSUME NEW b \in Blocks, ~Free(b), NEW r \in Messages
  PROVE  Apply(b, r) \in Messages
<1> USE WheelAssumption DEF Messages, Blocks
<1>1. ASSUME NEW s \in Messages PROVE ApplyEnvelopeOnWave(b, s) \in Messages
  BY <1>1 DEF ApplyEnvelopeOnWave
<1>2. ASSUME NEW s \in Messages PROVE ApplyEnvelopeOnConstant(b, s) \in Messages
  BY <1>2 DEF ApplyEnvelopeOnConstant, Infinite
<1>3. ASSUME NEW s \in Messages PROVE ApplyPeriod(b, s) \in Messages
  BY <1>3 DEF ApplyPeriod, AxisDir
<1>4. ASSUME NEW s \in Messages PROVE ApplyRamp(b, s) \in Messages
  BY <1>4 DEF ApplyRamp
<1>5. ASSUME NEW s \in Messages PROVE ApplyConstant(b, s) \in Messages
  BY <1>5 DEF ApplyConstant
<1>6. ApplyFriction(b, r) \in Messages /\ ApplyCondition(b, r) \in Messages
  BY DEF ApplyFriction, ApplyCondition
<1>7. b.type \in Types
  BY DEF Free
<1> HIDE DEF Messages
<1>8. CASE b.type = "ramp"
  <2>1. Apply(b, r) = ApplyRamp(b, ApplyEnvelopeOnWave(b, r))
    BY <1>8 DEF Apply
  <2> QED BY <2>1, <1>1, <1>4
<1>9. CASE b.type = "wave"
  <2>1. Apply(b, r) = ApplyEnvelopeOnWave(b, ApplyPeriod(b, r))
    BY <1>9 DEF Apply
  <2> QED BY <2>1, <1>1, <1>3
<1>10. CASE b.type = "constant"
  <2>1. Apply(b, r) = ApplyEnvelopeOnConstant(b, ApplyConstant(b, r))
    BY <1>10 DEF Apply
  <2> QED BY <2>1, <1>2, <1>5
<1>11. CASE b.type = "condition"
  BY <1>11, <1>6 DEF Apply
<1>12. CASE b.type = "friction"
  BY <1>12, <1>6 DEF Apply
<1> QED BY <1>7, <1>8, <1>9, <1>10, <1>11, <1>12 DEF Types

\* What Apply makes of a message: the duration is left alone; the force is the
\* block's, unless nothing has changed since the upload; envelope and
\* direction are the block's where the type has them.
LEMMA ApplyFields ==
  ASSUME NEW b \in Blocks, ~Free(b), NEW r \in Messages
  PROVE  LET a == Apply(b, r)
         IN /\ a.dur = r.dur
            /\ b.type = "wave" => a.main = <<b.main, b.gain>> /\ a.dir = AxisDir(b)
            /\ b.type = "ramp" =>
                 /\ a.main = <<b.main, 0>>
                 /\ a.dir = IF b.axis THEN b.dir ELSE IF b.main \in Falling THEN Up ELSE Down
            /\ b.type = "constant" /\ b.changed # 0 => a.main = <<b.main, b.gain>>
            /\ b.type = "friction" /\ b.changed # 0 => a.main = <<b.main, 0>>
            /\ b.type \in {"wave", "ramp"} /\ b.hasEnv => a.env = <<b.env, b.gain, b.dur>>
            /\ b.type \in Enveloped /\ ~b.hasEnv => a.env = r.env
            /\ b.type = "constant" /\ b.hasEnv =>
                 /\ ~b.sent \/ b.changed = 2 => a.env[1] = b.env
                 /\ b.sent /\ b.changed # 2 => a.env = r.env
<1> DEFINE a == Apply(b, r)
<1> USE DEF Messages
<1>1. CASE b.type = "ramp"
  <2>1. a = ApplyRamp(b, ApplyEnvelopeOnWave(b, r))
    BY <1>1 DEF Apply
  <2> QED BY <2>1, <1>1 DEF ApplyRamp, ApplyEnvelopeOnWave
<1>2. CASE b.type = "wave"
  <2>1. a = ApplyEnvelopeOnWave(b, ApplyPeriod(b, r))
    BY <1>2 DEF Apply
  <2> QED BY <2>1, <1>2 DEF ApplyPeriod, ApplyEnvelopeOnWave
<1>3. CASE b.type = "constant"
  <2>1. a = ApplyEnvelopeOnConstant(b, ApplyConstant(b, r))
    BY <1>3 DEF Apply
  <2> QED BY <2>1, <1>3 DEF ApplyConstant, ApplyEnvelopeOnConstant
<1>4. CASE b.type = "condition"
  <2>1. a = ApplyCondition(b, r)
    BY <1>4 DEF Apply
  <2> QED BY <2>1, <1>4 DEF ApplyCondition, Enveloped
<1>5. CASE b.type = "friction"
  <2>1. a = ApplyFriction(b, r)
    BY <1>5 DEF Apply
  <2> QED BY <2>1, <1>5 DEF ApplyFriction, Enveloped
<1>6. b.type \in Types
  BY DEF Free, Blocks
<1> QED BY <1>1, <1>2, <1>3, <1>4, <1>5, <1>6 DEF Types

\* The default message of an upload.
LEMMA SetCommonFields ==
  ASSUME NEW b \in Blocks, NEW r \in Messages
  PROVE  /\ SetCommon(b, r) \in Messages
         /\ SetCommon(b, r).dur = Infinite
         /\ b.type \in Enveloped => SetCommon(b, r).env = DefaultEnv
BY WheelAssumption DEF SetCommon, Messages, DefaultEnv, Infinite

-----------------------------------------------------------------------------

\* The invariant holds initially and after a reset, but for the wheel.
LEMMA ConstantsTyped ==
  Cleared \in Blocks /\ Foreign \in Messages /\ Nothing \in Messages
BY WheelAssumption DEF Cleared, Blocks, Foreign, Nothing, Messages, DefaultEnv, Infinite

\* TypeOK with the named set of blocks.
LEMMA TypeOKIs ==
  TypeOK <=> /\ block \in Blocks /\ wheel \in Messages /\ msg \in Messages
             /\ fresh \in BOOLEAN /\ given \in BOOLEAN
             /\ aimed \in {Up, Down, None} /\ overtaken \in BOOLEAN
BY DEF TypeOK, Blocks

LEMMA InitInv == Init => WheelInv
<1> SUFFICES ASSUME Init PROVE WheelInv
  OBVIOUS
<1>1. TypeOK
  BY ConstantsTyped, TypeOKIs DEF Init, NoHistory
<1>2. ~InWheel /\ ~given /\ ~EnvelopePending /\ aimed = None
  BY DEF Init, NoHistory, InWheel, EnvelopePending, Cleared
<1> QED BY <1>1, <1>2 DEF WheelInv, ForceReaches, ShapeReaches, DurationNotStale, Noticed, Plain,
                          Aimed, Kept

-----------------------------------------------------------------------------

LEMMA CreateStep ==
  ASSUME WheelInv, NEW type \in Types, NEW g \in Gains, Create(type, g)
  PROVE  WheelInv'
<1> USE DEF WheelInv
<1>1. TypeOK'
  BY WheelAssumption, TypeOKIs DEF Create, NoHistory, Blocks, TypeOK
<1>2. ~InWheel' /\ Noticed' /\ Aimed' /\ Kept'
  BY TypeOKIs DEF Create, NoHistory, InWheel, Noticed, Aimed, Kept, EnvelopePending, Blocks
<1> QED BY <1>1, <1>2 DEF ForceReaches, ShapeReaches, DurationNotStale, Noticed, Plain

LEMMA FreeStep ==
  ASSUME WheelInv, BlockFree
  PROVE  WheelInv'
<1> USE DEF WheelInv
<1>1. TypeOK'
  BY ConstantsTyped, TypeOKIs DEF BlockFree, history, Blocks, TypeOK
<1>2. ~InWheel' /\ Noticed' /\ Aimed' /\ Kept'
  BY TypeOKIs DEF BlockFree, history, InWheel, Noticed, Aimed, Kept, EnvelopePending, Blocks, Free
<1> QED BY <1>1, <1>2 DEF ForceReaches, ShapeReaches, DurationNotStale, Noticed, Plain

LEMMA ResetStep ==
  ASSUME WheelInv, Reset
  PROVE  WheelInv'
<1> USE DEF WheelInv
<1>1. TypeOK'
  BY ConstantsTyped, TypeOKIs DEF Reset, NoHistory, Blocks, TypeOK
<1>2. ~InWheel' /\ Noticed' /\ Aimed' /\ Kept'
  BY DEF Reset, NoHistory, InWheel, Noticed, Aimed, Kept, EnvelopePending, Cleared, Free
<1> QED BY <1>1, <1>2 DEF ForceReaches, ShapeReaches, DurationNotStale, Noticed, Plain

LEMMA SetEffectStep ==
  ASSUME WheelInv, NEW d \in Durations, NEW g \in Gains, NEW axis \in BOOLEAN, NEW dir \in {Up, Down},
         SetEffect(d, g, axis, dir)
  PROVE  WheelInv'
<1> DEFINE b == [block EXCEPT !.changed = Announce(block, d), !.dur = d, !.gain = g,
                              !.axis = @ \/ axis, !.dir = IF axis THEN dir ELSE @]
           composed == SetCommon(b, msg)
           modified == IF b.changed = 3 THEN [wheel EXCEPT !.dur = d] ELSE wheel
           m == IF b.sent THEN modified ELSE composed
<1>1. /\ TypeOK /\ Plain /\ Noticed /\ DurationNotStale /\ Aimed /\ Kept /\ ShapeReaches
      /\ block \in Blocks /\ wheel \in Messages /\ msg \in Messages
  BY TypeOKIs DEF WheelInv
<1>2. b \in Blocks /\ ~Free(b)
  <2>1. Announce(block, d) \in 0 .. 3
    BY <1>1 DEF Blocks, Announce
  <2>2. (block.axis \/ axis) \in BOOLEAN
    OBVIOUS
  <2>3. (IF axis THEN dir ELSE block.dir) \in {Up, Down}
    BY <1>1 DEF Blocks
  <2>4. b \in Blocks
    BY <1>1, <2>1, <2>2, <2>3 DEF Blocks
  <2> QED BY <2>4, <1>1 DEF Blocks, SetEffect, Free
<1>3. /\ b.type = block.type /\ b.sent = block.sent /\ b.hasEnv = block.hasEnv
      /\ b.main = block.main /\ b.env = block.env /\ b.dur = d
      /\ b.changed = Announce(block, d)
      /\ b.axis = (block.axis \/ axis) /\ b.dir = IF axis THEN dir ELSE block.dir
  BY <1>1 DEF Blocks
<1>4. /\ block' = [b EXCEPT !.sent = TRUE]
      /\ wheel' = Apply(b, m)
      /\ msg' \in {composed, Apply(b, composed)}
      /\ fresh' = TRUE /\ given' = given
      /\ aimed' = IF axis THEN dir ELSE aimed
      /\ overtaken' = (overtaken \/ (EnvelopePending /\ d # block.dur))
  BY DEF SetEffect
<1>5. m \in Messages
  BY <1>1, <1>2, SetCommonFields DEF Messages
<1>6. m.dur \in {Infinite, d}
  <2>1. CASE ~b.sent
    BY <2>1, <1>1, <1>2, SetCommonFields
  <2>2. CASE b.sent /\ b.changed = 3
    BY <2>2, <1>1 DEF Messages
  <2>3. CASE b.sent /\ b.changed # 3
    <3>1. d = block.dur
      BY <2>3, <1>3 DEF Announce
    <3>2. wheel.dur \in {Infinite, d}
      BY <3>1, <2>3, <1>1, <1>2, <1>3 DEF DurationNotStale, InWheel, Free
    <3> QED BY <3>2, <2>3
  <2> QED BY <2>1, <2>2, <2>3
<1>7. b.type \in Enveloped /\ ~b.hasEnv => m.env = DefaultEnv
  <2>1. CASE ~b.sent
    BY <2>1, <1>1, <1>2, SetCommonFields
  <2>2. CASE b.sent
    <3>1. b.type \in Enveloped /\ ~b.hasEnv => wheel.env = DefaultEnv
      BY <2>2, <1>1, <1>2, <1>3 DEF Plain, InWheel, Free
    <3> QED BY <3>1, <2>2, <1>1 DEF Messages
  <2> QED BY <2>1, <2>2
<1>8. given /\ b.type \in {"constant", "friction"} => b.changed # 0
  BY <1>1, <1>3 DEF Noticed, Announce
<1>15. b.type = "constant" /\ b.hasEnv /\ ~overtaken' => Apply(b, m).env[1] = b.env
  <2>1. b.type = "constant" /\ b.hasEnv =>
          /\ ~b.sent \/ b.changed = 2 => Apply(b, m).env[1] = b.env
          /\ b.sent /\ b.changed # 2 => Apply(b, m).env = m.env
    <3> HIDE DEF b, m
    <3> QED BY <1>2, <1>5, ApplyFields
  <2>2. ASSUME b.type = "constant", b.hasEnv, ~overtaken', b.sent, b.changed # 2
        PROVE  m.env[1] = b.env
    <3>1. m.env = wheel.env
      BY <2>2, <1>1 DEF Messages
    <3>2. fresh
      <4>1. SUFFICES ASSUME ~fresh PROVE FALSE
        OBVIOUS
      <4>2. EnvelopePending
        BY <2>2, <4>1, <1>3 DEF EnvelopePending
      <4>3. d = block.dur /\ ~overtaken
        BY <2>2, <4>2, <1>4
      <4> QED BY <2>2, <4>2, <4>3, <1>1, <1>3 DEF Kept, Announce
    <3>3. wheel.env[1] = block.env
      BY <2>2, <3>2, <1>1, <1>2, <1>3, <1>4 DEF ShapeReaches, InWheel, Free, Enveloped
    <3> QED BY <3>1, <3>3, <1>3
  <2> HIDE DEF b, m
  <2> QED BY <1>2, <2>1, <2>2 DEF Blocks
<1>16. aimed' # None => b.axis /\ b.dir = aimed'
  BY <1>1, <1>3, <1>4 DEF Aimed
<1> HIDE DEF b, m, composed
<1>9. /\ block' \in Blocks /\ block'.sent /\ block'.type = b.type /\ block'.hasEnv = b.hasEnv
      /\ block'.main = b.main /\ block'.env = b.env /\ block'.gain = b.gain /\ block'.dur = b.dur
      /\ block'.axis = b.axis /\ block'.dir = b.dir /\ block'.changed = b.changed
      /\ AxisDir(block') = AxisDir(b)
  BY <1>2, <1>4 DEF Blocks, AxisDir
<1>10. TypeOK'
  <2>1. composed \in Messages
    BY <1>1, <1>2, SetCommonFields DEF composed
  <2>2. wheel' \in Messages /\ msg' \in Messages
    BY <2>1, <1>2, <1>4, <1>5, ApplyType
  <2>3. aimed' \in {Up, Down, None} /\ overtaken' \in BOOLEAN
    BY <1>1, <1>4, TypeOKIs
  <2> QED BY <2>2, <2>3, <1>1, <1>4, <1>9, TypeOKIs DEF TypeOK, Blocks
<1>11. ForceReaches'
  BY <1>2, <1>4, <1>5, <1>8, <1>9, ApplyFields DEF ForceReaches, Scaled
<1>12. ShapeReaches' /\ Plain'
  <2>1. Plain'
    BY <1>2, <1>4, <1>5, <1>7, <1>9, ApplyFields DEF Plain
  <2>2. /\ b.type \in {"wave", "ramp"} /\ aimed' # None => wheel'.dir = aimed'
        /\ b.type = "wave" /\ ~b.axis => wheel'.dir = Up
        /\ b.type = "ramp" /\ ~b.axis => wheel'.dir = IF b.main \in Falling THEN Up ELSE Down
    BY <1>2, <1>4, <1>5, <1>16, ApplyFields DEF AxisDir
  <2>3. /\ b.type \in {"wave", "ramp"} /\ b.hasEnv => wheel'.env = <<b.env, b.gain, b.dur>>
        /\ b.type \in Enveloped /\ ~b.hasEnv => wheel'.env = DefaultEnv
    BY <1>2, <1>4, <1>5, <1>7, ApplyFields
  <2>4. b.type = "constant" /\ b.hasEnv /\ ~overtaken' => wheel'.env[1] = b.env
    BY <1>4, <1>15
  <2> QED BY <2>1, <2>2, <2>3, <2>4, <1>9 DEF ShapeReaches
<1>13. DurationNotStale'
  BY <1>2, <1>3, <1>4, <1>5, <1>6, <1>9, ApplyFields DEF DurationNotStale
<1>14. Noticed'
  BY <1>4, <1>8, <1>9 DEF Noticed
<1>17. Aimed' /\ Kept'
  BY <1>4, <1>9, <1>16 DEF Aimed, Kept, EnvelopePending
<1> QED BY <1>10, <1>11, <1>12, <1>13, <1>14, <1>17 DEF WheelInv

\* A wave's parameters reach the wheel at once.
LEMMA PeriodicStep ==
  ASSUME WheelInv, NEW v \in Values, SetPeriodic(v)
  PROVE  WheelInv'
<1> DEFINE b == [block EXCEPT !.main = v]
<1>1. block \in Blocks /\ wheel \in Messages /\ msg \in Messages /\ TypeOK
  BY TypeOKIs DEF WheelInv
<1>2. /\ b \in Blocks /\ block' = b /\ fresh' = fresh /\ given' = TRUE /\ b.type = "wave"
      /\ aimed' = aimed /\ overtaken' = overtaken
      /\ IF b.sent THEN wheel' = ApplyPeriod(b, wheel) /\ msg' = msg
         ELSE msg' = ApplyPeriod(b, msg) /\ wheel' = wheel
  BY <1>1 DEF SetPeriodic, AppliedAtOnce, Blocks
<1>3. /\ b.type = block.type /\ b.sent = block.sent /\ b.hasEnv = block.hasEnv /\ b.env = block.env
      /\ b.gain = block.gain /\ b.dur = block.dur /\ b.axis = block.axis /\ b.dir = block.dir
  BY <1>1 DEF Blocks
<1> HIDE DEF b
<1>4. ASSUME NEW r \in Messages
      PROVE  /\ ApplyPeriod(b, r) \in Messages
             /\ ApplyPeriod(b, r).main = <<b.main, b.gain>> /\ ApplyPeriod(b, r).dir = AxisDir(b)
             /\ ApplyPeriod(b, r).env = r.env /\ ApplyPeriod(b, r).dur = r.dur
  BY <1>2, <1>4 DEF ApplyPeriod, Messages, Blocks, AxisDir
<1>5. TypeOK'
  BY <1>1, <1>2, <1>4, TypeOKIs DEF TypeOK, Blocks
<1>6. ForceReaches' /\ Noticed'
  BY <1>1, <1>2, <1>4 DEF ForceReaches, InWheel, Noticed
<1>7. DurationNotStale'
  BY <1>1, <1>2, <1>3, <1>4 DEF DurationNotStale, InWheel, Free, WheelInv
<1>8. ShapeReaches' /\ Plain'
  <2>1. CASE b.sent
    BY <2>1, <1>1, <1>2, <1>3, <1>4 DEF ShapeReaches, Plain, InWheel, Free, AxisDir, Aimed, WheelInv
  <2>2. CASE ~b.sent
    BY <2>2, <1>2 DEF ShapeReaches, Plain, InWheel
  <2> QED BY <2>1, <2>2
<1>9. Aimed' /\ Kept'
  BY <1>2, <1>3 DEF Aimed, Kept, EnvelopePending, WheelInv
<1> QED BY <1>5, <1>6, <1>7, <1>8, <1>9 DEF WheelInv

\* So does a constant force; its changedParams is then 1.
LEMMA ConstantStep ==
  ASSUME WheelInv, NEW v \in Values, SetConstantForce(v)
  PROVE  WheelInv'
<1> DEFINE b == [block EXCEPT !.main = v, !.changed = 1]
<1>1. block \in Blocks /\ wheel \in Messages /\ msg \in Messages /\ TypeOK
  BY TypeOKIs DEF WheelInv
<1>2. /\ b \in Blocks /\ block' = b /\ fresh' = fresh /\ given' = TRUE /\ b.type = "constant"
      /\ b.changed = 1 /\ aimed' = aimed /\ overtaken' = (overtaken \/ EnvelopePending)
      /\ IF b.sent THEN wheel' = ApplyConstant(b, wheel) /\ msg' = msg
         ELSE msg' = ApplyConstant(b, msg) /\ wheel' = wheel
  <2>1. b \in Blocks /\ b.changed = 1
    BY <1>1, 1 \in 0 .. 3 DEF Blocks
  <2> QED BY <2>1, <1>1 DEF SetConstantForce, AppliedAtOnce, Blocks
<1>3. /\ b.type = block.type /\ b.sent = block.sent /\ b.hasEnv = block.hasEnv /\ b.dur = block.dur
      /\ b.env = block.env /\ b.axis = block.axis /\ b.dir = block.dir
  BY <1>1 DEF Blocks
<1> HIDE DEF b
<1>4. ASSUME NEW r \in Messages
      PROVE  /\ ApplyConstant(b, r) \in Messages
             /\ ApplyConstant(b, r).main = <<b.main, b.gain>>
             /\ ApplyConstant(b, r).env = r.env /\ ApplyConstant(b, r).dur = r.dur
  BY <1>2, <1>4 DEF ApplyConstant, Messages, Blocks
<1>5. TypeOK'
  BY <1>1, <1>2, <1>4, TypeOKIs DEF TypeOK, Blocks
<1>6. ForceReaches' /\ Noticed'
  BY <1>1, <1>2, <1>4 DEF ForceReaches, InWheel, Noticed
<1>7. DurationNotStale'
  BY <1>1, <1>2, <1>3, <1>4 DEF DurationNotStale, InWheel, Free, WheelInv
<1>8. ShapeReaches' /\ Plain'
  <2>1. CASE b.sent
    BY <2>1, <1>1, <1>2, <1>3, <1>4 DEF ShapeReaches, Plain, InWheel, Free, WheelInv
  <2>2. CASE ~b.sent
    BY <2>2, <1>2 DEF ShapeReaches, Plain, InWheel
  <2> QED BY <2>1, <2>2
<1>9. Aimed' /\ Kept'
  BY <1>2, <1>3 DEF Aimed, Kept, EnvelopePending, WheelInv
<1> QED BY <1>5, <1>6, <1>7, <1>8, <1>9 DEF WheelInv

\* Ramps, conditions and envelopes are only stored: nothing is fresh then,
\* and what does not depend on that is not touched.
LEMMA StoredStep ==
  ASSUME WheelInv, NEW v \in Values, SetRampForce(v) \/ SetCondition(v) \/ SetEnvelope(v)
  PROVE  WheelInv'
<1>1. block \in Blocks /\ wheel \in Messages /\ msg \in Messages /\ TypeOK
  BY TypeOKIs DEF WheelInv
<1>2. /\ block' \in Blocks /\ wheel' = wheel /\ msg' = msg /\ fresh' = FALSE /\ given' \in BOOLEAN
      /\ block'.type = block.type /\ block'.sent = block.sent /\ block'.dur = block.dur
      /\ block'.gain = block.gain
      /\ block.hasEnv => block'.hasEnv
      /\ block.type \in Scaled => block'.main = block.main /\ given' = given
      /\ block'.axis = block.axis /\ block'.dir = block.dir
      /\ aimed' = aimed /\ overtaken' \in BOOLEAN
      /\ block.type = "constant" => block'.changed = 2 /\ block'.hasEnv
  <2>1. CASE SetRampForce(v)
    BY <2>1, <1>1 DEF SetRampForce, Blocks, Scaled, TypeOK
  <2>2. CASE SetCondition(v)
    BY <2>2, <1>1, 1 \in 0 .. 3 DEF SetCondition, Blocks, Scaled, TypeOK
  <2>3. CASE SetEnvelope(v)
    <3>1. block' \in Blocks
      BY <2>3, <1>1, 2 \in 0 .. 3 DEF SetEnvelope, Blocks
    <3> QED BY <3>1, <2>3, <1>1 DEF SetEnvelope, Blocks, TypeOK
  <2> QED BY <2>1, <2>2, <2>3
<1>3. /\ block'.changed \in {block.changed, 1, 2}
      /\ given' => given \/ block.type = "ramp" \/ block'.changed = 1
  <2>1. CASE SetRampForce(v)
    BY <2>1, <1>1 DEF SetRampForce, Blocks
  <2>2. CASE SetCondition(v)
    BY <2>2, <1>1 DEF SetCondition, Blocks
  <2>3. CASE SetEnvelope(v)
    BY <2>3, <1>1 DEF SetEnvelope, Blocks
  <2> QED BY <2>1, <2>2, <2>3
<1>4. TypeOK'
  BY <1>1, <1>2, TypeOKIs DEF TypeOK, Blocks
<1>5. ForceReaches'
  BY <1>1, <1>2 DEF ForceReaches, InWheel, Free, WheelInv
<1>6. DurationNotStale' /\ ShapeReaches' /\ Plain'
  BY <1>1, <1>2 DEF DurationNotStale, ShapeReaches, Plain, InWheel, Free, WheelInv, Blocks
<1>7. Noticed'
  BY <1>1, <1>2, <1>3 DEF Noticed, WheelInv
<1>8. Aimed' /\ Kept'
  BY <1>1, <1>2 DEF Aimed, Kept, EnvelopePending, WheelInv
<1> QED BY <1>4, <1>5, <1>6, <1>7, <1>8 DEF WheelInv

\* The buffer may hold anything, and a stuttering step changes nothing.
LEMMA OtherStep ==
  ASSUME WheelInv, OtherEffect \/ UNCHANGED vars
  PROVE  WheelInv'
<1>1. /\ UNCHANGED <<block, wheel, fresh, given, aimed, overtaken>> /\ msg' \in Messages
  BY ConstantsTyped DEF OtherEffect, vars, history, WheelInv, TypeOK
<1> QED BY <1>1, TypeOKIs DEF WheelInv, TypeOK, Blocks, ForceReaches, ShapeReaches, DurationNotStale,
                Noticed, Plain, Aimed, Kept, EnvelopePending, InWheel, Free

LEMMA NextInv == WheelInv /\ [Next]_vars => WheelInv'
<1> SUFFICES ASSUME WheelInv, [Next]_vars PROVE WheelInv'
  OBVIOUS
<1>1. ASSUME NEW type \in Types, NEW g \in Gains, Create(type, g) PROVE WheelInv'
  BY <1>1, CreateStep
<1>2. ASSUME NEW d \in Durations, NEW g \in Gains, NEW axis \in BOOLEAN, NEW dir \in {Up, Down},
             SetEffect(d, g, axis, dir)
      PROVE  WheelInv'
  BY <1>2, SetEffectStep
<1>3. ASSUME NEW v \in Values,
             SetPeriodic(v) \/ SetConstantForce(v) \/ SetRampForce(v) \/ SetCondition(v) \/ SetEnvelope(v)
      PROVE  WheelInv'
  BY <1>3, PeriodicStep, ConstantStep, StoredStep
<1>4. BlockFree \/ Reset \/ OtherEffect \/ UNCHANGED vars => WheelInv'
  BY FreeStep, ResetStep, OtherStep
<1> QED BY <1>1, <1>2, <1>3, <1>4 DEF Next

-----------------------------------------------------------------------------

\* The inductive invariant, for all parameters, gains and durations.
THEOREM WheelInvariant == Spec => []WheelInv
<1>1. Init => WheelInv
  BY InitInv
<1>2. WheelInv /\ [Next]_vars => WheelInv'
  BY NextInv
<1> QED BY <1>1, <1>2, PTL DEF Spec

\* What run wheel_attributes checks for two parameters: force, envelope,
\* direction and duration of an effect in the wheel are the host's.
THEOREM WheelSafety == Spec => [](TypeOK /\ ForceReaches /\ ShapeReaches /\ DurationNotStale)
<1>1. WheelInv => TypeOK /\ ForceReaches /\ ShapeReaches /\ DurationNotStale
  BY DEF WheelInv
<1> QED BY <1>1, WheelInvariant, PTL

=============================================================================
