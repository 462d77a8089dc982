------------------------- MODULE FfbPlaybackProofs -------------------------
(***************************************************************************)
(* The invariants of FfbPlayback, for every number of effects, every       *)
(* clock, every duration and every start delay.                            *)
(***************************************************************************)
EXTENDS FfbPlayback, NatLemmas, TLAPS

Block == [state : SUBSET Flag, duration : Nat, startStop : Nat,
          wheel : BOOLEAN, began : 0 .. Horizon, moved : BOOLEAN]

\* An effect that plays, or that the main loop will start.
Started(b) == "Playing" \in b.state \/ "DelayedPlay" \in b.state
Sent(b) == "SentToDevice" \in b.state

\* A block the wheel agrees with; a start delay is armed only for an effect
\* that was uploaded.
Sound(b) == (Playing(b) <=> b.wheel) /\ (Started(b) => Sent(b))

-----------------------------------------------------------------------------
(* The functions of ffb.c, on one effect block. *)

LEMMA ClockType == now \in Nat => Millis \in Nat
BY PlaybackAssumption DEF Millis

\* Uint16ToMidiUint14 subtracts only a bit that is there.
LEMMA MidiDurationType == \A d \in Nat : MidiDuration(d) \in Nat
<1> SUFFICES ASSUME NEW d \in Nat PROVE MidiDuration(d) \in Nat
  OBVIOUS
<1>1. LostBit \in Nat /\ LostBit > 0 /\ InfiniteFrom \in Nat
  BY PlaybackAssumption
<1>2. d < LostBit => d \div LostBit = 0
  BY <1>1
<1>. QED
  BY <1>1, <1>2 DEF MidiDuration, Infinite

LEMMA StartOfBlock ==
  ASSUME now \in 0 .. Horizon, NEW b \in Block
  PROVE  /\ StartOf(b) \in Block
         /\ Sent(StartOf(b)) <=> Sent(b)
         /\ Sound(b) /\ Sent(b) => Sound(StartOf(b))
<1>1. Millis \in Nat /\ now \in 0 .. Horizon
  BY ClockType, PlaybackAssumption
<1>2. CASE Playing(b)
  <2>1. StartOf(b) = b
    BY <1>2, Zenon DEF StartOf
  <2>. QED
    BY <2>1, Zenon
<1>3. CASE ~Playing(b) /\ "ToDelay" \in b.state
  <2> DEFINE s == (b.state \ {"ToDelay"}) \cup {"DelayedPlay"}
  <2>1. (b.startStop + Millis) % ClockMod \in Nat
    BY <1>1, PlaybackAssumption DEF Block
  <2>2. s \in SUBSET Flag
    BY DEF Block, Flag
  <2>3. StartOf(b) = [b EXCEPT !.startStop = (@ + Millis) % ClockMod, !.state = s]
    BY <1>3, Zenon DEF StartOf
  <2>4. StartOf(b) \in Block
    BY <2>1, <2>2, <2>3, Zenon DEF Block
  <2>5. StartOf(b).state = s /\ StartOf(b).wheel = b.wheel
    BY <2>3 DEF Block
  <2>. QED
    BY <1>3, <2>4, <2>5 DEF Sound, Playing, Started, Sent
<1>4. CASE ~Playing(b) /\ "ToDelay" \notin b.state
  <2> DEFINE s == b.state \cup {"Playing"}
  <2>1. s \in SUBSET Flag
    BY DEF Block, Flag
  <2>2. StartOf(b) = [b EXCEPT !.state = s, !.startStop = Millis,
                               !.wheel = TRUE, !.began = now, !.moved = FALSE]
    BY <1>4, Zenon DEF StartOf
  <2>3. StartOf(b) \in Block
    BY <1>1, <2>1, <2>2, Zenon DEF Block
  <2>4. StartOf(b).state = s /\ StartOf(b).wheel = TRUE
    BY <2>2 DEF Block
  <2>. QED
    BY <1>4, <2>3, <2>4 DEF Sound, Playing, Started, Sent
<1>. QED
  BY <1>2, <1>3, <1>4

LEMMA StopOfBlock ==
  ASSUME now \in 0 .. Horizon, NEW b \in Block
  PROVE  /\ StopOf(b) \in Block
         /\ StopOf(b).state = b.state \ {"Playing"} /\ ~StopOf(b).wheel
         /\ Sent(StopOf(b)) <=> Sent(b)
         /\ Started(StopOf(b)) => "DelayedPlay" \in b.state
         /\ Sound(b) => Sound(StopOf(b))
<1> DEFINE s == b.state \ {"Playing"}
           t == IF Playing(b) THEN Millis ELSE b.startStop
<1>1. Millis \in Nat /\ 0 \in 0 .. Horizon
  BY ClockType, PlaybackAssumption
<1>2. s \in SUBSET Flag /\ t \in Nat
  BY <1>1 DEF Block, Flag
<1>3. StopOf(b) = [b EXCEPT !.state = s, !.wheel = FALSE, !.began = 0, !.moved = FALSE,
                            !.startStop = t]
  BY Zenon DEF StopOf
<1> HIDE DEF t
<1>4. StopOf(b) \in Block
  BY <1>1, <1>2, <1>3, Zenon DEF Block
<1>5. StopOf(b).wheel = FALSE /\ StopOf(b).state = s
  BY <1>3 DEF Block
<1>. QED
  BY <1>4, <1>5 DEF Sound, Playing, Started, Sent

\* updateEffectStates starts nothing that was not armed.
LEMMA LoopOfBlock ==
  ASSUME now \in 0 .. Horizon, NEW b \in Block
  PROVE  /\ LoopOf(b) \in Block
         /\ Sent(LoopOf(b)) <=> Sent(b)
         /\ Started(LoopOf(b)) => Started(b)
         /\ Sound(b) => Sound(LoopOf(b))
<1> DEFINE c == [b EXCEPT !.state = @ \ {"Playing"}]
           ended == IF Ends(b) THEN StopOf(c) ELSE b
           armed == [ended EXCEPT !.state = @ \ {"ToDelay", "DelayedPlay"}]
<1>1. c \in Block /\ c.state = b.state \ {"Playing"}
  BY DEF Block
<1>2. /\ ended \in Block
      /\ Sent(ended) <=> Sent(b)
      /\ Started(ended) => Started(b)
      /\ Sound(b) => Sound(ended)
  <2>1. CASE Ends(b)
    <3>1. ended = StopOf(c)
      BY <2>1, Zenon
    <3> HIDE DEF c, ended
    <3>2. StopOf(c) \in Block /\ StopOf(c).state = c.state \ {"Playing"} /\ ~StopOf(c).wheel
      BY <1>1, StopOfBlock
    <3>. QED
      BY <1>1, <3>1, <3>2 DEF Sound, Playing, Started, Sent
  <2>2. CASE ~Ends(b)
    <3>1. ended = b
      BY <2>2, Zenon
    <3>. QED
      BY <3>1, Zenon
  <2>. QED
    BY <2>1, <2>2
<1> HIDE DEF c, ended
<1>3. /\ armed \in Block
      /\ Sent(armed) <=> Sent(ended)
      /\ Sound(ended) => Sound(armed)
  <2>1. armed \in Block /\ armed.state = ended.state \ {"ToDelay", "DelayedPlay"}
        /\ armed.wheel = ended.wheel
    BY <1>2 DEF Block
  <2>. QED
    BY <2>1, <1>2 DEF Sound, Playing, Started, Sent
<1>4. LoopOf(b) = IF Due(b) THEN StartOf(armed) ELSE ended
  BY Zenon DEF LoopOf, ended, c
<1> HIDE DEF armed
<1>5. CASE ~Due(b)
  BY <1>2, <1>4, <1>5, Zenon
<1>6. CASE Due(b)
  <2>1. /\ StartOf(armed) \in Block
        /\ Sent(StartOf(armed)) <=> Sent(armed)
        /\ Sound(armed) /\ Sent(armed) => Sound(StartOf(armed))
    BY <1>3, StartOfBlock
  <2>2. Started(b)
    BY <1>6, Zenon DEF Due, Started
  <2>3. Sound(b) => Sent(b)
    BY <2>2, Zenon DEF Sound
  <2>. QED
    BY <1>2, <1>3, <1>4, <1>6, <2>1, <2>2, <2>3, Zenon
<1>. QED
  BY <1>5, <1>6, Zenon

-----------------------------------------------------------------------------
(* The invariant. *)

PlayInv ==
  /\ TypeOK
  /\ \A e \in Eids : /\ Sound(eff[e])
                     /\ Sent(eff[e]) => e \in loaded
                     /\ Started(eff[e]) => asked[e] \in {"play", "late"}

\* An unused block, whatever its start time.
LEMMA IdleBlock ==
  ASSUME NEW b \in Block, b.state \subseteq {"Allocated"}, ~b.wheel
  PROVE  Sound(b) /\ ~Sent(b) /\ ~Started(b)
BY DEF Sound, Playing, Started, Sent

LEMMA InitPlayInv == Init => PlayInv
<1> SUFFICES ASSUME Init PROVE PlayInv
  OBVIOUS
<1>1. NewBlock \in Block /\ NewBlock.state = {} /\ ~NewBlock.wheel
  BY PlaybackAssumption DEF NewBlock, Block, Free
<1>2. \A e \in Eids : eff[e] = NewBlock
  BY DEF Init
<1>3. eff \in [Eids -> Block] /\ asked \in [Eids -> {"play", "stop", "late"}]
  BY <1>1, Zenon DEF Init
<1>4. /\ now \in 0 .. Horizon /\ hung \in BOOLEAN
      /\ loaded \subseteq Eids /\ held \subseteq Eids
  <2>1. now \in 0 .. Horizon
    BY PlaybackAssumption DEF Init
  <2>. QED
    BY <2>1, Zenon DEF Init
<1>5. TypeOK
  BY <1>3, <1>4, Zenon DEF TypeOK, Block
<1>. QED
  BY <1>1, <1>2, <1>5, IdleBlock DEF PlayInv

\* One action at a time: what is left to show of an action is what it does to
\* each effect.
LEMMA Effectwise ==
  ASSUME PlayInv, hung' \in BOOLEAN, now' \in 0 .. Horizon,
         held' \subseteq Eids, loaded' \subseteq Eids,
         eff' = [e \in Eids |-> eff'[e]], asked' = [e \in Eids |-> asked'[e]],
         \A e \in Eids : /\ eff'[e] \in Block /\ Sound(eff'[e])
                         /\ asked'[e] \in {"play", "stop", "late"}
                         /\ Sent(eff'[e]) => e \in loaded'
                         /\ Started(eff'[e]) => asked'[e] \in {"play", "late"}
  PROVE  PlayInv'
<1>1. eff' \in [Eids -> Block] /\ asked' \in [Eids -> {"play", "stop", "late"}]
  BY Zenon
<1>2. TypeOK'
  BY <1>1, Zenon DEF TypeOK, Block
<1>. QED
  BY <1>2, Zenon DEF PlayInv, Sound, Sent, Started, Playing

\* What the invariant says of one effect, as the actions use it.
LEMMA OneEffect ==
  ASSUME PlayInv, NEW e \in Eids
  PROVE  /\ eff[e] \in Block /\ Sound(eff[e])
         /\ asked[e] \in {"play", "stop", "late"}
         /\ Sent(eff[e]) => e \in loaded
         /\ Started(eff[e]) => asked[e] \in {"play", "late"}
<1>1. eff \in [Eids -> Block] /\ asked \in [Eids -> {"play", "stop", "late"}]
  BY Zenon DEF PlayInv, TypeOK, Block
<1>2. eff[e] \in Block /\ asked[e] \in {"play", "stop", "late"}
  BY <1>1
<1>. QED
  BY <1>2 DEF PlayInv

\* stopAllEffects, and the word it leaves.
LEMMA Stopped ==
  ASSUME PlayInv, NEW e \in Eids
  PROVE  /\ StopOf(eff[e]) \in Block /\ Sound(StopOf(eff[e])) /\ ~StopOf(eff[e]).wheel
         /\ AskedToStop(e) \in {"play", "stop", "late"}
         /\ Sent(StopOf(eff[e])) => e \in loaded
         /\ Started(StopOf(eff[e])) => AskedToStop(e) \in {"play", "late"}
<1>1. now \in 0 .. Horizon
  BY DEF PlayInv, TypeOK
<1>. QED
  BY <1>1, OneEffect, StopOfBlock, Zenon DEF AskedToStop

LEMMA NextPlayInv == PlayInv /\ [Next]_vars => PlayInv'
<1> SUFFICES ASSUME PlayInv, [Next]_vars PROVE PlayInv'
  OBVIOUS
<1>0. /\ now \in 0 .. Horizon /\ hung \in BOOLEAN
      /\ held \subseteq Eids /\ loaded \subseteq Eids
      /\ eff = [e \in Eids |-> eff[e]] /\ asked = [e \in Eids |-> asked[e]]
  BY Zenon DEF PlayInv, TypeOK
<1>1. CASE Create
  <2> DEFINE e == Min(FreeIds)
             new == [eff[e] EXCEPT !.state = {"Allocated"}, !.duration = Infinite]
  <2>1. e \in Eids /\ eff[e].state = {}
    <3>1. FreeIds \in SUBSET Nat /\ FreeIds # {} /\ FreeIds \subseteq Eids
      BY <1>1, PlaybackAssumption DEF Create, FreeIds, Eids
    <3>. QED
      BY <3>1, MinIsLeast DEF FreeIds, Free
  <2> HIDE DEF e
  <2>2. new \in Block /\ new.state = {"Allocated"} /\ new.wheel = eff[e].wheel
    BY <2>1, OneEffect DEF Block, Flag, Infinite
  <2>3. ~eff[e].wheel
    BY <2>1, OneEffect DEF Sound, Playing
  <2>4. Sound(new) /\ ~Sent(new) /\ ~Started(new)
    BY <2>2, <2>3 DEF Sound, Playing, Sent, Started
  <2>5. /\ eff' = [eff EXCEPT ![e] = new] /\ asked' = [asked EXCEPT ![e] = "stop"]
        /\ held' = held \cup {e} /\ UNCHANGED <<loaded, now, hung>>
    BY <1>1 DEF Create, e
  <2> HIDE DEF new
  <2>. QED
    BY <1>0, <2>1, <2>2, <2>4, <2>5, OneEffect, Effectwise
<1>2. CASE CreateHangs
  BY <1>0, <1>2, OneEffect, Effectwise DEF CreateHangs
<1>3. ASSUME NEW e \in Eids, NEW d \in Durations, NEW delay \in Delays, SetEffect(e, d, delay)
      PROVE  PlayInv'
  <2> DEFINE flags == eff[e].state \cup {"SentToDevice"} \cup
                      (IF delay > 0 THEN {"ToDelay"} ELSE {})
             due == IF delay > 0 THEN delay ELSE eff[e].startStop
             over == eff[e].moved \/ (delay > 0 /\ Playing(eff[e]))
             new == [eff[e] EXCEPT !.duration = MidiDuration(d), !.state = flags,
                                   !.startStop = due, !.moved = over]
  <2>1. MidiDuration(d) \in Nat /\ delay \in Nat
    BY <1>3, MidiDurationType, PlaybackAssumption
  <2>2. flags \in SUBSET Flag /\ due \in Nat /\ over \in BOOLEAN
    <3>1. flags \in SUBSET Flag
      BY OneEffect DEF Block, Flag
    <3>2. due \in Nat
      BY <2>1, OneEffect DEF Block
    <3>3. over \in BOOLEAN
      BY OneEffect, Zenon DEF Block
    <3>. QED
      BY <3>1, <3>2, <3>3
  <2>3. /\ "SentToDevice" \in flags
        /\ "Playing" \in flags <=> "Playing" \in eff[e].state
        /\ "DelayedPlay" \in flags <=> "DelayedPlay" \in eff[e].state
    OBVIOUS
  <2> HIDE DEF flags, due, over
  <2>4. new \in Block /\ new.state = flags /\ new.wheel = eff[e].wheel
    BY <2>1, <2>2, OneEffect DEF Block
  <2>5. Sound(new) /\ (Started(new) => Started(eff[e]))
    BY <2>3, <2>4, OneEffect DEF Sound, Playing, Sent, Started
  <2>6. eff' = [eff EXCEPT ![e] = new] /\ UNCHANGED <<held, now, hung, asked>>
    BY <1>3 DEF SetEffect, new, flags, due, over
  <2>7. loaded' = loaded \cup {e}
    BY <1>3, OneEffect DEF SetEffect, Upload, Sent
  <2> HIDE DEF new
  <2>. QED
    BY <1>0, <2>4, <2>5, <2>6, <2>7, OneEffect, Effectwise
<1>4. ASSUME NEW e \in Eids, OpStart(e) PROVE PlayInv'
  <2>1. /\ StartOf(eff[e]) \in Block /\ Sent(StartOf(eff[e])) /\ Sent(eff[e])
        /\ Sound(StartOf(eff[e]))
    BY <1>0, <1>4, OneEffect, StartOfBlock DEF OpStart, Sent
  <2>2. /\ eff' = [eff EXCEPT ![e] = StartOf(eff[e])] /\ asked' = [asked EXCEPT ![e] = "play"]
        /\ UNCHANGED <<loaded, held, now, hung>>
    BY <1>4 DEF OpStart
  <2>. QED
    BY <1>0, <2>1, <2>2, OneEffect, Effectwise
<1>5. ASSUME NEW e \in Eids, OpSolo(e) PROVE PlayInv'
  <2>1. /\ StopOf(eff[e]) \in Block /\ Sent(StopOf(eff[e])) /\ Sent(eff[e])
        /\ Sound(StopOf(eff[e]))
    BY <1>0, <1>5, OneEffect, StopOfBlock DEF OpSolo, Sent
  <2>2. /\ StartOf(StopOf(eff[e])) \in Block /\ Sound(StartOf(StopOf(eff[e])))
    BY <1>0, <2>1, StartOfBlock
  <2>3. /\ eff' = [f \in Eids |-> IF f = e THEN StartOf(StopOf(eff[e])) ELSE StopOf(eff[f])]
        /\ asked' = [f \in Eids |-> IF f = e THEN "play" ELSE AskedToStop(f)]
        /\ UNCHANGED <<loaded, held, now, hung>>
    BY <1>5 DEF OpSolo, StopAll
  <2>. QED
    BY <1>0, <2>1, <2>2, <2>3, OneEffect, Stopped, Effectwise
<1>6. ASSUME NEW e \in Eids, OpStop(e) PROVE PlayInv'
  <2>1. /\ eff' = [eff EXCEPT ![e] = StopOf(eff[e])]
        /\ asked' = [asked EXCEPT ![e] = AskedToStop(e)]
        /\ UNCHANGED <<loaded, held, now, hung>>
    BY <1>6 DEF OpStop
  <2>. QED
    BY <1>0, <2>1, OneEffect, Stopped, Effectwise
<1>7. ASSUME NEW S \in SUBSET Eids, FreeEffects(S), held' \subseteq held,
             UNCHANGED <<now, hung, asked>>
      PROVE  PlayInv'
  <2> DEFINE freed(e) == [eff[e] EXCEPT !.state = Free, !.wheel = FALSE,
                                        !.began = 0, !.moved = FALSE]
  <2>1. \A e \in Eids : freed(e) \in Block /\ freed(e).state = {} /\ ~freed(e).wheel
    <3> SUFFICES ASSUME NEW e \in Eids
                 PROVE  freed(e) \in Block /\ freed(e).state = {} /\ ~freed(e).wheel
      OBVIOUS
    <3>1. eff[e] \in Block /\ 0 \in 0 .. Horizon /\ {} \in SUBSET Flag
      BY OneEffect, PlaybackAssumption
    <3>. QED
      BY <3>1, Zenon DEF Block, Free
  <2>2. eff' = [e \in Eids |-> IF e \in S THEN freed(e) ELSE eff[e]] /\ loaded' = loaded \ S
    BY <1>7, Zenon DEF FreeEffects
  <2> HIDE DEF freed
  <2>3. \A e \in Eids : Sound(freed(e)) /\ ~Sent(freed(e)) /\ ~Started(freed(e))
    BY <2>1, IdleBlock
  <2>. QED
    BY <1>0, <1>7, <2>1, <2>2, <2>3, OneEffect, Effectwise
<1>8. CASE ControlStopAll
  BY <1>0, <1>8, Stopped, Effectwise DEF ControlStopAll, StopAll
<1>9. CASE ControlReset
  <2> DEFINE new(e) == [NewBlock EXCEPT !.wheel = StopOf(eff[e]).wheel]
  <2>1. \A e \in Eids : new(e) \in Block /\ new(e).state = {} /\ ~new(e).wheel
    <3>1. NewBlock \in Block /\ NewBlock.state = {}
      BY PlaybackAssumption DEF NewBlock, Block, Free
    <3>2. \A e \in Eids : ~StopOf(eff[e]).wheel /\ StopOf(eff[e]).wheel \in BOOLEAN
      BY Stopped, Zenon DEF Block
    <3>. QED
      BY <3>1, <3>2, Zenon DEF Block
  <2>2. eff' = [e \in Eids |-> new(e)] /\ asked' = [e \in Eids |-> "stop"] /\ held' = {}
        /\ UNCHANGED <<loaded, now, hung>>
    BY <1>9 DEF ControlReset, StopAll
  <2> HIDE DEF new
  <2>3. \A e \in Eids : Sound(new(e)) /\ ~Sent(new(e)) /\ ~Started(new(e))
    BY <2>1, IdleBlock
  <2>. QED
    BY <1>0, <2>1, <2>2, <2>3, Effectwise
<1>10. (\E e \in Eids : BlockFree(e)) \/ BlockFreeAll => PlayInv'
  BY <1>0, <1>7 DEF BlockFree, BlockFreeAll
<1>11. CASE Loop
  <2>1. \A e \in Eids : /\ LoopOf(eff[e]) \in Block /\ Sound(LoopOf(eff[e]))
                        /\ Sent(LoopOf(eff[e])) => Sent(eff[e])
                        /\ Started(LoopOf(eff[e])) => Started(eff[e])
    BY <1>0, OneEffect, LoopOfBlock
  <2>. QED
    BY <1>0, <1>11, <2>1, OneEffect, Effectwise DEF Loop
<1>12. CASE Tick
  <2>1. now' \in 0 .. Horizon
    BY <1>0, <1>12, PlaybackAssumption DEF Tick
  <2>. QED
    BY <1>0, <1>12, <2>1, OneEffect, Effectwise DEF Tick
<1>13. CASE UNCHANGED vars
  BY <1>0, <1>13, OneEffect, Effectwise DEF vars
<1>. QED
  BY <1>1, <1>2, <1>3, <1>4, <1>5, <1>6, <1>8, <1>9, <1>10, <1>11, <1>12, <1>13, Zenon
     DEF Next

\* The invariant of playback, from boot on.
THEOREM PlayInvariant == Spec => []PlayInv
BY InitPlayInv, NextPlayInv, PTL DEF Spec

\* The Playing bit of every effect is what the wheel was told (startEffect,
\* stopEffect, freeEffect, updateEffectStates); the wheel plays only what was
\* uploaded, and only what the host asked for last, whatever the clock does.
THEOREM PlaySafety == Spec => [](TypeOK /\ WheelAgrees /\ PlaysOnlyLoaded /\ PlaysOnlyAsked)
<1>1. PlayInv => TypeOK /\ WheelAgrees
  BY DEF PlayInv, WheelAgrees, Sound
<1>2. PlayInv => PlaysOnlyLoaded /\ PlaysOnlyAsked
  BY DEF PlayInv, PlaysOnlyLoaded, PlaysOnlyAsked, Sound, Started, Playing
<1>. QED
  BY <1>1, <1>2, PlayInvariant, PTL

-----------------------------------------------------------------------------
(* Solo, and the time an effect gets. *)

\* Start Solo leaves nothing else playing, for any number of effects.
THEOREM PlaySoloAlone == Spec => SoloAlone
<1>1. ASSUME PlayInv, NEW e \in Eids, OpSolo(e), NEW f \in Eids \ {e}
      PROVE  ~eff'[f].wheel
  <2>1. eff'[f] = StopOf(eff[f])
    BY <1>1 DEF OpSolo, StopAll
  <2>. QED
    BY <1>1, <2>1, Stopped, Zenon
<1>2. PlayInv => \A e \in Eids : OpSolo(e) => \A f \in Eids \ {e} : ~eff'[f].wheel
  BY <1>1, Zenon
<1>. QED
  BY <1>2, PlayInvariant, PTL DEF Spec, SoloAlone

\* Between two readings of the clock, without its wrap in between, no more time
\* shows on it than has gone by.
LEMMA ClockDistance ==
  ASSUME NEW x \in Nat, NEW y \in Nat, x <= y, NEW m \in Nat \ {0}
  PROVE  (y % m) - (x % m) <= y - x
<1> DEFINE p == x \div m
           q == y \div m
           r == x % m
           s == y % m
<1>1. /\ p \in Int /\ r \in 0 .. m - 1 /\ x = m * p + r
      /\ q \in Int /\ s \in 0 .. m - 1 /\ y = m * q + s
  OBVIOUS
<1> HIDE DEF p, q, r, s
<1>2. p <= q
  <2> SUFFICES ASSUME p >= q + 1 PROVE FALSE
    BY <1>1
  <2>1. m * p >= m * (q + 1)
    BY <1>1
  <2>2. m * (q + 1) = m * q + m
    BY <1>1
  <2>. QED
    BY <1>1, <2>1, <2>2
<1>3. m * p <= m * q
  BY <1>1, <1>2
<1>4. s - r <= y - x
  BY <1>1, <1>3
<1>. QED
  BY <1>4 DEF r, s

\* Unless a start delay overwrote it, the start time of an effect that plays is
\* what the clock showed when the wheel was told to start it.
Timed(b) ==
  b.wheel /\ ~b.moved => b.startStop = (BootTime + b.began) % ClockMod /\ b.began <= now

LEMMA StartOfTimed ==
  ASSUME now \in 0 .. Horizon, NEW b \in Block, Sound(b), Timed(b)
  PROVE  Timed(StartOf(b))
<1>1. CASE Playing(b)
  BY <1>1 DEF StartOf
<1>2. CASE ~Playing(b) /\ "ToDelay" \in b.state
  <2> DEFINE s == (b.state \ {"ToDelay"}) \cup {"DelayedPlay"}
  <2>1. StartOf(b) = [b EXCEPT !.startStop = (@ + Millis) % ClockMod, !.state = s]
    BY <1>2, Zenon DEF StartOf
  <2>2. ~StartOf(b).wheel
    BY <1>2, <2>1 DEF Block, Sound
  <2>. QED
    BY <2>2 DEF Timed
<1>3. CASE ~Playing(b) /\ "ToDelay" \notin b.state
  <2>1. StartOf(b) = [b EXCEPT !.state = @ \cup {"Playing"}, !.startStop = Millis,
                               !.wheel = TRUE, !.began = now, !.moved = FALSE]
    BY <1>3, Zenon DEF StartOf
  <2>2. StartOf(b).startStop = (BootTime + now) % ClockMod /\ StartOf(b).began = now
    BY <2>1 DEF Block, Millis
  <2>. QED
    BY <2>2 DEF Timed
<1>. QED
  BY <1>1, <1>2, <1>3

LEMMA StopOfTimed ==
  ASSUME now \in 0 .. Horizon, NEW b \in Block, Timed(b)
  PROVE  Timed(StopOf(b))
<1> DEFINE t == IF Playing(b) THEN Millis ELSE b.startStop
<1>1. StopOf(b) = [b EXCEPT !.state = b.state \ {"Playing"}, !.wheel = FALSE, !.began = 0,
                            !.moved = FALSE, !.startStop = t]
  BY Zenon DEF StopOf
<1> HIDE DEF t
<1>2. ~StopOf(b).wheel
  BY <1>1 DEF Block
<1>. QED
  BY <1>2 DEF Timed

\* updateEffectStates keeps time, and ends only what has had its time.
LEMMA LoopOfTimed ==
  ASSUME now \in 0 .. Horizon, NEW b \in Block, Sound(b), Timed(b)
  PROVE  /\ Timed(LoopOf(b))
         /\ b.wheel /\ ~LoopOf(b).wheel => Ends(b)
<1> DEFINE c == [b EXCEPT !.state = @ \ {"Playing"}]
           ended == IF Ends(b) THEN StopOf(c) ELSE b
           armed == [ended EXCEPT !.state = @ \ {"ToDelay", "DelayedPlay"}]
<1>1. /\ c \in Block /\ c.state = b.state \ {"Playing"} /\ c.wheel = b.wheel
      /\ c.moved = b.moved /\ c.startStop = b.startStop /\ c.began = b.began
  BY DEF Block
<1>2. /\ ended \in Block /\ Timed(ended) /\ Sound(ended)
      /\ b.wheel => Ends(b) \/ ended.wheel
  <2>1. CASE Ends(b)
    <3>1. ended = StopOf(c)
      BY <2>1, Zenon
    <3> HIDE DEF c, ended
    <3>2. Timed(c)
      BY <1>1 DEF Timed
    <3>3. StopOf(c) \in Block /\ StopOf(c).state = c.state \ {"Playing"} /\ ~StopOf(c).wheel
      BY <1>1, StopOfBlock
    <3>4. Sound(StopOf(c))
      BY <1>1, <3>3 DEF Sound, Playing, Started, Sent
    <3>. QED
      BY <1>1, <2>1, <3>1, <3>2, <3>3, <3>4, StopOfTimed
  <2>2. CASE ~Ends(b)
    <3>1. ended = b
      BY <2>2, Zenon
    <3>. QED
      BY <3>1, Zenon
  <2>. QED
    BY <2>1, <2>2
<1> HIDE DEF c, ended
<1>3. armed \in Block /\ Timed(armed) /\ Sound(armed) /\ armed.wheel = ended.wheel
  <2>1. /\ armed \in Block /\ armed.state = ended.state \ {"ToDelay", "DelayedPlay"}
        /\ armed.wheel = ended.wheel /\ armed.moved = ended.moved
        /\ armed.startStop = ended.startStop /\ armed.began = ended.began
    BY <1>2 DEF Block
  <2>. QED
    BY <2>1, <1>2 DEF Timed, Sound, Playing, Started, Sent
<1>4. LoopOf(b) = IF Due(b) THEN StartOf(armed) ELSE ended
  BY Zenon DEF LoopOf, ended, c
<1> HIDE DEF armed
<1>5. Timed(StartOf(armed)) /\ (armed.wheel => StartOf(armed).wheel)
  <2>1. Timed(StartOf(armed))
    BY <1>3, StartOfTimed
  <2>2. armed.wheel => StartOf(armed) = armed
    BY <1>3, Zenon DEF StartOf, Sound
  <2>. QED
    BY <2>1, <2>2, Zenon
<1>6. CASE Due(b)
  <2>1. LoopOf(b) = StartOf(armed)
    BY <1>4, <1>6, Zenon
  <2>. QED
    BY <1>2, <1>3, <1>5, <2>1, Zenon
<1>7. CASE ~Due(b)
  <2>1. LoopOf(b) = ended
    BY <1>4, <1>7, Zenon
  <2>. QED
    BY <1>2, <2>1, Zenon
<1>. QED
  BY <1>6, <1>7

\* The comparison of updateEffectStates: an end before the wrap is not reached
\* early.
LEMMA EndedInTime ==
  ASSUME now \in 0 .. Horizon, NEW b \in Block, Timed(b), b.wheel, Ends(b)
  PROVE  now > b.began + b.duration \/ b.moved \/ EndWraps(b)
<1> SUFFICES ASSUME ~b.moved, ~EndWraps(b) PROVE now > b.began + b.duration
  OBVIOUS
<1> DEFINE start == (BootTime + b.began) % ClockMod
<1>1. b.duration \in Nat /\ b.began \in Nat /\ b.began <= now /\ b.startStop = start
  BY DEF Timed, Block
<1>2. /\ BootTime + b.began \in Nat /\ BootTime + now \in Nat
      /\ BootTime + b.began <= BootTime + now
      /\ ClockMod \in Nat \ {0}
  BY <1>1, PlaybackAssumption
<1>3. start \in Nat /\ Millis \in Nat
  BY <1>2 DEF Millis
<1>4. start + b.duration < ClockMod
  BY <1>1, <1>2, <1>3 DEF EndWraps
<1>5. Millis - start <= now - b.began
  <2>1. ((BootTime + now) % ClockMod) - start <= (BootTime + now) - (BootTime + b.began)
    BY <1>2, ClockDistance, Zenon
  <2> HIDE DEF start
  <2>. QED
    BY <1>1, <1>3, <2>1, PlaybackAssumption DEF Millis
<1> HIDE DEF start
<1>6. (b.startStop + b.duration) % ClockMod = start + b.duration
  BY <1>1, <1>2, <1>3, <1>4
<1>. QED
  BY <1>1, <1>3, <1>5, <1>6 DEF Ends

TimedInv == \A e \in Eids : Timed(eff[e])

LEMMA InitTimedInv == Init => TimedInv
BY DEF Init, TimedInv, Timed, NewBlock

LEMMA ClockRuns == [Next]_vars => now' = now \/ now' = now + 1
BY Zenon DEF Next, vars, Create, CreateHangs, SetEffect, OpStart, OpSolo, OpStop, BlockFree,
             ControlStopAll, ControlReset, BlockFreeAll, Loop, Tick

LEMMA NextTimedInv ==
  ASSUME PlayInv, TimedInv, [Next]_vars
  PROVE  TimedInv'
<1>0. now \in 0 .. Horizon /\ eff = [e \in Eids |-> eff[e]]
  BY Zenon DEF PlayInv, TypeOK
<1> DEFINE Step(f) == eff'[f] = eff[f] \/ Timed(eff'[f])
<1> SUFFICES ASSUME NEW f \in Eids PROVE Step(f)
  <2>1. now' \in Nat /\ now <= now'
    BY <1>0, ClockRuns
  <2>2. \A f \in Eids : eff'[f] \in Block
    BY NextPlayInv, Zenon DEF PlayInv, TypeOK, Block
  <2>3. \A f \in Eids : Timed(eff'[f]) => Timed(eff[f])'
    BY <1>0, <2>1, <2>2 DEF Timed, Block
  <2>4. \A f \in Eids : Timed(eff[f])
    BY DEF TimedInv
  <2>. QED
    BY <2>3, <2>4, Zenon DEF TimedInv
<1>1. eff[f] \in Block /\ Sound(eff[f]) /\ Timed(eff[f])
  BY OneEffect DEF TimedInv
<1>2. CASE Create
  <2> DEFINE e == Min(FreeIds)
             new == [eff[e] EXCEPT !.state = {"Allocated"}, !.duration = Infinite]
  <2>1. e \in Eids /\ eff[e].state = {}
    <3>1. FreeIds \in SUBSET Nat /\ FreeIds # {} /\ FreeIds \subseteq Eids
      BY <1>2, PlaybackAssumption DEF Create, FreeIds, Eids
    <3>. QED
      BY <3>1, MinIsLeast DEF FreeIds, Free
  <2>2. eff' = [eff EXCEPT ![e] = new]
    BY <1>2 DEF Create
  <2> HIDE DEF e
  <2>3. ~eff[e].wheel /\ eff[e] \in Block
    BY <2>1, OneEffect DEF Sound, Playing
  <2>4. ~new.wheel
    BY <2>3 DEF Block
  <2>5. Timed(new)
    BY <2>4 DEF Timed
  <2> HIDE DEF new
  <2>. QED
    BY <1>0, <2>1, <2>2, <2>5
<1>3. ASSUME NEW e \in Eids, NEW d \in Durations, NEW delay \in Delays, SetEffect(e, d, delay)
      PROVE  Step(f)
  <2> DEFINE b == eff[e]
             flags == b.state \cup {"SentToDevice"} \cup
                      (IF delay > 0 THEN {"ToDelay"} ELSE {})
             due == IF delay > 0 THEN delay ELSE b.startStop
             over == b.moved \/ (delay > 0 /\ Playing(b))
             new == [b EXCEPT !.duration = MidiDuration(d), !.state = flags,
                              !.startStop = due, !.moved = over]
  <2>1. eff' = [eff EXCEPT ![e] = new]
    BY <1>3 DEF SetEffect
  <2>2. b \in Block /\ Sound(b) /\ Timed(b)
    BY OneEffect DEF TimedInv
  <2> HIDE DEF b, flags
  <2>3. /\ new.wheel = b.wheel /\ new.began = b.began /\ new.startStop = due
        /\ new.moved = over
    BY <2>2 DEF Block
  <2>4. b.wheel /\ ~over => due = b.startStop /\ ~b.moved
    BY <2>2, PlaybackAssumption DEF Sound
  <2> HIDE DEF new, due, over
  <2>5. Timed(new)
    BY <2>2, <2>3, <2>4 DEF Timed
  <2>. QED
    BY <1>0, <2>1, <2>5
<1>4. ASSUME NEW e \in Eids, OpStart(e) PROVE Step(f)
  <2>1. eff' = [eff EXCEPT ![e] = StartOf(eff[e])]
    BY <1>4 DEF OpStart
  <2>. QED
    BY <1>0, <1>1, <2>1, StartOfTimed
<1>5. ASSUME NEW e \in Eids, OpSolo(e) PROVE Step(f)
  <2>1. eff'[f] = IF f = e THEN StartOf(StopOf(eff[f])) ELSE StopOf(eff[f])
    BY <1>5 DEF OpSolo, StopAll
  <2>2. Timed(StopOf(eff[f])) /\ StopOf(eff[f]) \in Block /\ Sound(StopOf(eff[f]))
    BY <1>0, <1>1, StopOfTimed, StopOfBlock
  <2>. QED
    BY <1>0, <2>1, <2>2, StartOfTimed
<1>6. ASSUME NEW e \in Eids, OpStop(e) PROVE Step(f)
  <2>1. eff' = [eff EXCEPT ![e] = StopOf(eff[e])]
    BY <1>6 DEF OpStop
  <2>. QED
    BY <1>0, <1>1, <2>1, StopOfTimed
<1>7. ASSUME NEW S \in SUBSET Eids, FreeEffects(S) PROVE Step(f)
  <2> DEFINE freed == [eff[f] EXCEPT !.state = Free, !.wheel = FALSE,
                                     !.began = 0, !.moved = FALSE]
  <2>1. eff'[f] = IF f \in S THEN freed ELSE eff[f]
    BY <1>7, Zenon DEF FreeEffects
  <2>2. ~freed.wheel
    BY <1>1 DEF Block
  <2> HIDE DEF freed
  <2>3. Timed(freed)
    BY <1>1, <2>2 DEF Timed
  <2>. QED
    BY <2>1, <2>3
<1>8. CASE ControlStopAll
  BY <1>0, <1>1, <1>8, StopOfTimed DEF ControlStopAll, StopAll
<1>9. CASE ControlReset
  <2> DEFINE new == [NewBlock EXCEPT !.wheel = StopOf(eff[f]).wheel]
  <2>1. eff'[f] = new
    BY <1>9 DEF ControlReset, StopAll
  <2>2. ~new.wheel
    BY Stopped DEF NewBlock
  <2> HIDE DEF new
  <2>3. Timed(new)
    BY <2>2 DEF Timed
  <2>. QED
    BY <2>1, <2>3
<1>10. (\E e \in Eids : BlockFree(e)) \/ BlockFreeAll => Step(f)
  BY <1>7 DEF BlockFree, BlockFreeAll
<1>11. CASE Loop
  <2>1. eff'[f] = LoopOf(eff[f])
    BY <1>11 DEF Loop
  <2>. QED
    BY <1>0, <1>1, <2>1, LoopOfTimed
<1>12. CASE CreateHangs \/ Tick \/ UNCHANGED vars
  BY <1>12 DEF CreateHangs, Tick, vars
<1>. QED
  BY <1>2, <1>3, <1>4, <1>5, <1>6, <1>8, <1>9, <1>10, <1>11, <1>12, Zenon DEF Next

\* The main loop ends no effect before its duration is over, for any number of
\* effects, any durations and delays and any clock, but for one whose end lies
\* beyond the wrap of the clock or whose start time a start delay overwrote.
THEOREM PlayNotCutShort == Spec => EndsNotEarly
<1>1. Init => TimedInv
  BY InitTimedInv
<1>2. PlayInv /\ TimedInv /\ [Next]_vars => TimedInv'
  BY NextTimedInv
<1>3. PlayInv /\ TimedInv =>
        \A e \in Eids : Loop /\ eff[e].wheel /\ ~eff'[e].wheel
                          => \/ now > eff[e].began + eff[e].duration
                             \/ eff[e].moved \/ EndWraps(eff[e])
  <2> SUFFICES ASSUME PlayInv, TimedInv, NEW e \in Eids, Loop, eff[e].wheel, ~eff'[e].wheel
               PROVE  \/ now > eff[e].began + eff[e].duration
                      \/ eff[e].moved \/ EndWraps(eff[e])
    OBVIOUS
  <2>1. eff[e] \in Block /\ Sound(eff[e]) /\ Timed(eff[e]) /\ now \in 0 .. Horizon
    BY OneEffect DEF TimedInv, PlayInv, TypeOK
  <2>2. eff'[e] = LoopOf(eff[e])
    BY DEF Loop
  <2>3. Ends(eff[e])
    BY <2>1, <2>2, LoopOfTimed
  <2>. QED
    BY <2>1, <2>3, EndedInTime
<1>. QED
  BY <1>1, <1>2, <1>3, PlayInvariant, PTL DEF Spec, EndsNotEarly

=============================================================================
