------------------------- MODULE WheelMessagesProofs -------------------------
(***************************************************************************)
(* What the conversions of ffb.c and ffb-wheel.c do for every value of the *)
(* report fields, where WheelMessages samples the boundaries: strength     *)
(* survives the product with the gain, and 16-bit values become two bytes  *)
(* the wheel can take for data.  And what follows for the messages: every  *)
(* one is well-formed, passes its check, and a stronger request is never a *)
(* weaker force.                                                           *)
(***************************************************************************)
EXTENDS WheelMessages, NatLemmas, SequenceTheorems

\* The descriptor's ranges of levels and gains.
Level == 0 .. 127
Gain == 0 .. 255

\* A product grows with either factor.
LEMMA ProductGrows ==
  ASSUME NEW a \in Nat, NEW b \in Nat, NEW c \in Nat, NEW d \in Nat, a <= c, b <= d
  PROVE  a * b \in Nat /\ a * b <= c * d
<1>1. a * b \in Nat /\ c * b \in Nat /\ c * d \in Nat
  OBVIOUS
<1>2. c * b = a * b + (c - a) * b
  OBVIOUS
<1>3. c * d = c * b + c * (d - b)
  OBVIOUS
<1>4. (c - a) * b \in Nat /\ c * (d - b) \in Nat
  OBVIOUS
<1> QED BY <1>1, <1>2, <1>3, <1>4

\* Quotients keep the order, and scaling by 127 is undone.
LEMMA QuotientGrows ==
  ASSUME NEW p \in Nat, NEW q \in Nat, p <= q
  PROVE  p \div 127 \in Nat /\ p \div 127 <= q \div 127
OBVIOUS

LEMMA QuotientOfFull ==
  ASSUME NEW p \in Nat
  PROVE  (p * 127) \div 127 = p
OBVIOUS

\* A level that is scaled by a gain keeps the order of levels and of gains as
\* long as the stronger of two requests fits in seven bits, which it does
\* at every gain up to 127; with such a gain it is at most the level asked
\* for, and at 127 the level itself (calcAmplitude, ffb.c).
THEOREM AmplitudeFaithful ==
  ASSUME NEW v \in Level, NEW w \in Level, NEW g \in Gain, NEW h \in Gain, v <= w, g <= h,
         h <= 127 \/ Fits(w, h)
  PROVE  /\ CalcAmplitude(v, g) \in Level /\ CalcAmplitude(w, h) \in Level
         /\ CalcAmplitude(v, g) <= CalcAmplitude(w, h)
         /\ g <= 127 => CalcAmplitude(v, g) <= v
         /\ CalcAmplitude(v, 127) = v
<1>1. ASSUME NEW a \in Level, NEW b \in Gain
      PROVE  /\ a * b \in Nat /\ (a * b) \div 127 \in Nat
             /\ Fits(a, b) => CalcAmplitude(a, b) = (a * b) \div 127
             /\ b <= 127 => Fits(a, b) /\ (a * b) \div 127 <= a
  <2> DEFINE q == (a * b) \div 127
  <2>1. a \in Nat /\ b \in Nat /\ 127 \in Nat /\ a <= a /\ a <= 127
    BY SMT DEF Level, Gain
  <2>2. a * b \in Nat /\ a * 127 \in Nat
    BY <2>1, SMT
  <2>3. q \in Nat
    BY <2>2, SMT
  <2>4. CalcAmplitude(a, b) = q % 128 /\ (Fits(a, b) <=> q < 128)
    BY DEF CalcAmplitude, Fits
  <2>5. b <= 127 => q <= a
    <3>1. SUFFICES ASSUME b <= 127 PROVE q <= a
      OBVIOUS
    <3>2. a * b <= a * 127
      BY <2>1, <3>1, ProductGrows
    <3>3. q <= (a * 127) \div 127
      BY <2>2, <3>2, QuotientGrows
    <3>4. (a * 127) \div 127 = a
      BY <2>1, QuotientOfFull
    <3> QED BY <3>3, <3>4
  <2> HIDE DEF q
  <2>6. q < 128 => q % 128 = q
    BY <2>3, SMT
  <2>7. b <= 127 => q < 128
    BY <2>1, <2>3, <2>5, SMT
  <2> QED BY <2>2, <2>3, <2>4, <2>5, <2>6, <2>7 DEF q
<1>2. v \in Nat /\ w \in Nat /\ g \in Nat /\ h \in Nat /\ 127 \in Gain
  BY SMT DEF Level, Gain
<1> DEFINE x == (v * g) \div 127
           y == (w * h) \div 127
<1>3. x \in Nat /\ y \in Nat /\ x <= y
  <2>1. v * g \in Nat /\ w * h \in Nat
    BY <1>1
  <2>2. v * g <= w * h
    BY <1>2, ProductGrows
  <2>3. x <= y
    BY <2>1, <2>2, QuotientGrows
  <2> QED BY <1>1, <2>3
<1>4. Fits(w, h) /\ y < 128
  <2>1. Fits(w, h)
    BY <1>1
  <2> QED BY <2>1 DEF Fits
<1>5. Fits(v, g)
  <2>1. x < 128
    <3> HIDE DEF x, y
    <3> QED BY <1>3, <1>4
  <2> QED BY <2>1 DEF Fits
<1>6. CalcAmplitude(v, g) = x /\ CalcAmplitude(w, h) = y
  BY <1>1, <1>4, <1>5
<1>7. g <= 127 => x <= v
  BY <1>1
<1>8. CalcAmplitude(v, 127) = v
  <2>1. CalcAmplitude(v, 127) = (v * 127) \div 127
    BY <1>1, <1>2
  <2> QED BY <2>1, <1>2, QuotientOfFull
<1> HIDE DEF x, y
<1>9. x \in Level /\ y \in Level
  BY <1>3, <1>4 DEF Level
<1> QED BY <1>3, <1>6, <1>7, <1>8, <1>9

\* Constant forces keep their order, too (calcForce): a force of either sign
\* is weaker than no force of a smaller amount, if the stronger one fits.
THEOREM ForceFaithful ==
  ASSUME NEW m \in -255 .. 255, NEW n \in -255 .. 255, NEW g \in Gain, NEW h \in Gain,
         AbsOf(m) <= AbsOf(n), g <= h, h <= 127 \/ Fits(AbsOf(n) \div 2, h)
  PROVE  /\ CalcForce(m, g) \in Level /\ CalcForce(n, h) \in Level
         /\ CalcForce(m, g) <= CalcForce(n, h)
<1>1. AbsOf(m) \div 2 \in Level /\ AbsOf(n) \div 2 \in Level /\ AbsOf(m) \div 2 <= AbsOf(n) \div 2
  BY DEF AbsOf, Level
<1> QED BY <1>1, AmplitudeFaithful DEF CalcForce

\* A number put together of bytes falls apart into them.
LEMMA BytesOf ==
  ASSUME NEW hi \in 0 .. 127, NEW lo \in 0 .. 127
  PROVE  /\ Low(hi * 256 + lo) = lo /\ High(hi * 256 + lo) = hi
         /\ Value14(hi * 256 + lo) = hi * 128 + lo
<1>1. (hi * 256 + lo) % 256 = lo /\ (hi * 256 + lo) \div 256 = hi /\ hi % 256 = hi
  BY SMT
<1> QED BY <1>1 DEF Low, High, Value14

\* Every value of a report field becomes two bytes without their highest
\* bit, and up to 127 the wheel reads in them what the host sent; longer
\* times lose bit 7, never more (Uint16ToMidiUint14, ffb.c).
THEOREM TimeBytes ==
  ASSUME NEW v \in Nat
  PROVE  LET t == Uint16ToMidiUint14(v)
         IN /\ Low(t) \in 0 .. 127 /\ High(t) \in 0 .. 127
            /\ v < 128 => Value14(t) = v
            /\ v < 32767 => v - t \in {0, 128}
<1>1. CASE ~(v < 32767)
  <2>1. Uint16ToMidiUint14(v) = 0
    BY <1>1, SMT DEF Uint16ToMidiUint14
  <2>2. Low(0) = 0 /\ High(0) = 0 /\ 0 \in 0 .. 127
    BY SMT DEF Low, High
  <2>3. ~(v < 128)
    BY <1>1, SMT
  <2> QED BY <2>1, <2>2, <2>3, <1>1
<1>2. CASE v < 32767
  <2> DEFINE hi == v \div 256
             lo == v % 128
             t == hi * 256 + lo
  <2>1. hi \in 0 .. 127 /\ lo \in 0 .. 127
    BY <1>2, SMT
  <2>2. Uint16ToMidiUint14(v) = t
    BY <1>2, SMT DEF Uint16ToMidiUint14
  <2>3. v < 128 => hi = 0 /\ lo = v
    BY SMT
  <2>4. v - t \in {0, 128}
    BY SMT
  <2> HIDE DEF hi, lo
  <2>5. Low(t) = lo /\ High(t) = hi /\ Value14(t) = hi * 128 + lo
    BY <2>1, BytesOf
  <2>6. v < 128 => Value14(t) = v
    BY <2>3, <2>5, SMT
  <2> HIDE DEF t
  <2> QED BY <2>1, <2>2, <2>4, <2>5, <2>6
<1> QED BY <1>1, <1>2

-----------------------------------------------------------------------------
(* Sequences of numbers, and their sums. *)

Byte == 0 .. 255
Data == 0 .. 127

LEMMA Bytes ==
  /\ \A x \in Data : x \in Byte /\ x < 128
  /\ \A x \in Byte : x \in Nat /\ x \in Int
  /\ \A x \in Nat : x \in Int /\ x % 128 \in Data
  /\ \A x \in 240 .. 247 : x \in Byte
BY DEF Byte, Data

LEMMA Widen ==
  ASSUME NEW T, NEW S, \A x \in S : x \in T, NEW s \in Seq(S)
  PROVE  s \in Seq(T) /\ \A i \in 1 .. Len(s) : s[i] \in S
<1>1. \A i \in 1 .. Len(s) : s[i] \in S /\ s[i] \in T
  BY ElementOfSeq
<1>2. Len(s) \in Nat /\ s = [i \in 1 .. Len(s) |-> s[i]]
  OBVIOUS
<1> QED BY <1>1, <1>2

LEMMA SameRest ==
  ASSUME NEW x \in Nat, NEW y \in Nat, NEW z \in Nat, x % 128 = y % 128, (y + z) % 128 = 0
  PROVE  (x + z) % 128 = 0
OBVIOUS

LEMMA Cat ==
  ASSUME NEW S, NEW s \in Seq(S), NEW t \in Seq(S)
  PROVE  /\ s \o t \in Seq(S) /\ Len(s \o t) = Len(s) + Len(t)
         /\ \A i \in 1 .. Len(s) : (s \o t)[i] = s[i]
         /\ \A i \in 1 .. Len(t) : (s \o t)[Len(s) + i] = t[i]
<1>1. Len(s) \in Nat /\ Len(t) \in Nat
  OBVIOUS
<1>2. /\ s \o t \in Seq(S) /\ Len(s \o t) = Len(s) + Len(t)
      /\ \A i \in 1 .. Len(s) + Len(t) :
           (s \o t)[i] = IF i <= Len(s) THEN s[i] ELSE t[i - Len(s)]
  BY ConcatProperties
<1>3. ASSUME NEW i \in 1 .. Len(t) PROVE (s \o t)[Len(s) + i] = t[i]
  <2>1. /\ Len(s) + i \in 1 .. Len(s) + Len(t) /\ ~(Len(s) + i <= Len(s))
        /\ (Len(s) + i) - Len(s) = i
    BY <1>1
  <2> QED BY <1>2, <2>1
<1> QED BY <1>1, <1>2, <1>3

\* One byte more, and two.
LEMMA CatByte ==
  ASSUME NEW S, NEW s \in Seq(S), NEW x \in S, NEW t, t = s \o <<x>>
  PROVE  /\ t \in Seq(S) /\ Len(t) = Len(s) + 1
         /\ \A i \in 1 .. Len(s) : t[i] = s[i]
         /\ t[Len(s) + 1] = x
<1>1. <<x>> \in Seq(S) /\ Len(<<x>>) = 1 /\ <<x>>[1] = x
  OBVIOUS
<1> QED BY <1>1, Cat

LEMMA CatWord ==
  ASSUME NEW S, NEW s \in Seq(S), NEW x \in S, NEW y \in S, NEW t, t = s \o <<x, y>>
  PROVE  /\ t \in Seq(S) /\ Len(t) = Len(s) + 2
         /\ \A i \in 1 .. Len(s) : t[i] = s[i]
         /\ t[Len(s) + 1] = x /\ t[Len(s) + 2] = y
<1>1. <<x, y>> \in Seq(S) /\ Len(<<x, y>>) = 2 /\ <<x, y>>[1] = x /\ <<x, y>>[2] = y
  OBVIOUS
<1>2. 1 \in 1 .. 2 /\ 2 \in 1 .. 2
  OBVIOUS
<1> QED BY <1>1, <1>2, Cat

LEMMA SumOfThree ==
  ASSUME NEW w \in Seq(Int), Len(w) = 3
  PROVE  SumOf(w) = w[1] + w[2] + w[3] /\ w[1] \in Int /\ w[2] \in Int /\ w[3] \in Int
<1>1. SumsOf(w)[0] = 0 /\ \A n \in 1 .. 3 : SumsOf(w)[n] = SumsOf(w)[n - 1] + w[n]
  BY SumsAdd
<1>2. /\ SumsOf(w)[1] = SumsOf(w)[1 - 1] + w[1] /\ SumsOf(w)[2] = SumsOf(w)[2 - 1] + w[2]
      /\ SumsOf(w)[3] = SumsOf(w)[3 - 1] + w[3]
  BY <1>1
<1>3. w[1] \in Int /\ w[2] \in Int /\ w[3] \in Int
  OBVIOUS
<1> QED BY <1>1, <1>2, <1>3 DEF SumOf

LEMMA SumOfSix ==
  ASSUME NEW w \in Seq(Int), Len(w) = 6
  PROVE  SumOf(w) = w[1] + w[2] + w[3] + w[4] + w[5] + w[6]
<1>1. SumsOf(w)[0] = 0 /\ \A n \in 1 .. 6 : SumsOf(w)[n] = SumsOf(w)[n - 1] + w[n]
  BY SumsAdd
<1>2. /\ SumsOf(w)[1] = SumsOf(w)[1 - 1] + w[1] /\ SumsOf(w)[2] = SumsOf(w)[2 - 1] + w[2]
      /\ SumsOf(w)[3] = SumsOf(w)[3 - 1] + w[3] /\ SumsOf(w)[4] = SumsOf(w)[4 - 1] + w[4]
      /\ SumsOf(w)[5] = SumsOf(w)[5 - 1] + w[5] /\ SumsOf(w)[6] = SumsOf(w)[6 - 1] + w[6]
  BY <1>1
<1>3. w[1] \in Int /\ w[2] \in Int /\ w[3] \in Int /\ w[4] \in Int /\ w[5] \in Int /\ w[6] \in Int
  <2>1. \A i \in 1 .. 6 : w[i] \in Int
    BY ElementOfSeq
  <2> QED BY <2>1
<1> QED BY <1>1, <1>2, <1>3 DEF SumOf

\* Cutting every number to seven bits does not change the sum's last seven.
LEMMA MaskedSum ==
  ASSUME NEW d \in Seq(Nat)
  PROVE  /\ Masked(d) \in Seq(Data) /\ Len(Masked(d)) = Len(d)
         /\ \A i \in 1 .. Len(d) : Masked(d)[i] = d[i] % 128
         /\ SumOf(Masked(d)) \in Nat /\ SumOf(d) \in Nat
         /\ SumOf(Masked(d)) % 128 = SumOf(d) % 128
<1> DEFINE c == Masked(d)
<1>1. /\ Len(d) \in Nat /\ \A i \in 1 .. Len(d) : d[i] \in Nat
      /\ c \in Seq(Data) /\ Len(c) = Len(d) /\ \A i \in 1 .. Len(d) : c[i] = d[i] % 128
  <2>1. Len(d) \in Nat /\ DOMAIN d = 1 .. Len(d) /\ \A i \in 1 .. Len(d) : d[i] \in Nat
    OBVIOUS
  <2>2. c = [i \in 1 .. Len(d) |-> d[i] % 128]
    BY <2>1 DEF Masked
  <2> HIDE DEF c
  <2>3. \A i \in 1 .. Len(d) : c[i] = d[i] % 128 /\ c[i] \in Data
    BY <2>1, <2>2, Bytes
  <2>4. c \in Seq(Data) /\ Len(c) = Len(d)
    BY <2>1, <2>2, <2>3
  <2> QED BY <2>1, <2>3, <2>4
<1> HIDE DEF c
<1>2. c \in Seq(Nat) /\ c \in Seq(Int) /\ d \in Seq(Int)
  BY <1>1, Bytes, Widen
<1> DEFINE G == {n \in 0 .. Len(d) : SumsOf(c)[n] % 128 = SumsOf(d)[n] % 128}
<1>3. 0 \in G
  BY <1>1, <1>2, SumsAdd
<1>4. ASSUME NEW n \in 0 .. (Len(d) - 1), n \in G PROVE n + 1 \in G
  <2>1. n + 1 \in 1 .. Len(d) /\ (n + 1) - 1 = n /\ n \in 0 .. Len(d)
    BY <1>1
  <2>2. /\ SumsOf(c)[n + 1] = SumsOf(c)[n] + c[n + 1]
        /\ SumsOf(d)[n + 1] = SumsOf(d)[n] + d[n + 1]
    BY <1>1, <1>2, <2>1, SumsAdd
  <2>3. /\ SumsOf(c)[n] \in Nat /\ SumsOf(d)[n] \in Nat /\ d[n + 1] \in Nat
        /\ c[n + 1] = d[n + 1] % 128 /\ SumsOf(c)[n] % 128 = SumsOf(d)[n] % 128
    <3>1. SumsOf(c) \in [0 .. Len(c) -> Nat] /\ SumsOf(d) \in [0 .. Len(d) -> Nat]
      BY <1>2, SumsOfNat
    <3>2. n \in 0 .. Len(c) /\ n \in 0 .. Len(d)
      BY <1>1, <2>1
    <3>3. SumsOf(c)[n] \in Nat /\ SumsOf(d)[n] \in Nat
      BY <3>1, <3>2
    <3>4. d[n + 1] \in Nat /\ c[n + 1] = d[n + 1] % 128
      BY <1>1, <2>1
    <3>5. SumsOf(c)[n] % 128 = SumsOf(d)[n] % 128
      BY <1>4
    <3> QED BY <3>3, <3>4, <3>5
  <2> DEFINE x == SumsOf(c)[n]
             y == SumsOf(d)[n]
             z == d[n + 1]
  <2> HIDE DEF x, y, z
  <2>4. x \in Nat /\ y \in Nat /\ z \in Nat /\ x % 128 = y % 128
    BY <2>3 DEF x, y, z
  <2>5. (x + (z % 128)) % 128 = (y + z) % 128
    BY <2>4
  <2>6. SumsOf(c)[n + 1] = x + (z % 128) /\ SumsOf(d)[n + 1] = y + z
    BY <2>2, <2>3 DEF x, y, z
  <2>7. SumsOf(c)[n + 1] % 128 = SumsOf(d)[n + 1] % 128
    BY <2>5, <2>6
  <2> QED BY <1>1, <2>1, <2>7
<1>5. \A n \in 0 .. Len(d) : n \in G
  <2> HIDE DEF G
  <2> QED BY <1>1, <1>3, <1>4, CountTo
<1>6. SumOf(c) % 128 = SumOf(d) % 128
  BY <1>1, <1>5 DEF SumOf
<1> QED BY <1>1, <1>2, <1>6, SumsOfNat DEF c

-----------------------------------------------------------------------------
(* The messages pass their checks. *)

\* A message the wheel can take: bytes behind a command, with its check.
Good(m) ==
  /\ m \in Seq(Byte) /\ m[1] \in 240 .. 243
  /\ m[1] = 241 => (SumOf(m) - (m[3] - (m[3] % 64))) % 128 = 0
  /\ m[1] = 240 => SumOf(SubSeq(m, 6, Len(m) - 1)) % 128 = 0
  /\ m[1] \in {242, 243} => HalfBytesCancel(m)

CleanBytes(m) == \A byte \in DataOf(m) : byte < 128

\* What completes a sum to a multiple of 128.
LEMMA Complement ==
  ASSUME NEW x \in Nat
  PROVE  (128 - x) % 128 \in Data /\ (x + ((128 - x) % 128)) % 128 = 0
BY DEF Data

LEMMA Words ==
  ASSUME NEW v \in Nat
  PROVE  Low(v) \in Byte /\ High(v) \in Byte /\ (v < 128 => Low(v) < 128 /\ High(v) < 128)
BY DEF Low, High, Byte

\* modifyAttribute
LEMMA ModifyIs ==
  ASSUME NEW e \in Data, NEW a \in Data, NEW v \in Nat
  PROVE  LET m == Modify(e, a, v)
         IN  /\ Good(m) /\ m[1] = 241 /\ m[3] = a /\ m[5] = Low(v)
             /\ Low(v) < 128 /\ High(v) < 128 => CleanBytes(m)
<1>1. PICK l \in Byte, g \in Byte, f \in 0 .. 63 : l = Low(v) /\ g = High(v) /\ f = a % 64
  <2>1. a % 64 \in 0 .. 63
    BY DEF Data
  <2> QED BY <2>1, Words
<1> DEFINE m == Modify(e, a, v)
           x == 241 + f + e + l + g
<1>2. x \in Nat
  BY DEF Byte, Data
<1>3. PICK c \in Data : c = (128 - x) % 128 /\ (x + c) % 128 = 0
  <2> HIDE DEF x
  <2> QED BY <1>2, Complement
<1>4. m = <<241, c, a, e>> \o <<l, g>>
  BY <1>1, <1>3 DEF Modify, Word
<1> HIDE DEF m
<1>5. /\ m \in Seq(Byte) /\ Len(m) = 6
      /\ m[1] = 241 /\ m[2] = c /\ m[3] = a /\ m[4] = e /\ m[5] = l /\ m[6] = g
  <2> DEFINE h == <<241, c, a, e>>
  <2>1. h \in Seq(Byte) /\ Len(h) = 4 /\ h[1] = 241 /\ h[2] = c /\ h[3] = a /\ h[4] = e
    BY DEF Byte, Data
  <2> HIDE DEF h
  <2>2. /\ m \in Seq(Byte) /\ Len(m) = 6
        /\ \A i \in 1 .. 4 : m[i] = h[i]
        /\ m[4 + 1] = l /\ m[4 + 2] = g
    BY <1>4, <2>1, CatWord DEF h
  <2> QED BY <2>1, <2>2
<1>6. (SumOf(m) - (m[3] - (m[3] % 64))) % 128 = 0
  <2>1. m \in Seq(Int)
    BY <1>5, Bytes, Widen
  <2>2. SumOf(m) = 241 + c + a + e + l + g
    BY <1>5, <2>1, SumOfSix
  <2>3. SumOf(m) - (a - f) = x + c
    BY <2>2 DEF Byte, Data
  <2> HIDE DEF x
  <2> QED BY <1>1, <1>3, <1>5, <2>3
<1>7. Good(m)
  BY <1>5, <1>6 DEF Good
<1>8. l < 128 /\ g < 128 => CleanBytes(m)
  <2>1. DataOf(m) = {m[i] : i \in 2 .. 6}
    BY <1>5 DEF DataOf
  <2>2. \A i \in 2 .. 6 : m[i] \in {c, a, e, l, g}
    <3>1. \A i \in 2 .. 6 : i \in {2, 3, 4, 5, 6}
      OBVIOUS
    <3> QED BY <1>5, <3>1
  <2>3. l < 128 /\ g < 128 => \A w \in {c, a, e, l, g} : w < 128
    BY DEF Byte, Data
  <2> QED BY <2>1, <2>2, <2>3 DEF CleanBytes
<1> QED BY <1>1, <1>5, <1>7, <1>8 DEF m

\* ffb_sendSysEx
LEMMA SysExIs ==
  ASSUME NEW data \in Seq(Nat), NEW n \in Nat, Len(data) = n
  PROVE  LET m == SysEx(data)
         IN  /\ Good(m) /\ CleanBytes(m) /\ m[1] = 240
             /\ \A i \in 1 .. n : m[i + 5] = data[i] % 128
<1> DEFINE m == SysEx(data)
           d == Masked(data)
           c == (128 - SumOf(data)) % 128
           h == <<240, 0, 1, 10, 21>>
<1>1. /\ d \in Seq(Data) /\ Len(d) = n /\ \A i \in 1 .. n : d[i] = data[i] % 128
      /\ SumOf(d) \in Nat /\ SumOf(data) \in Nat /\ SumOf(d) % 128 = SumOf(data) % 128
  BY MaskedSum
<1>2. m = (h \o d) \o <<c, 247>>
  BY DEF SysEx
<1>3. /\ c \in Data /\ c \in Byte /\ c \in Nat /\ c \in Int /\ c < 128
      /\ (SumOf(data) + c) % 128 = 0
  <2>1. c \in Data /\ (SumOf(data) + c) % 128 = 0
    BY <1>1, Complement
  <2> HIDE DEF c
  <2> QED BY <2>1, Bytes
<1> HIDE DEF m, d, c
<1>4. (SumOf(d) + c) % 128 = 0
  BY <1>1, <1>3, SameRest
<1>5. /\ d \in Seq(Byte) /\ d \in Seq(Int)
      /\ \A i \in 1 .. n : d[i] \in Data /\ d[i] \in Int /\ d[i] < 128
  BY <1>1, Bytes, Widen
<1>6. h \in Seq(Byte) /\ Len(h) = 5 /\ h[1] = 240 /\ \A i \in 2 .. 5 : h[i] < 128
  <2>1. h \in Seq(Byte) /\ Len(h) = 5 /\ h[1] = 240 /\ h[2] = 0 /\ h[3] = 1 /\ h[4] = 10 /\ h[5] = 21
    BY DEF Byte
  <2>2. \A i \in 2 .. 5 : i \in {2, 3, 4, 5}
    OBVIOUS
  <2> HIDE DEF h
  <2> QED BY <2>1, <2>2
<1> HIDE DEF h
<1> DEFINE q == h \o d
<1>7. /\ q \in Seq(Byte) /\ Len(q) = n + 5
      /\ \A i \in 1 .. 5 : q[i] = h[i]
      /\ \A i \in 1 .. n : q[5 + i] = d[i]
  <2>1. h \in Seq(Byte) /\ d \in Seq(Byte)
    BY <1>5, <1>6
  <2>2. /\ h \o d \in Seq(Byte) /\ Len(h \o d) = Len(h) + Len(d)
        /\ \A i \in 1 .. Len(h) : (h \o d)[i] = h[i]
        /\ \A i \in 1 .. Len(d) : (h \o d)[Len(h) + i] = d[i]
    BY <2>1, Cat
  <2>3. /\ q \in Seq(Byte) /\ Len(q) = Len(h) + Len(d)
        /\ \A i \in 1 .. Len(h) : q[i] = h[i]
        /\ \A i \in 1 .. Len(d) : q[Len(h) + i] = d[i]
    BY <2>2
  <2> HIDE DEF q
  <2> QED BY <1>1, <1>6, <2>3
<1> HIDE DEF q
<1>8. /\ m \in Seq(Byte) /\ Len(m) = n + 7
      /\ \A i \in 1 .. 5 : m[i] = h[i]
      /\ \A i \in 1 .. n : m[i + 5] = d[i]
      /\ m[n + 6] = c /\ m[1] = 240
  <2>1. m = q \o <<c, 247>> /\ c \in Byte /\ 247 \in Byte /\ n + 5 \in Nat
    BY <1>2, <1>3, Bytes DEF q
  <2>2. /\ m \in Seq(Byte) /\ Len(m) = (n + 5) + 2
        /\ \A i \in 1 .. n + 5 : m[i] = q[i]
        /\ m[(n + 5) + 1] = c
    <3>1. /\ m \in Seq(Byte) /\ Len(m) = Len(q) + 2
          /\ \A i \in 1 .. Len(q) : m[i] = q[i]
          /\ m[Len(q) + 1] = c
      BY <1>7, <2>1, CatWord
    <3> QED BY <1>7, <3>1
  <2>3. \A i \in 1 .. n : i + 5 \in 1 .. n + 5 /\ i + 5 = 5 + i
    OBVIOUS
  <2>4. \A i \in 1 .. 5 : i \in 1 .. n + 5
    OBVIOUS
  <2>5. (n + 5) + 1 = n + 6 /\ (n + 5) + 2 = n + 7
    OBVIOUS
  <2>6. \A i \in 1 .. 5 : m[i] = h[i]
    BY <1>7, <2>2, <2>4
  <2>7. \A i \in 1 .. n : m[i + 5] = d[i]
    BY <1>7, <2>2, <2>3
  <2> QED BY <1>6, <2>2, <2>5, <2>6, <2>7
<1>9. SumOf(SubSeq(m, 6, Len(m) - 1)) % 128 = 0
  <2> DEFINE u == SubSeq(m, 6, Len(m) - 1)
  <2>1. u = [i \in 1 .. n + 1 |-> m[i + 5]]
    BY <1>8
  <2> HIDE DEF u
  <2>2. \A i \in 1 .. n : u[i] = d[i] /\ u[i] \in Int
    <3>1. ASSUME NEW i \in 1 .. n PROVE i \in 1 .. n + 1 /\ m[i + 5] = d[i] /\ d[i] \in Int
      BY <1>5, <1>8
    <3> QED BY <2>1, <3>1
  <2>3. u[n + 1] = c /\ c \in Int
    <3>1. n + 1 \in 1 .. n + 1 /\ (n + 1) + 5 = n + 6
      OBVIOUS
    <3> QED BY <1>3, <1>8, <2>1, <3>1
  <2>4. u \in Seq(Int) /\ Len(u) = n + 1
    <3>1. \A i \in 1 .. n + 1 : u[i] \in Int
      BY <2>2, <2>3
    <3> QED BY <2>1, <3>1
  <2>5. SumsOf(u)[n] = SumOf(d)
    <3>1. Len(d) <= Len(u) /\ \A i \in 1 .. Len(d) : u[i] = d[i]
      BY <1>1, <2>2, <2>4
    <3>2. n \in 0 .. Len(d)
      BY <1>1
    <3> QED BY <1>1, <1>5, <2>4, <3>1, <3>2, SumsOfPrefix DEF SumOf
  <2>6. SumOf(u) = SumsOf(u)[n] + c
    <3>1. n + 1 \in 1 .. Len(u) /\ (n + 1) - 1 = n
      BY <2>4
    <3> QED BY <2>3, <2>4, <3>1, SumsAdd DEF SumOf
  <2> QED BY <1>4, <2>5, <2>6 DEF u
<1>10. Good(m)
  BY <1>8, <1>9 DEF Good
<1>11. CleanBytes(m)
  <2>1. DataOf(m) = {m[i] : i \in 2 .. n + 6}
    <3>1. (n + 7) - 1 = n + 6
      OBVIOUS
    <3> QED BY <1>8, <3>1 DEF DataOf
  <2>2. c < 128 /\ \A i \in 1 .. n : m[i + 5] < 128
    BY <1>3, <1>5, <1>8
  <2>3. ASSUME NEW i \in 2 .. n + 6 PROVE m[i] < 128
    <3>1. CASE i \in 2 .. 5
      BY <1>6, <1>8, <3>1
    <3>2. CASE i = n + 6
      BY <1>8, <2>2, <3>2
    <3>3. CASE i \in 6 .. n + 5
      <4>1. i - 5 \in 1 .. n /\ (i - 5) + 5 = i
        BY <3>3
      <4> QED BY <2>2, <4>1
    <3> QED BY <3>1, <3>2, <3>3
  <2> QED BY <2>1, <2>3 DEF CleanBytes
<1>12. \A i \in 1 .. n : m[i + 5] = data[i] % 128
  BY <1>1, <1>8
<1> QED BY <1>8, <1>10, <1>11, <1>12 DEF m

\* The bits of a xor are the sums of the bits.
LEMMA XorBits ==
  ASSUME NEW x \in 0 .. 15, NEW y \in 0 .. 15
  PROVE  /\ Xor(x, y) \in 0 .. 15
         /\ \A k \in {1, 2, 4, 8} : (Xor(x, y) \div k) % 2 = ((x \div k) + (y \div k)) % 2
<1>1. PICK a \in 0 .. 1, b \in 0 .. 1, c \in 0 .. 1, d \in 0 .. 1 :
        /\ a = ((x \div 1) + (y \div 1)) % 2 /\ b = ((x \div 2) + (y \div 2)) % 2
        /\ c = ((x \div 4) + (y \div 4)) % 2 /\ d = ((x \div 8) + (y \div 8)) % 2
  OBVIOUS
<1>2. Xor(x, y) = 1 * a + 2 * b + 4 * c + 8 * d
  BY <1>1 DEF Xor
<1>3. PICK z \in 0 .. 15 : z = 1 * a + 2 * b + 4 * c + 8 * d
  OBVIOUS
<1>4. (z \div 1) % 2 = a /\ (z \div 2) % 2 = b /\ (z \div 4) % 2 = c /\ (z \div 8) % 2 = d
  BY <1>3
<1> QED BY <1>1, <1>2, <1>3, <1>4

\* wheel_EffectOp
LEMMA EffectOpIs ==
  ASSUME NEW e \in 2 .. 11, NEW op \in 1 .. 3
  PROVE  Good(EffectOp(e, op)) /\ CleanBytes(EffectOp(e, op))
<1> DEFINE m == EffectOp(e, op)
<1>1. Xor(15, 2) = 13 /\ e \div 16 = 0 /\ e % 16 = e
  BY DEF Xor
<1>2. PICK x \in 0 .. 15 : x = Xor(13, op)
                           /\ \A k \in {1, 2, 4, 8} : (x \div k) % 2 = ((13 \div k) + (op \div k)) % 2
  <2>1. 13 \in 0 .. 15 /\ op \in 0 .. 15
    OBVIOUS
  <2>2. /\ Xor(13, op) \in 0 .. 15
        /\ \A k \in {1, 2, 4, 8} : (Xor(13, op) \div k) % 2 = ((13 \div k) + (op \div k)) % 2
    BY <2>1, XorBits
  <2> QED BY <2>2
<1>3. Xor(x, 0) = x
  BY DEF Xor
<1>4. PICK y \in 0 .. 15 : y = Xor(x, e)
                           /\ \A k \in {1, 2, 4, 8} : (y \div k) % 2 = ((x \div k) + (e \div k)) % 2
  <2>1. e \in 0 .. 15
    OBVIOUS
  <2>2. /\ Xor(x, e) \in 0 .. 15
        /\ \A k \in {1, 2, 4, 8} : (Xor(x, e) \div k) % 2 = ((x \div k) + (e \div k)) % 2
    BY <2>1, XorBits
  <2> QED BY <2>2
<1>5. m = <<242, op * 16 + y, e>>
  BY <1>1, <1>2, <1>3, <1>4 DEF EffectOp
<1> HIDE DEF m
<1>6. PICK r \in 16 .. 63 : r = op * 16 + y
  OBVIOUS
<1>7. m \in Seq(Byte) /\ Len(m) = 3 /\ m[1] = 242 /\ m[2] = r /\ m[3] = e
  BY <1>5, <1>6 DEF Byte
<1>8. HalfBytesCancel(m)
  <2>1. ASSUME NEW k \in {1, 2, 4, 8}
        PROVE  SumOf([i \in DOMAIN m |-> (m[i] \div k) + (m[i] \div (16 * k))]) % 2 = 0
    <3> DEFINE f(v) == (v \div k) + (v \div (16 * k))
               w == [i \in DOMAIN m |-> f(m[i])]
    <3> HIDE DEF f
    <3>1. f(242) \in Nat /\ f(r) \in Nat /\ f(e) \in Nat /\ (f(242) + f(r) + f(e)) % 2 = 0
      <4>1. PICK X \in Nat, Y \in Nat, E \in Nat, O \in Nat :
              X = x \div k /\ Y = y \div k /\ E = e \div k /\ O = op \div k
        OBVIOUS
      <4>2. Y % 2 = (X + E) % 2 /\ X % 2 = ((13 \div k) + O) % 2
        BY <1>2, <1>4, <4>1
      <4>3. CASE k = 1
        <5>1. /\ f(r) = (16 * op + Y) + O /\ f(e) = E /\ f(242) = 257
              /\ 13 \div k = 13
          BY <1>6, <4>1, <4>3 DEF f
        <5>2. ((257 + ((16 * op + Y) + O)) + E) % 2 = 0
          BY <4>2, <5>1
        <5>3. /\ 257 \in Nat /\ (16 * op + Y) + O \in Nat
          OBVIOUS
        <5> QED BY <5>1, <5>2, <5>3
      <4>4. CASE k = 2
        <5>1. /\ f(r) = (8 * op + Y) + O /\ f(e) = E /\ f(242) = 128
              /\ 13 \div k = 6
          BY <1>6, <4>1, <4>4 DEF f
        <5>2. ((128 + ((8 * op + Y) + O)) + E) % 2 = 0
          BY <4>2, <5>1
        <5>3. /\ 128 \in Nat /\ (8 * op + Y) + O \in Nat
          OBVIOUS
        <5> QED BY <5>1, <5>2, <5>3
      <4>5. CASE k = 4
        <5>1. /\ f(r) = (4 * op + Y) + O /\ f(e) = E /\ f(242) = 63
              /\ 13 \div k = 3
          BY <1>6, <4>1, <4>5 DEF f
        <5>2. ((63 + ((4 * op + Y) + O)) + E) % 2 = 0
          BY <4>2, <5>1
        <5>3. /\ 63 \in Nat /\ (4 * op + Y) + O \in Nat
          OBVIOUS
        <5> QED BY <5>1, <5>2, <5>3
      <4>6. CASE k = 8
        <5>1. /\ f(r) = (2 * op + Y) + O /\ f(e) = E /\ f(242) = 31
              /\ 13 \div k = 1
          BY <1>6, <4>1, <4>6 DEF f
        <5>2. ((31 + ((2 * op + Y) + O)) + E) % 2 = 0
          BY <4>2, <5>1
        <5>3. /\ 31 \in Nat /\ (2 * op + Y) + O \in Nat
          OBVIOUS
        <5> QED BY <5>1, <5>2, <5>3
      <4> QED BY <4>3, <4>4, <4>5, <4>6
    <3>2. w = [i \in 1 .. 3 |-> f(m[i])]
      BY <1>7
    <3> HIDE DEF w
    <3>3. w[1] = f(242) /\ w[2] = f(r) /\ w[3] = f(e)
      BY <1>7, <3>2
    <3>4. w \in Seq(Int) /\ Len(w) = 3
      <4>1. \A i \in 1 .. 3 : w[i] \in Int
        <5>1. \A i \in 1 .. 3 : i \in {1, 2, 3}
          OBVIOUS
        <5> QED BY <3>1, <3>3, <5>1
      <4> QED BY <3>2, <4>1
    <3>5. SumOf(w) = f(242) + f(r) + f(e)
      BY <3>3, <3>4, SumOfThree
    <3> QED BY <3>1, <3>5 DEF w, f
  <2> QED BY <2>1 DEF HalfBytesCancel
<1>9. Good(m)
  BY <1>7, <1>8 DEF Good
<1>10. CleanBytes(m)
  <2>1. DataOf(m) = {m[i] : i \in 2 .. 3}
    BY <1>7 DEF DataOf
  <2>2. m[2] < 128 /\ m[3] < 128
    BY <1>7
  <2>3. \A i \in 2 .. 3 : i \in {2, 3}
    OBVIOUS
  <2> QED BY <2>1, <2>2, <2>3 DEF CleanBytes
<1> QED BY <1>9, <1>10 DEF m

LEMMA PairIs ==
  ASSUME NEW x \in {29, 106}
  PROVE  Good(<<243, x>>) /\ CleanBytes(<<243, x>>)
<1> DEFINE m == <<243, x>>
<1>1. m \in Seq(Byte) /\ Len(m) = 2 /\ DOMAIN m = 1 .. 2 /\ m[1] = 243 /\ m[2] = x
  BY DEF Byte
<1> HIDE DEF m
<1>2. HalfBytesCancel(m)
  <2>1. ASSUME NEW k \in {1, 2, 4, 8}
        PROVE  SumOf([i \in DOMAIN m |-> (m[i] \div k) + (m[i] \div (16 * k))]) % 2 = 0
    <3> DEFINE f(v) == (v \div k) + (v \div (16 * k))
               w == [i \in DOMAIN m |-> f(m[i])]
    <3>1. f(243) \in Nat /\ f(x) \in Nat /\ (f(243) + f(x)) % 2 = 0
      OBVIOUS
    <3> HIDE DEF f
    <3>2. w = [i \in 1 .. 2 |-> f(m[i])]
      BY <1>1
    <3> HIDE DEF w
    <3>3. w[1] = f(243) /\ w[2] = f(x) /\ w \in Seq(Int) /\ Len(w) = 2
      BY <1>1, <3>1, <3>2
    <3>4. SumOf(w) = f(243) + f(x)
      <4>1. SumsOf(w)[0] = 0 /\ \A n \in 1 .. 2 : SumsOf(w)[n] = SumsOf(w)[n - 1] + w[n]
        BY <3>3, SumsAdd
      <4>2. /\ SumsOf(w)[1] = SumsOf(w)[1 - 1] + w[1]
            /\ SumsOf(w)[2] = SumsOf(w)[2 - 1] + w[2]
        BY <4>1
      <4> QED BY <3>1, <3>3, <4>1, <4>2 DEF SumOf
    <3> QED BY <3>1, <3>4 DEF w, f
  <2> QED BY <2>1 DEF HalfBytesCancel
<1>3. Good(m)
  BY <1>1, <1>2 DEF Good
<1>4. CleanBytes(m)
  <2>1. DataOf(m) = {m[i] : i \in 2 .. 2}
    BY <1>1 DEF DataOf
  <2> QED BY <1>1, <2>1 DEF CleanBytes
<1> QED BY <1>3, <1>4 DEF m

LEMMA SpringOffIs == Good(SpringOff) /\ CleanBytes(SpringOff)
<1> DEFINE m == SpringOff
<1>1. /\ m \in Seq(Byte) /\ m \in Seq(Int) /\ Len(m) = 6
      /\ m[1] = 241 /\ m[2] = 16 /\ m[3] = 64 /\ m[4] = 0 /\ m[5] = 127 /\ m[6] = 0
  BY DEF SpringOff, Byte
<1> HIDE DEF m
<1>2. SumOf(m) = 448 /\ m[3] % 64 = 0
  <2>1. SumOf(m) = m[1] + m[2] + m[3] + m[4] + m[5] + m[6]
    BY <1>1, SumOfSix
  <2>2. m[3] % 64 = 0
    BY <1>1
  <2> QED BY <1>1, <2>1, <2>2
<1>3. Good(m)
  BY <1>1, <1>2 DEF Good
<1>4. CleanBytes(m)
  <2>1. DataOf(m) = {m[i] : i \in 2 .. 6}
    BY <1>1 DEF DataOf
  <2>2. \A i \in 2 .. 6 : i \in {2, 3, 4, 5, 6}
    OBVIOUS
  <2> QED BY <1>1, <2>1, <2>2 DEF CleanBytes
<1> QED BY <1>3, <1>4 DEF m

-----------------------------------------------------------------------------
(* The messages of each report. *)

\* A value whose two bytes are data.
TwoData(v) == v \in Nat /\ Low(v) < 128 /\ High(v) < 128

LEMMA TimesAreData ==
  ASSUME NEW v \in Nat
  PROVE  TwoData(Uint16ToMidiUint14(v))
<1>1. Uint16ToMidiUint14(v) \in Nat
  BY DEF Uint16ToMidiUint14
<1>2. /\ Low(Uint16ToMidiUint14(v)) \in 0 .. 127
      /\ High(Uint16ToMidiUint14(v)) \in 0 .. 127
  BY TimeBytes
<1>3. \A x \in 0 .. 127 : x < 128
  OBVIOUS
<1> QED BY <1>1, <1>2, <1>3, Zenon DEF TwoData

LEMMA DataAreData ==
  ASSUME NEW v \in Data
  PROVE  TwoData(v)
BY DEF TwoData, Low, High, Data

LEMMA ModifyGood ==
  ASSUME NEW e \in Data, NEW a \in Data, NEW v \in Nat
  PROVE  Good(Modify(e, a, v)) /\ (TwoData(v) => CleanBytes(Modify(e, a, v)))
BY ModifyIs DEF TwoData

LEMMA SetUp ==
  ASSUME NEW m \in AutoCenter(TRUE) \cup EnableFFB
  PROVE  Good(m) /\ CleanBytes(m)
<1>1. /\ 1 \in Data /\ 67 \in Data /\ 68 \in Data /\ 69 \in Data /\ 6 \in Data
      /\ TwoData(125 * 256) /\ TwoData((78 * 256) + 62) /\ TwoData((47 * 256) + 62)
      /\ TwoData(125)
  BY DEF Data, TwoData, Low, High
<1>2. CASE m \in ForceGain
  <2>1. \A v : TwoData(v) => v \in Nat
    BY DEF TwoData
  <2> QED BY <1>1, <1>2, <2>1, ModifyGood DEF ForceGain
<1>3. CASE m \in {Attention, Commit}
  BY <1>3, PairIs DEF Attention, Commit
<1>4. CASE m = SpringOff
  BY <1>4, SpringOffIs
<1> QED BY <1>2, <1>3, <1>4 DEF AutoCenter, EnableFFB

\* The effect blocks, those with an envelope among them, and their fields.
Enveloped == Waves \cup Ramps \cup Constants
Blocks == Enveloped \cup Frictions \cup Conditions

LEMMA Fields ==
  /\ \A b \in Blocks : b.eid \in 2 .. 11 /\ b.sent \in BOOLEAN /\ b.duration \in Nat
  /\ \A b \in Enveloped :
       /\ b.gain \in Nat
       /\ HasEnvelope(b) => /\ b.env.attack \in Nat /\ b.env.fade \in Nat
                            /\ b.env.rise \in Nat /\ b.env.fall \in Nat
  /\ \A b \in Waves : b.level \in Data /\ b.level \in Nat /\ b.period \in Nat
  /\ \A b \in Ramps : b.start \in Byte /\ b.end \in Byte
  /\ \A b \in Constants : b.magnitude \in -255 .. 255
  /\ \A b \in Frictions : b.coefficient \in 0 .. 100
  /\ \A b \in Conditions : b.devType \in 8 .. 10
<1>1. /\ \A x \in Eids : x \in 2 .. 11
      /\ \A x \in Durations : x \in Nat
      /\ \A x \in Gains : x \in Nat
      /\ \A x \in Levels : x \in Data /\ x \in Nat
      /\ \A x \in Times : x \in Nat
      /\ \A x \in Periods : x \in Nat
      /\ \A x \in RampEnds : x \in Byte
      /\ \A x \in Coefficients : x \in 0 .. 100
  <2>1. /\ \A x \in Eids : x \in 2 .. 11
        /\ \A x \in Coefficients : x \in 0 .. 100
    BY MessageAssumption
  <2>2. (\A x \in Levels : x \in Data) /\ \A x \in RampEnds : x \in Byte
    BY MessageAssumption DEF Data, Byte
  <2>3. (\A x \in Durations : x \in Nat) /\ \A x \in Gains : x \in Nat
    BY MessageAssumption
  <2>4. (\A x \in Times : x \in Nat) /\ \A x \in Periods : x \in Nat
    BY MessageAssumption
  <2> QED BY <2>1, <2>2, <2>3, <2>4, Bytes
<1>2. \A x \in Magnitudes \cup {-m : m \in Magnitudes} : x \in -255 .. 255
  <2>1. ASSUME NEW x \in Magnitudes \cup {-m : m \in Magnitudes} PROVE x \in -255 .. 255
    <3>1. PICK m \in Magnitudes : x = m \/ x = -m
      OBVIOUS
    <3>2. m \in 0 .. 255
      BY MessageAssumption
    <3>3. PICK n \in 0 .. 255 : n = m
      BY <3>2
    <3> QED BY <3>1, <3>3
  <2> QED BY <2>1
<1>3. \A b \in Blocks : b.eid \in Eids /\ b.sent \in BOOLEAN /\ b.duration \in Durations
  BY DEF Blocks, Enveloped, Waves, Ramps, Constants, Frictions, Conditions
<1>4. \A b \in Enveloped :
        /\ b.gain \in Gains
        /\ HasEnvelope(b) => /\ b.env.attack \in Levels /\ b.env.fade \in Levels
                             /\ b.env.rise \in Times /\ b.env.fall \in Times
  <2>1. \A b \in Enveloped : b.gain \in Gains /\ b.env \in Envelopes
    BY DEF Enveloped, Waves, Ramps, Constants
  <2>2. \A e \in Envelopes : e # Nothing => /\ e.attack \in Levels /\ e.fade \in Levels
                                            /\ e.rise \in Times /\ e.fall \in Times
    BY DEF Envelopes
  <2> QED BY <2>1, <2>2 DEF HasEnvelope
<1>5. /\ \A b \in Waves : b.level \in Levels /\ b.period \in Periods
      /\ \A b \in Ramps : b.start \in RampEnds /\ b.end \in RampEnds
      /\ \A b \in Constants : b.magnitude \in Magnitudes \cup {-m : m \in Magnitudes}
      /\ \A b \in Frictions : b.coefficient \in Coefficients
  BY DEF Waves, Ramps, Constants, Frictions
<1>6. \A b \in Constants : b.magnitude \in -255 .. 255
  BY <1>2, <1>5
<1>7. \A b \in Conditions : b.devType \in 8 .. 10
  BY DEF Conditions, Spring
<1> QED BY <1>1, <1>3, <1>4, <1>5, <1>6, <1>7

LEMMA Kinds ==
  /\ \A b \in Enveloped \cup Frictions \cup Conditions : b \in Blocks
  /\ \A b \in Waves \cup Ramps \cup Constants : b \in Enveloped /\ b \in Blocks
BY DEF Blocks, Enveloped

LEMMA AmplitudeIsData ==
  ASSUME NEW v \in Nat, NEW g \in Nat
  PROVE  CalcAmplitude(v, g) \in Data
<1> DEFINE q == (v * g) \div 127
<1>1. v * g \in Nat
  OBVIOUS
<1>2. q \in Nat
  BY <1>1
<1> HIDE DEF q
<1>3. q % 128 \in Data
  BY <1>2, Bytes
<1> QED BY <1>3 DEF q, CalcAmplitude

\* Sequences of n bytes, and how they grow.
Run(n) == {s \in Seq(Byte) : Len(s) = n}

LEMMA RunByte ==
  ASSUME NEW n \in Nat, NEW s \in Run(n), NEW x \in Byte
  PROVE  s \o <<x>> \in Run(n + 1)
BY CatByte DEF Run

LEMMA RunWord ==
  ASSUME NEW n \in Nat, NEW s \in Run(n), NEW v \in Nat
  PROVE  s \o Word(v) \in Run(n + 2)
<1>1. PICK l \in Byte, h \in Byte : l = Low(v) /\ h = High(v)
  BY Words
<1>2. Word(v) = <<l, h>>
  BY <1>1 DEF Word
<1>3. s \o <<l, h>> \in Run(n + 2)
  BY CatWord DEF Run
<1> QED BY <1>2, <1>3

LEMMA RunPair ==
  ASSUME NEW n \in Nat, NEW s \in Run(n), NEW x \in Byte, NEW y \in Byte
  PROVE  s \o <<x, y>> \in Run(n + 2)
BY CatWord DEF Run

LEMMA RunLast ==
  ASSUME NEW n \in Nat, NEW s \in Run(n), NEW x \in Byte
  PROVE  (s \o <<x>>)[n + 1] = x
BY CatByte DEF Run

LEMMA RunKeeps ==
  ASSUME NEW n \in Nat, NEW s \in Run(n), NEW t \in Seq(Nat), NEW i \in 1 .. n
  PROVE  (s \o t)[i] = s[i]
<1>1. s \in Seq(Nat) /\ Len(s) = n
  <2>1. s \in Seq(Byte) /\ Len(s) = n
    BY DEF Run
  <2> QED BY <2>1, Bytes, Widen
<1> QED BY <1>1, Cat

LEMMA Parts ==
  /\ \A x \in Byte : <<x>> \in Seq(Nat) /\ \A y \in Byte : <<x, y>> \in Seq(Nat)
  /\ \A v \in Nat : Word(v) \in Seq(Nat)
<1>1. \A x \in Byte : <<x>> \in Seq(Nat) /\ \A y \in Byte : <<x, y>> \in Seq(Nat)
  BY Bytes
<1>2. ASSUME NEW v \in Nat PROVE Word(v) \in Seq(Nat)
  <2>1. PICK l \in Byte, h \in Byte : l = Low(v) /\ h = High(v)
    BY Words
  <2> QED BY <2>1, Bytes DEF Word
<1> QED BY <1>1, <1>2

LEMMA RunIs ==
  ASSUME NEW n \in Nat, NEW s \in Run(n)
  PROVE  s \in Seq(Nat) /\ Len(s) = n
<1>1. s \in Seq(Byte) /\ Len(s) = n
  BY DEF Run
<1>2. s \in Seq(Nat)
  BY <1>1, Bytes, Widen
<1> QED BY <1>1, <1>2

LEMMA CommonIs ==
  ASSUME NEW devType \in Byte, NEW direction \in Byte
  PROVE  Common(devType, direction) \in Run(6)
<1> DEFINE d == Common(devType, direction)
<1>1. d \in Seq(Byte) /\ Len(d) = 6
  BY DEF Common, Byte
<1> QED BY <1>1 DEF Run

\* The data of the upload of a constant.
ConstantData(y1, x1, force, x2, y2, direction) ==
  Common(6, 0) \o <<125, y1>> \o Word(x1) \o <<force>> \o Word(x2) \o <<y2, direction>>

LEMMA ConstantDataIs ==
  ASSUME NEW y1 \in Byte, NEW x1 \in Nat, NEW force \in Byte, NEW x2 \in Nat, NEW y2 \in Byte,
         NEW direction \in Byte
  PROVE  LET d == ConstantData(y1, x1, force, x2, y2, direction)
         IN  d \in Run(15) /\ d[11] = force
<1> DEFINE d1 == Common(6, 0)
           d2 == d1 \o <<125, y1>>
           d3 == d2 \o Word(x1)
           d4 == d3 \o <<force>>
           d5 == d4 \o Word(x2)
           d6 == d5 \o <<y2, direction>>
<1>1. d1 \in Run(6) /\ 125 \in Byte
  <2>1. 6 \in Byte /\ 0 \in Byte /\ 125 \in Byte
    BY DEF Byte
  <2> QED BY <2>1, CommonIs
<1>2. d2 \in Run(6 + 2)
  <2> HIDE DEF d1
  <2> QED BY <1>1, RunPair
<1>3. d3 \in Run(8 + 2)
  <2> HIDE DEF d2
  <2> QED BY <1>2, RunWord
<1>4. d4 \in Run(10 + 1)
  <2> HIDE DEF d3
  <2> QED BY <1>3, RunByte
<1>5. d5 \in Run(11 + 2)
  <2> HIDE DEF d4
  <2> QED BY <1>4, RunWord
<1>6. d6 \in Run(13 + 2)
  <2> HIDE DEF d5
  <2> QED BY <1>5, RunPair
<1>7. d4[11] = force
  <2> HIDE DEF d3
  <2>1. d3 \in Run(10)
    BY <1>3
  <2>2. (d3 \o <<force>>)[10 + 1] = force
    BY <2>1, 10 \in Nat, RunLast, Zenon
  <2>3. 10 + 1 = 11
    OBVIOUS
  <2> QED BY <2>2, <2>3, Zenon
<1>8. d5[11] = d4[11]
  <2> HIDE DEF d4
  <2>1. d4 \in Run(11) /\ 11 \in Nat /\ 11 \in 1 .. 11 /\ Word(x2) \in Seq(Nat)
    BY <1>4, Parts
  <2> QED BY <2>1, RunKeeps, Zenon
<1>9. d6[11] = d5[11]
  <2> HIDE DEF d5
  <2>1. d5 \in Run(13) /\ 13 \in Nat /\ 11 \in 1 .. 13 /\ <<y2, direction>> \in Seq(Nat)
    BY <1>5, Parts
  <2> QED BY <2>1, RunKeeps, Zenon
<1>10. d6 = ConstantData(y1, x1, force, x2, y2, direction)
  BY DEF ConstantData
<1> HIDE DEF d4, d5, d6
<1> QED BY <1>6, <1>7, <1>8, <1>9, <1>10

\* An upload of n bytes, and the place of its byte i.
LEMMA UploadIs ==
  ASSUME NEW n \in Nat, NEW d \in Run(n)
  PROVE  Good(SysEx(d)) /\ CleanBytes(SysEx(d)) /\ SysEx(d)[1] = 240
<1>1. d \in Seq(Nat) /\ Len(d) = n
  BY RunIs
<1> QED BY <1>1, SysExIs

LEMMA UploadPlace ==
  ASSUME NEW n \in Nat, NEW d \in Run(n), NEW i \in 1 .. n, d[i] \in Data
  PROVE  SysEx(d)[i + 5] = d[i]
<1>1. d \in Seq(Nat) /\ Len(d) = n
  BY RunIs
<1>2. SysEx(d)[i + 5] = d[i] % 128
  BY <1>1, SysExIs
<1>3. \A x \in Data : x % 128 = x
  BY DEF Data
<1> QED BY <1>2, <1>3

\* Levels and times of an envelope in use, set or by default.
EnvelopeData(e) == e \in [y1 : Data, x1 : Nat, x2 : Nat, y2 : Data] /\ TwoData(e.x1)

LEMMA EnvelopeParts ==
  ASSUME NEW e, EnvelopeData(e)
  PROVE  \E y1 \in Data, x1 \in Nat, x2 \in Nat, y2 \in Data :
           /\ e = [y1 |-> y1, x1 |-> x1, x2 |-> x2, y2 |-> y2]
           /\ TwoData(x1) /\ (TwoData(e.x2) => TwoData(x2))
<1>1. /\ e.y1 \in Data /\ e.x1 \in Nat /\ e.x2 \in Nat /\ e.y2 \in Data
      /\ e = [y1 |-> e.y1, x1 |-> e.x1, x2 |-> e.x2, y2 |-> e.y2]
  BY DEF EnvelopeData
<1> QED BY <1>1 DEF EnvelopeData

LEMMA ScaledEnvelopeIs ==
  ASSUME NEW b \in Enveloped, HasEnvelope(b), NEW right \in Nat
  PROVE  EnvelopeData(ScaledEnvelope(b, right)) /\ ScaledEnvelope(b, right).x2 = right
<1>1. /\ b.gain \in Nat /\ b.env.attack \in Nat /\ b.env.fade \in Nat /\ b.env.rise \in Nat
  BY Fields
<1>2. CalcAmplitude(b.env.attack, b.gain) \in Data /\ CalcAmplitude(b.env.fade, b.gain) \in Data
  BY <1>1, AmplitudeIsData
<1>3. TwoData(Uint16ToMidiUint14(b.env.rise))
  BY <1>1, TimesAreData
<1> QED BY <1>2, <1>3 DEF ScaledEnvelope, EnvelopeData, TwoData

LEMMA DefaultEnvelopeIs ==
  ASSUME NEW b
  PROVE  EnvelopeData(DefaultEnvelope(b)) /\ TwoData(DefaultEnvelope(b).x2)
<1>1. 127 \in Data /\ 0 \in Nat /\ 4709 \in Nat /\ 7790 \in Nat
  BY DEF Data
<1>2. TwoData(0) /\ TwoData(4709) /\ TwoData(7790)
  BY SMT DEF TwoData, Low, High
<1>3. PICK x \in {4709, 7790} : DefaultEnvelope(b) = [y1 |-> 127, x1 |-> 0, x2 |-> x, y2 |-> 127]
  BY DEF DefaultEnvelope
<1> QED BY <1>1, <1>2, <1>3 DEF EnvelopeData

\* applyEnvelopeOnWave
LEMMA WaveEnvelopeIs ==
  ASSUME NEW b \in Waves \cup Ramps
  PROVE  \E y1 \in Data, x1 \in Nat, x2 \in Nat, y2 \in Data :
           /\ WaveEnvelope(b) = [y1 |-> y1, x1 |-> x1, x2 |-> x2, y2 |-> y2]
           /\ TwoData(x1) /\ TwoData(x2)
<1>1. b \in Enveloped /\ b \in Blocks
  BY DEF Enveloped, Blocks
<1>2. CASE HasEnvelope(b)
  <2>1. PICK D \in Nat, F \in Nat : D = Dur(b) /\ F = b.env.fall
    <3>1. Dur(b) \in Nat
      BY <1>1, Fields, TimesAreData DEF Dur, TwoData
    <3> QED BY <1>1, <1>2, <3>1, Fields
  <2>2. (IF D > F THEN D - F ELSE F) \in Nat
    OBVIOUS
  <2>3. PICK x \in Nat : x = FadeOnWave(Dur(b), b.env.fall) /\ TwoData(x)
    BY <2>1, <2>2, TimesAreData DEF FadeOnWave, TwoData
  <2>4. WaveEnvelope(b) = ScaledEnvelope(b, x)
    BY <1>2, <2>3 DEF WaveEnvelope
  <2>5. EnvelopeData(WaveEnvelope(b)) /\ TwoData(WaveEnvelope(b).x2)
    BY <1>1, <1>2, <2>3, <2>4, ScaledEnvelopeIs
  <2> QED BY <2>5, EnvelopeParts
<1>3. CASE ~HasEnvelope(b)
  <2>1. WaveEnvelope(b) = DefaultEnvelope(b)
    BY <1>3 DEF WaveEnvelope
  <2> QED BY <2>1, DefaultEnvelopeIs, EnvelopeParts
<1> QED BY <1>2, <1>3

LEMMA PeriodIs ==
  ASSUME NEW p \in Nat
  PROVE  PeriodOf(p) \in Nat /\ (p >= 150 => TwoData(PeriodOf(p)))
<1>1. CASE p > 10000
  <2>1. PeriodOf(p) = 10000
    BY <1>1 DEF PeriodOf
  <2>2. TwoData(10000)
    BY SMT DEF TwoData, Low, High
  <2> QED BY <2>1, <2>2
<1>2. CASE p < 150
  BY <1>2 DEF PeriodOf
<1>3. CASE ~(p > 10000) /\ ~(p < 150)
  BY <1>3, TimesAreData DEF PeriodOf, TwoData
<1> QED BY <1>1, <1>2, <1>3

LEMMA FadeIs ==
  ASSUME NEW fade \in Nat
  PROVE  /\ FadeOnConstant(fade) \in Nat
         /\ Uint16ToMidiUint14(fade) # 0 => TwoData(FadeOnConstant(fade))
<1>1. TwoData(Uint16ToMidiUint14(fade))
  BY TimesAreData
<1> QED BY <1>1 DEF FadeOnConstant, TwoData

\* applyEnvelopeOnConstant
LEMMA ConstantEnvelopeIs ==
  ASSUME NEW b \in Constants
  PROVE  \E y1 \in Data, x1 \in Nat, x2 \in Nat, y2 \in Data :
           /\ ConstantEnvelope(b) = [y1 |-> y1, x1 |-> x1, x2 |-> x2, y2 |-> y2]
           /\ TwoData(x1)
           /\ (HasEnvelope(b) => Uint16ToMidiUint14(b.env.fall) # 0) => TwoData(x2)
<1>1. b \in Enveloped
  BY DEF Enveloped
<1>2. CASE HasEnvelope(b)
  <2>1. PICK x \in Nat : /\ x = FadeOnConstant(b.env.fall)
                         /\ Uint16ToMidiUint14(b.env.fall) # 0 => TwoData(x)
    BY <1>1, <1>2, Fields, FadeIs
  <2>2. ConstantEnvelope(b) = ScaledEnvelope(b, x)
    BY <1>2, <2>1 DEF ConstantEnvelope
  <2>3. EnvelopeData(ConstantEnvelope(b)) /\ ConstantEnvelope(b).x2 = x
    BY <1>1, <1>2, <2>1, <2>2, ScaledEnvelopeIs
  <2> QED BY <1>2, <2>1, <2>3, EnvelopeParts
<1>3. CASE ~HasEnvelope(b)
  <2>1. ConstantEnvelope(b) = DefaultEnvelope(b)
    BY <1>3 DEF ConstantEnvelope
  <2> QED BY <2>1, DefaultEnvelopeIs, EnvelopeParts
<1> QED BY <1>2, <1>3

LEMMA FrictionIs ==
  ASSUME NEW c \in 0 .. 100
  PROVE  FrictionOf(c) \in Data
<1>1. (127 * (IF c < 50 THEN 50 ELSE c)) \div 100 \in Nat
  OBVIOUS
<1> QED BY <1>1, Bytes DEF FrictionOf

LEMMA RampIs ==
  ASSUME NEW x \in Byte, NEW y \in Byte
  PROVE  /\ RampDelta(Int8(x), Int8(y)) \in Byte
         /\ RampMidpoint(Int8(x), Int8(y)) \in Byte
<1>1. \A z \in Byte : Int8(z) \in -128 .. 127
  BY DEF Int8, Byte
<1>2. PICK s \in -128 .. 127 : s = Int8(x)
  BY <1>1
<1>3. PICK e \in -128 .. 127 : e = Int8(y)
  BY <1>1
<1>4. PICK d \in 0 .. 255 : d = RampDelta(s, e)
  BY DEF RampDelta, AbsOf
<1>5. PICK z \in Int : z = s - (d \div 2)
  OBVIOUS
<1>6. PICK n \in Nat : n = AbsOf(z)
  BY DEF AbsOf
<1>7. n % 256 \in 0 .. 255
  OBVIOUS
<1> QED BY <1>2, <1>3, <1>4, <1>5, <1>6, <1>7 DEF RampMidpoint, Byte

LEMMA ForceIs ==
  ASSUME NEW m \in -255 .. 255, NEW g \in Nat
  PROVE  CalcForce(m, g) \in Data
<1>1. PICK n \in Nat : n = AbsOf(m) \div 2
  BY DEF AbsOf
<1> QED BY <1>1, AmplitudeIsData DEF CalcForce

-----------------------------------------------------------------------------
(* One lemma for each kind of report: its messages can be taken, and which *)
(* of them consist of data bytes.                                          *)

Eid == 2 .. 11
Address == 0 .. 80

LEMMA Addresses ==
  /\ \A e \in Eid : e \in Data
  /\ \A a \in Address : a \in Data
  /\ 0 \in Address /\ 6 \in Address /\ 8 \in Address /\ 10 \in Address /\ 66 \in Address
  /\ 67 \in Address /\ 68 \in Address /\ 69 \in Address /\ 70 \in Address /\ 71 \in Address
  /\ 72 \in Address /\ 73 \in Address /\ 75 \in Address
BY DEF Eid, Address, Data

\* A modification of an effect in the wheel.
LEMMA ModifyEffect ==
  ASSUME NEW e \in Eid, NEW a \in Address, NEW v \in Nat, NEW m, m = Modify(e, a, v)
  PROVE  /\ Good(m) /\ (TwoData(v) => CleanBytes(m))
         /\ m[1] = 241 /\ m[3] = a /\ m[5] = Low(v)
<1>1. e \in Data /\ a \in Data
  BY Addresses
<1> QED BY <1>1, ModifyGood, ModifyIs

LEMMA EidOf ==
  ASSUME NEW b \in Blocks
  PROVE  \E e \in Eid : e = b.eid
BY Fields DEF Eid

LEMMA DurationGood ==
  ASSUME NEW b \in Blocks
  PROVE  Good(Modify(b.eid, 0, Dur(b))) /\ CleanBytes(Modify(b.eid, 0, Dur(b)))
<1>1. TwoData(Dur(b))
  BY Fields, TimesAreData DEF Dur
<1>2. PICK e \in Eid : e = b.eid
  BY EidOf
<1>3. PICK v \in Nat : v = Dur(b)
  BY <1>1 DEF TwoData
<1>4. Good(Modify(e, 0, v)) /\ CleanBytes(Modify(e, 0, v))
  BY <1>1, <1>3, Addresses, ModifyEffect
<1> QED BY <1>2, <1>3, <1>4

\* The modifications of an envelope, at the addresses of the effect's type.
LEMMA ModifyEnvelopeIs ==
  ASSUME NEW b \in Enveloped,
         NEW y1 \in Data, NEW x1 \in Nat, NEW x2 \in Nat, NEW y2 \in Data,
         NEW k1 \in Address, NEW k2 \in Address, NEW k3 \in Address, NEW k4 \in Address,
         NEW m \in ModifyEnvelope(b, [y1 |-> y1, x1 |-> x1, x2 |-> x2, y2 |-> y2],
                                  <<k1, k2, k3, k4>>)
  PROVE  /\ Good(m) /\ m[1] = 241 /\ m[3] \in {k1, k2, k3, k4} /\ HasEnvelope(b)
         /\ TwoData(x1) /\ TwoData(x2) => CleanBytes(m)
<1>1. TwoData(y1) /\ TwoData(y2) /\ y1 \in Nat /\ y2 \in Nat
  BY DataAreData DEF TwoData
<1>2. PICK e \in Eid : e = b.eid
  BY EidOf, Kinds
<1>3. /\ HasEnvelope(b)
      /\ m \in {Modify(e, k1, y1), Modify(e, k2, x1), Modify(e, k3, x2), Modify(e, k4, y2)}
  BY <1>2 DEF ModifyEnvelope
<1>4. PICK a \in {k1, k2, k3, k4}, v \in {y1, x1, x2, y2} : m = Modify(e, a, v)
  BY <1>3
<1>5. a \in Address /\ v \in Nat /\ (TwoData(x1) /\ TwoData(x2) => TwoData(v))
  BY <1>1
<1> QED BY <1>3, <1>4, <1>5, ModifyEffect

LEMMA ModifyEnvelopeGood ==
  ASSUME NEW b \in Waves \cup Ramps,
         NEW m \in ModifyEnvelope(b, WaveEnvelope(b), <<69, 6, 8, 73>>)
  PROVE  Good(m) /\ CleanBytes(m) /\ m[1] = 241 /\ m[3] \in {69, 6, 8, 73}
<1>1. PICK y1 \in Data, x1 \in Nat, x2 \in Nat, y2 \in Data :
        /\ WaveEnvelope(b) = [y1 |-> y1, x1 |-> x1, x2 |-> x2, y2 |-> y2]
        /\ TwoData(x1) /\ TwoData(x2)
  BY WaveEnvelopeIs
<1>2. b \in Enveloped
  BY Kinds
<1>3. PICK k1 \in Address, k2 \in Address, k3 \in Address, k4 \in Address :
        k1 = 69 /\ k2 = 6 /\ k3 = 8 /\ k4 = 73
  BY Addresses
<1>4. m \in ModifyEnvelope(b, [y1 |-> y1, x1 |-> x1, x2 |-> x2, y2 |-> y2], <<k1, k2, k3, k4>>)
  BY <1>1, <1>3
<1>5. /\ Good(m) /\ m[1] = 241 /\ m[3] \in {k1, k2, k3, k4}
      /\ TwoData(x1) /\ TwoData(x2) => CleanBytes(m)
  BY <1>2, <1>4, ModifyEnvelopeIs
<1> QED BY <1>1, <1>3, <1>5

\* The same for constants, whose fade may keep bit 7.
LEMMA ConstantEnvelopeGood ==
  ASSUME NEW b \in Constants,
         NEW m \in ModifyEnvelope(b, ConstantEnvelope(b), <<68, 69, 71, 72>>)
  PROVE  /\ Good(m) /\ m[1] = 241 /\ m[3] \in {68, 69, 71, 72} /\ HasEnvelope(b)
         /\ Uint16ToMidiUint14(b.env.fall) # 0 => CleanBytes(m)
<1>1. PICK y1 \in Data, x1 \in Nat, x2 \in Nat, y2 \in Data :
        /\ ConstantEnvelope(b) = [y1 |-> y1, x1 |-> x1, x2 |-> x2, y2 |-> y2]
        /\ TwoData(x1)
        /\ (HasEnvelope(b) => Uint16ToMidiUint14(b.env.fall) # 0) => TwoData(x2)
  BY ConstantEnvelopeIs
<1>2. b \in Enveloped
  BY Kinds
<1>3. PICK k1 \in Address, k2 \in Address, k3 \in Address, k4 \in Address :
        k1 = 68 /\ k2 = 69 /\ k3 = 71 /\ k4 = 72
  BY Addresses
<1>4. m \in ModifyEnvelope(b, [y1 |-> y1, x1 |-> x1, x2 |-> x2, y2 |-> y2], <<k1, k2, k3, k4>>)
  BY <1>1, <1>3
<1>5. /\ Good(m) /\ m[1] = 241 /\ m[3] \in {k1, k2, k3, k4} /\ HasEnvelope(b)
      /\ TwoData(x1) /\ TwoData(x2) => CleanBytes(m)
  BY <1>2, <1>4, ModifyEnvelopeIs
<1> QED BY <1>1, <1>3, <1>5

\* An upload with an envelope, and the place of its amplitude.
UploadOf(m, amplitude) ==
  /\ Good(m) /\ CleanBytes(m) /\ m[1] = 240
  /\ amplitude \in Data => m[18] = amplitude

LEMMA WaveUpload ==
  ASSUME NEW b \in Waves \cup Ramps, NEW devType \in Byte, NEW direction \in Byte,
         NEW precise \in Byte, NEW xOffset \in Nat, NEW amplitude \in Byte, NEW period \in Nat,
         NEW yOffset \in Byte
  PROVE  UploadOf(SysEx(WaveData(devType, direction, precise, xOffset, WaveEnvelope(b),
                                 amplitude, period, yOffset)), amplitude)
<1>1. PICK y1 \in Data, x1 \in Nat, x2 \in Nat, y2 \in Data :
        WaveEnvelope(b) = [y1 |-> y1, x1 |-> x1, x2 |-> x2, y2 |-> y2]
  BY WaveEnvelopeIs
<1>2. y1 \in Byte /\ y2 \in Byte
  BY Bytes
<1> DEFINE d1 == Common(devType, direction)
           d2 == d1 \o <<precise>>
           d3 == d2 \o Word(xOffset)
           d4 == d3 \o <<y1>>
           d5 == d4 \o Word(x1)
           d6 == d5 \o <<amplitude>>
           d7 == d6 \o Word(x2)
           d8 == d7 \o <<y2>>
           d9 == d8 \o Word(period)
           d10 == d9 \o <<yOffset>>
<1>3. d1 \in Run(6)
  BY CommonIs
<1>4. d2 \in Run(6 + 1)
  <2> HIDE DEF d1
  <2> QED BY <1>3, RunByte
<1>5. d3 \in Run(7 + 2)
  <2> HIDE DEF d2
  <2> QED BY <1>4, RunWord
<1>6. d4 \in Run(9 + 1)
  <2> HIDE DEF d3
  <2> QED BY <1>2, <1>5, RunByte
<1>7. d5 \in Run(10 + 2)
  <2> HIDE DEF d4
  <2> QED BY <1>6, RunWord
<1>8. d6 \in Run(12 + 1)
  <2> HIDE DEF d5
  <2> QED BY <1>7, RunByte
<1>9. d7 \in Run(13 + 2)
  <2> HIDE DEF d6
  <2> QED BY <1>8, RunWord
<1>10. d8 \in Run(15 + 1)
  <2> HIDE DEF d7
  <2> QED BY <1>2, <1>9, RunByte
<1>11. d9 \in Run(16 + 2)
  <2> HIDE DEF d8
  <2> QED BY <1>10, RunWord
<1>12. d10 \in Run(18 + 1)
  <2> HIDE DEF d9
  <2> QED BY <1>11, RunByte
<1>13. d6[13] = amplitude
  <2> HIDE DEF d5
  <2>1. d5 \in Run(12)
    BY <1>7
  <2>2. (d5 \o <<amplitude>>)[12 + 1] = amplitude
    BY <2>1, 12 \in Nat, RunLast, Zenon
  <2>3. 12 + 1 = 13
    OBVIOUS
  <2> QED BY <2>2, <2>3, Zenon
<1>14. d7[13] = d6[13]
  <2> HIDE DEF d6
  <2>1. d6 \in Run(13) /\ 13 \in Nat /\ 13 \in 1 .. 13 /\ Word(x2) \in Seq(Nat)
    BY <1>8, Parts
  <2> QED BY <2>1, RunKeeps, Zenon
<1>15. d8[13] = d7[13]
  <2> HIDE DEF d7
  <2>1. d7 \in Run(15) /\ 15 \in Nat /\ 13 \in 1 .. 15 /\ <<y2>> \in Seq(Nat)
    BY <1>2, <1>9, Parts
  <2> QED BY <2>1, RunKeeps, Zenon
<1>16. d9[13] = d8[13]
  <2> HIDE DEF d8
  <2>1. d8 \in Run(16) /\ 16 \in Nat /\ 13 \in 1 .. 16 /\ Word(period) \in Seq(Nat)
    BY <1>10, Parts
  <2> QED BY <2>1, RunKeeps, Zenon
<1>17. d10[13] = d9[13]
  <2> HIDE DEF d9
  <2>1. d9 \in Run(18) /\ 18 \in Nat /\ 13 \in 1 .. 18 /\ <<yOffset>> \in Seq(Nat)
    BY <1>11, Parts
  <2> QED BY <2>1, RunKeeps, Zenon
<1> DEFINE m == SysEx(d10)
<1>18. m = SysEx(WaveData(devType, direction, precise, xOffset, WaveEnvelope(b), amplitude,
                          period, yOffset))
  BY <1>1 DEF WaveData
<1>19. d10[13] = amplitude
  <2> HIDE DEF d6, d7, d8, d9, d10
  <2> QED BY <1>13, <1>14, <1>15, <1>16, <1>17
<1>21. m = SysEx(d10)
  OBVIOUS
<1> HIDE DEF d10, m
<1>20. 19 \in Nat /\ d10 \in Run(19) /\ 13 \in 1 .. 19 /\ 13 + 5 = 18
  BY <1>12
<1>22. Good(m) /\ CleanBytes(m) /\ m[1] = 240
  BY <1>21, <1>20, UploadIs
<1>23. amplitude \in Data => m[13 + 5] = amplitude
  BY <1>21, <1>19, <1>20, UploadPlace, Zenon
<1>24. UploadOf(m, amplitude)
  BY <1>20, <1>22, <1>23, Zenon DEF UploadOf
<1> QED BY <1>18, <1>24, Zenon

LEMMA Codes ==
  /\ \A x \in {0, 2, 5, 62, 64, 75, 125} : x \in Byte /\ x \in Data /\ x \in Nat /\ TwoData(x)
  /\ 16384 \in Nat /\ 7790 \in Nat
<1>1. \A x \in {0, 2, 5, 62, 64, 75, 125} : x \in Data
  BY DEF Data
<1> QED BY <1>1, Bytes, DataAreData

\* The upload of a wave.
WaveSysEx(b, amplitude, period) ==
  SysEx(WaveData(2, 64, 125, 16384, WaveEnvelope(b), amplitude, period, 62))

LEMMA WaveSysExIs ==
  ASSUME NEW b \in Waves, NEW a \in Data, NEW p \in Nat
  PROVE  LET m == WaveSysEx(b, a, p)
         IN  Good(m) /\ CleanBytes(m) /\ m[1] = 240 /\ m[18] = a
<1> DEFINE m == WaveSysEx(b, a, p)
<1>1. PICK t \in Byte, r \in Byte, q \in Byte, x \in Nat, y \in Byte :
        t = 2 /\ r = 64 /\ q = 125 /\ x = 16384 /\ y = 62
  BY Codes
<1>2. a \in Byte /\ b \in Waves \cup Ramps
  BY Bytes
<1>3. m = SysEx(WaveData(t, r, q, x, WaveEnvelope(b), a, p, y))
  BY <1>1 DEF WaveSysEx
<1> HIDE DEF m
<1>4. UploadOf(m, a)
  BY <1>2, <1>3, WaveUpload, Zenon
<1> QED BY <1>4 DEF m, UploadOf

LEMMA WaveGood ==
  ASSUME NEW b \in Waves, NEW m \in Wave(b)
  PROVE  Good(m) /\ ((b.sent => b.period >= 150) => CleanBytes(m))
<1>1. PICK a \in Data : a = CalcAmplitude(b.level, b.gain)
  BY Fields, Kinds, AmplitudeIsData
<1>2. PICK p \in Nat : p = PeriodOf(b.period) /\ (b.period >= 150 => TwoData(p))
  BY Fields, Kinds, PeriodIs
<1>3. PICK e \in Eid : e = b.eid
  BY EidOf, Kinds
<1>4. CASE b.sent
  <2>1. CASE m \in ModifyEnvelope(b, WaveEnvelope(b), <<69, 6, 8, 73>>)
    BY <2>1, ModifyEnvelopeGood
  <2>2. CASE m \in {Modify(e, 66, 64), Modify(e, 71, a), Modify(e, 10, p), Modify(e, 75, 62)}
    <3>1. TwoData(a) /\ a \in Nat
      BY DataAreData DEF TwoData
    <3>2. PICK k \in {66, 71, 10, 75}, v \in {64, a, p, 62} : m = Modify(e, k, v)
      BY <2>2
    <3>3. k \in Address /\ v \in Nat /\ (b.period >= 150 => TwoData(v))
      BY <1>2, <3>1, Addresses, Codes
    <3> QED BY <1>4, <3>2, <3>3, ModifyEffect
  <2> QED BY <1>1, <1>2, <1>3, <1>4, <2>1, <2>2 DEF Wave
<1>5. CASE ~b.sent
  <2>1. m = WaveSysEx(b, a, p)
    BY <1>1, <1>2, <1>5 DEF Wave, WaveSysEx
  <2> QED BY <2>1, WaveSysExIs
<1> QED BY <1>4, <1>5

LEMMA RampGood ==
  ASSUME NEW b \in Ramps, NEW m \in Ramp(b)
  PROVE  Good(m) /\ (~b.sent => CleanBytes(m))
<1>1. b.start \in Byte /\ b.end \in Byte
  BY Fields, Kinds
<1>2. PICK delta \in Byte : delta = RampDelta(Int8(b.start), Int8(b.end))
  BY <1>1, RampIs
<1>3. PICK midpoint \in Byte : midpoint = RampMidpoint(Int8(b.start), Int8(b.end))
  BY <1>1, RampIs
<1>4. PICK direction \in Byte :
        direction = IF Int8(b.end) < Int8(b.start) THEN 64 ELSE 0
  BY Codes
<1>5. PICK e \in Eid : e = b.eid
  BY EidOf, Kinds
<1>6. CASE b.sent
  <2>1. CASE m \in ModifyEnvelope(b, WaveEnvelope(b), <<69, 6, 8, 73>>)
    BY <2>1, <1>6, ModifyEnvelopeGood
  <2>2. CASE m \in {Modify(e, 66, direction), Modify(e, 67, 125), Modify(e, 71, delta),
                    Modify(e, 75, midpoint)}
    <3>1. PICK k \in {66, 67, 71, 75}, v \in {direction, 125, delta, midpoint} :
            m = Modify(e, k, v)
      BY <2>2
    <3>2. k \in Address /\ v \in Nat
      BY Addresses, Codes, Bytes
    <3> QED BY <1>6, <3>1, <3>2, ModifyEffect
  <2> QED BY <1>2, <1>3, <1>4, <1>5, <1>6, <2>1, <2>2 DEF Ramp
<1>7. CASE ~b.sent
  <2>1. m = SysEx(WaveData(5, direction, 125, 0, WaveEnvelope(b), delta, 7790, midpoint))
    BY <1>2, <1>3, <1>4, <1>7 DEF Ramp
  <2>2. PICK t \in Byte, q \in Byte, x \in Nat, p \in Nat :
          t = 5 /\ q = 125 /\ x = 0 /\ p = 7790
    BY Codes
  <2>3. m = SysEx(WaveData(t, direction, q, x, WaveEnvelope(b), delta, p, midpoint))
    BY <2>1, <2>2
  <2>4. b \in Waves \cup Ramps
    OBVIOUS
  <2>5. Good(m) /\ CleanBytes(m)
    <3>1. UploadOf(m, delta)
      BY <2>3, <2>4, WaveUpload, Zenon
    <3> QED BY <3>1 DEF UploadOf
  <2> QED BY <2>5
<1> QED BY <1>6, <1>7

LEMMA ConstantGood ==
  ASSUME NEW b \in Constants, NEW m \in Constant(b)
  PROVE  /\ Good(m)
         /\ (b.sent /\ HasEnvelope(b) => Uint16ToMidiUint14(b.env.fall) # 0) => CleanBytes(m)
<1>1. PICK y1 \in Data, x1 \in Nat, x2 \in Nat, y2 \in Data :
        /\ ConstantEnvelope(b) = [y1 |-> y1, x1 |-> x1, x2 |-> x2, y2 |-> y2]
        /\ TwoData(x1)
        /\ (HasEnvelope(b) => Uint16ToMidiUint14(b.env.fall) # 0) => TwoData(x2)
  BY ConstantEnvelopeIs
<1>2. PICK force \in Data : force = CalcForce(b.magnitude, b.gain)
  <2>1. PICK n \in -255 .. 255, g \in Nat : n = b.magnitude /\ g = b.gain
    BY Fields, Kinds
  <2> QED BY <2>1, ForceIs
<1>3. PICK direction \in {0, 125} : direction = IF b.magnitude >= 0 THEN 125 ELSE 0
  OBVIOUS
<1>4. PICK e \in Eid : e = b.eid
  BY EidOf, Kinds
<1>5. CASE b.sent
  <2>1. CASE m \in ModifyEnvelope(b, ConstantEnvelope(b), <<68, 69, 71, 72>>)
    BY <1>5, <2>1, ConstantEnvelopeGood
  <2>2. CASE m \in {Modify(e, 73, direction), Modify(e, 70, force)}
    <3>1. PICK k \in {73, 70}, v \in {direction, force} : m = Modify(e, k, v)
      BY <2>2
    <3>2. v \in Data /\ \A x \in Data : x \in Nat /\ TwoData(x)
      BY Codes, DataAreData DEF TwoData
    <3>3. k \in Address /\ v \in Nat /\ TwoData(v)
      BY <3>2, Addresses
    <3> QED BY <3>1, <3>3, ModifyEffect
  <2> QED BY <1>2, <1>3, <1>4, <1>5, <2>1, <2>2 DEF Constant
<1>6. CASE ~b.sent
  <2> DEFINE d == ConstantData(y1, x1, force, x2, y2, direction)
  <2>1. m = SysEx(d)
    BY <1>1, <1>2, <1>3, <1>6 DEF Constant, ConstantData
  <2>2. y1 \in Byte /\ force \in Byte /\ y2 \in Byte /\ direction \in Byte
    BY Bytes, Codes
  <2>3. d \in Run(15) /\ 15 \in Nat
    BY <2>2, ConstantDataIs
  <2> HIDE DEF d
  <2> QED BY <2>1, <2>3, UploadIs
<1> QED BY <1>5, <1>6

LEMMA ConditionGood ==
  ASSUME NEW b \in Conditions, NEW m \in Condition(b)
  PROVE  Good(m) /\ CleanBytes(m)
<1>1. PICK t \in Byte : t = b.devType
  BY Fields DEF Byte
<1>2. PICK magic \in {47, 63} : magic = IF b.devType = Spring THEN 47 ELSE 63
  OBVIOUS
<1> DEFINE c == Common(t, 0)
           q == <<0, 125, 62, 63, 62, magic, 125, 0>>
           d == c \o q
<1>3. m = SysEx(d)
  BY <1>1, <1>2 DEF Condition
<1>4. c \in Run(6)
  BY Codes, CommonIs
<1>5. q \in Seq(Byte) /\ Len(q) = 8
  BY DEF Byte
<1> HIDE DEF c, q
<1>6. d \in Run(14) /\ 14 \in Nat
  <2>1. c \in Seq(Byte) /\ Len(c) = 6
    BY <1>4 DEF Run
  <2>2. c \o q \in Seq(Byte) /\ Len(c \o q) = Len(c) + Len(q)
    <3>1. q \in Seq(Byte) /\ c \in Seq(Byte)
      BY <1>5, <2>1
    <3> QED BY <3>1, Cat, Zenon
  <2>3. d \in Seq(Byte) /\ Len(d) = 14
    BY <1>5, <2>1, <2>2
  <2> HIDE DEF d
  <2> QED BY <2>3 DEF Run
<1> HIDE DEF d
<1> QED BY <1>3, <1>6, UploadIs

LEMMA FrictionGood ==
  ASSUME NEW b \in Frictions, NEW m \in Friction(b)
  PROVE  Good(m) /\ CleanBytes(m)
<1>1. PICK f \in Data : f = FrictionOf(b.coefficient)
  BY Fields, Kinds, FrictionIs
<1>2. PICK e \in Eid : e = b.eid
  BY EidOf, Kinds
<1>3. CASE b.sent
  <2>1. PICK k \in {67, 70} : m = Modify(e, k, f)
    BY <1>1, <1>2, <1>3 DEF Friction
  <2>2. k \in Address /\ f \in Nat /\ TwoData(f)
    BY Addresses, DataAreData DEF TwoData
  <2> QED BY <2>1, <2>2, ModifyEffect
<1>4. CASE ~b.sent
  <2> DEFINE d == Common(11, 0) \o <<f>>
  <2>1. m = SysEx(d)
    BY <1>1, <1>4 DEF Friction
  <2>2. d \in Run(6 + 1) /\ 7 \in Nat
    <3>1. 11 \in Byte /\ 0 \in Byte /\ f \in Byte /\ 6 \in Nat
      BY Bytes DEF Byte
    <3>2. Common(11, 0) \in Run(6)
      BY <3>1, CommonIs
    <3> QED BY <3>1, <3>2, RunByte
  <2> HIDE DEF d
  <2> QED BY <2>1, <2>2, UploadIs
<1> QED BY <1>3, <1>4

-----------------------------------------------------------------------------
(* The strength in the messages of a wave or a constant force. *)

\* What the messages ms say of the attribute at an address, which is at a
\* place of its own in an upload: it is a.
Tells(ms, address, place, a) ==
  /\ \A m \in ms : /\ m[1] \in {240, 241}
                   /\ m[1] = 241 /\ m[3] = address => m[5] = a
                   /\ m[1] = 240 => m[place] = a
  /\ \E m \in ms : m[1] = 240 \/ (m[1] = 241 /\ m[3] = address)

LEMMA StrengthIs ==
  ASSUME NEW ms, NEW a \in Data,
         Tells(ms, IF asked.type = "wave" THEN 71 ELSE 70,
                   IF asked.type = "wave" THEN 18 ELSE 16, a)
  PROVE  Strength(ms) = a
<1> DEFINE address == IF asked.type = "wave" THEN 71 ELSE 70
           place == IF asked.type = "wave" THEN 18 ELSE 16
           P(m) == m[1] = 240 \/ (m[1] = 241 /\ m[3] = address)
           c == CHOOSE m \in ms : P(m)
<1>1. Strength(ms) = IF c[1] = 241 THEN c[5] ELSE c[place]
  BY DEF Strength
<1>2. Tells(ms, address, place, a)
  OBVIOUS
<1> HIDE DEF address, place
<1>3. c \in ms /\ P(c)
  <2>1. \E m \in ms : P(m)
    BY <1>2 DEF Tells
  <2> HIDE DEF P
  <2> QED BY <2>1
<1> HIDE DEF c
<1>4. (c[1] = 241 /\ c[3] = address => c[5] = a) /\ (c[1] = 240 => c[place] = a)
  BY <1>2, <1>3 DEF Tells
<1> QED BY <1>1, <1>3, <1>4

LEMMA LowOfData ==
  ASSUME NEW a \in Data
  PROVE  Low(a) = a /\ a \in Nat
BY DEF Low, Data

LEMMA WaveTells ==
  ASSUME NEW b \in Waves
  PROVE  /\ CalcAmplitude(b.level, b.gain) \in Data
         /\ Tells(Wave(b), 71, 18, CalcAmplitude(b.level, b.gain))
<1>1. PICK a \in Data : a = CalcAmplitude(b.level, b.gain)
  BY Fields, Kinds, AmplitudeIsData
<1>2. PICK p \in Nat : p = PeriodOf(b.period)
  BY Fields, Kinds, PeriodIs
<1>3. PICK e \in Eid : e = b.eid
  BY EidOf, Kinds
<1>4. Tells(Wave(b), 71, 18, a)
  <2>1. CASE b.sent
    <3> DEFINE M == {Modify(e, 66, 64), Modify(e, 71, a), Modify(e, 10, p), Modify(e, 75, 62)}
    <3>1. Wave(b) = ModifyEnvelope(b, WaveEnvelope(b), <<69, 6, 8, 73>>) \cup M
      BY <1>1, <1>2, <1>3, <2>1 DEF Wave
    <3>2. /\ Modify(e, 66, 64)[1] = 241 /\ Modify(e, 66, 64)[3] = 66
          /\ Modify(e, 71, a)[1] = 241 /\ Modify(e, 71, a)[3] = 71 /\ Modify(e, 71, a)[5] = Low(a)
          /\ Modify(e, 10, p)[1] = 241 /\ Modify(e, 10, p)[3] = 10
          /\ Modify(e, 75, 62)[1] = 241 /\ Modify(e, 75, 62)[3] = 75
      <4>1. \A k \in Address, v \in Nat :
              /\ Modify(e, k, v)[1] = 241 /\ Modify(e, k, v)[3] = k
              /\ Modify(e, k, v)[5] = Low(v)
        BY ModifyEffect
      <4>2. 64 \in Nat /\ 62 \in Nat /\ a \in Nat
        BY LowOfData
      <4> QED BY <4>1, <4>2, Addresses
    <3>3. /\ \A m \in M : m[1] = 241 /\ (m[3] = 71 => m[5] = a)
          /\ \E m \in M : m[1] = 241 /\ m[3] = 71
      BY <3>2, LowOfData
    <3>4. \A m \in ModifyEnvelope(b, WaveEnvelope(b), <<69, 6, 8, 73>>) : m[1] = 241 /\ m[3] # 71
      BY ModifyEnvelopeGood
    <3> HIDE DEF M
    <3> QED BY <3>1, <3>3, <3>4 DEF Tells
  <2>2. CASE ~b.sent
    <3> DEFINE u == WaveSysEx(b, a, p)
    <3>1. Wave(b) = {u}
      BY <1>1, <1>2, <2>2 DEF Wave, WaveSysEx
    <3>2. u[1] = 240 /\ u[18] = a
      BY WaveSysExIs
    <3> HIDE DEF u
    <3> QED BY <3>1, <3>2 DEF Tells
  <2> QED BY <2>1, <2>2
<1> QED BY <1>1, <1>4

LEMMA ConstantTells ==
  ASSUME NEW b \in Constants
  PROVE  /\ CalcForce(b.magnitude, b.gain) \in Data
         /\ Tells(Constant(b), 70, 16, CalcForce(b.magnitude, b.gain))
<1>1. PICK y1 \in Data, x1 \in Nat, x2 \in Nat, y2 \in Data :
        ConstantEnvelope(b) = [y1 |-> y1, x1 |-> x1, x2 |-> x2, y2 |-> y2]
  BY ConstantEnvelopeIs
<1>2. PICK force \in Data : force = CalcForce(b.magnitude, b.gain)
  <2>1. PICK n \in -255 .. 255, g \in Nat : n = b.magnitude /\ g = b.gain
    BY Fields, Kinds
  <2> QED BY <2>1, ForceIs
<1>3. PICK direction \in {0, 125} : direction = IF b.magnitude >= 0 THEN 125 ELSE 0
  OBVIOUS
<1>4. PICK e \in Eid : e = b.eid
  BY EidOf, Kinds
<1>5. Tells(Constant(b), 70, 16, force)
  <2>1. CASE b.sent
    <3> DEFINE E == ModifyEnvelope(b, ConstantEnvelope(b), <<68, 69, 71, 72>>)
               M == {Modify(e, 73, direction), Modify(e, 70, force)}
    <3>1. Constant(b) = E \cup M
      BY <1>2, <1>3, <1>4, <2>1 DEF Constant
    <3>2. /\ Modify(e, 73, direction)[1] = 241 /\ Modify(e, 73, direction)[3] = 73
          /\ Modify(e, 70, force)[1] = 241 /\ Modify(e, 70, force)[3] = 70
          /\ Modify(e, 70, force)[5] = force
      <4>1. \A k \in Address, v \in Nat :
              /\ Modify(e, k, v)[1] = 241 /\ Modify(e, k, v)[3] = k
              /\ Modify(e, k, v)[5] = Low(v)
        BY ModifyEffect
      <4>2. force \in Nat /\ Low(force) = force /\ direction \in Nat
        BY LowOfData
      <4> QED BY <4>1, <4>2, Addresses
    <3>3. /\ \A m \in M : m[1] = 241 /\ (m[3] = 70 => m[5] = force)
          /\ \E m \in M : m[1] = 241 /\ m[3] = 70
      BY <3>2
    <3>4. \A m \in E : m[1] = 241 /\ m[3] # 70
      <4>1. \A m \in E : m[1] = 241 /\ m[3] \in {68, 69, 71, 72}
        BY ConstantEnvelopeGood
      <4> HIDE DEF E
      <4> QED BY <4>1
    <3> HIDE DEF E, M
    <3> QED BY <3>1, <3>3, <3>4 DEF Tells
  <2>2. CASE ~b.sent
    <3> DEFINE d == ConstantData(y1, x1, force, x2, y2, direction)
    <3>1. Constant(b) = {SysEx(d)}
      BY <1>1, <1>2, <1>3, <2>2 DEF Constant, ConstantData
    <3>2. y1 \in Byte /\ force \in Byte /\ y2 \in Byte /\ direction \in Byte
      BY Bytes, Codes
    <3>3. d \in Run(15)
      BY <3>2, ConstantDataIs
    <3>4. d[11] = force
      BY <3>2, ConstantDataIs
    <3> HIDE DEF d
    <3>6. SysEx(d)[1] = 240
      BY <3>3, 15 \in Nat, UploadIs
    <3>5. SysEx(d)[16] = force
      <4>1. 11 + 5 = 16 /\ d[11] \in Data
        BY <3>4
      <4>2. SysEx(d)[11 + 5] = d[11]
        <5>1. 15 \in Nat /\ 11 \in 1 .. 15
          OBVIOUS
        <5> QED BY <3>3, <4>1, <5>1, UploadPlace
      <4> QED BY <3>4, <4>1, <4>2, Zenon
    <3> QED BY <3>1, <3>5, <3>6 DEF Tells
  <2> QED BY <2>1, <2>2
<1> QED BY <1>2, <1>5

-----------------------------------------------------------------------------
(* The line. *)

\* The messages of an effect block, with the duration of one in the wheel.
Sent(b, messages) == messages \cup IF b.sent THEN {Modify(b.eid, 0, Dur(b))} ELSE {}

\* What is on the line is what the last report leads to, or nothing.
WireInv ==
  \/ asked = Nothing /\ wire = {}
  \/ asked \in Waves /\ wire = Sent(asked, Wave(asked))
  \/ asked \in Ramps /\ wire = Sent(asked, Ramp(asked))
  \/ asked \in Constants /\ wire = Sent(asked, Constant(asked))
  \/ asked \in Frictions /\ wire = Sent(asked, Friction(asked))
  \/ asked \in Conditions /\ wire = Sent(asked, Condition(asked))
  \/ \E e \in Eids, op \in 1 .. 3 :
       asked = [type |-> "operation", eid |-> e, op |-> op] /\ wire = {EffectOp(e, op)}
  \/ /\ \E c \in 4 .. 6 : asked = [type |-> "control", control |-> c]
     /\ wire \subseteq AutoCenter(TRUE) \cup EnableFFB

LEMMA WireInvariant == Spec => []WireInv
<1>1. Init => WireInv
  BY DEF Init, WireInv
<1>2. WireInv /\ [Next]_vars => WireInv'
  <2> SUFFICES ASSUME WireInv, [Next]_vars PROVE WireInv'
    OBVIOUS
  <2>1. CASE SetWave
    <3>1. PICK b \in Waves : SetEffect(b, Wave(b))
      BY <2>1 DEF SetWave
    <3>2. asked' \in Waves /\ wire' = Sent(asked', Wave(asked'))
      BY <3>1 DEF SetEffect, Sent
    <3> QED BY <3>2 DEF WireInv
  <2>2. CASE SetRamp
    <3>1. PICK b \in Ramps : SetEffect(b, Ramp(b))
      BY <2>2 DEF SetRamp
    <3>2. asked' \in Ramps /\ wire' = Sent(asked', Ramp(asked'))
      BY <3>1 DEF SetEffect, Sent
    <3> QED BY <3>2 DEF WireInv
  <2>3. CASE SetConstant
    <3>1. PICK b \in Constants : SetEffect(b, Constant(b))
      BY <2>3 DEF SetConstant
    <3>2. asked' \in Constants /\ wire' = Sent(asked', Constant(asked'))
      BY <3>1 DEF SetEffect, Sent
    <3> QED BY <3>2 DEF WireInv
  <2>4. CASE SetFriction
    <3>1. PICK b \in Frictions : SetEffect(b, Friction(b))
      BY <2>4 DEF SetFriction
    <3>2. asked' \in Frictions /\ wire' = Sent(asked', Friction(asked'))
      BY <3>1 DEF SetEffect, Sent
    <3> QED BY <3>2 DEF WireInv
  <2>9. CASE SetCondition
    <3>1. PICK b \in Conditions : SetEffect(b, Condition(b))
      BY <2>9 DEF SetCondition
    <3>2. asked' \in Conditions /\ wire' = Sent(asked', Condition(asked'))
      BY <3>1 DEF SetEffect, Sent
    <3> QED BY <3>2 DEF WireInv
  <2>5. CASE Operate
    <3>1. \E e \in Eids, op \in 1 .. 3 :
            asked' = [type |-> "operation", eid |-> e, op |-> op] /\ wire' = {EffectOp(e, op)}
      BY <2>5 DEF Operate
    <3> QED BY <3>1 DEF WireInv
  <2>6. CASE DeviceControl
    <3>1. PICK c \in 4 .. 6 :
            /\ asked' = [type |-> "control", control |-> c]
            /\ wire' = IF c = 5 THEN AutoCenter(TRUE) ELSE EnableFFB
      BY <2>6 DEF DeviceControl
    <3>2. wire' \subseteq AutoCenter(TRUE) \cup EnableFFB
      BY <3>1
    <3> QED BY <3>1, <3>2 DEF WireInv
  <2>7. CASE Drain
    BY <2>7 DEF Drain, WireInv
  <2>8. CASE UNCHANGED vars
    BY <2>8 DEF vars, WireInv
  <2> QED BY <2>1, <2>2, <2>3, <2>4, <2>5, <2>6, <2>7, <2>8, <2>9 DEF Next
<1> QED BY <1>1, <1>2, PTL DEF Spec

\* Bytes of a sequence, and the types of the reports.
LEMMA Types ==
  /\ Nothing.type = "nothing"
  /\ \A b \in Waves : b.type = "wave"
  /\ \A b \in Ramps : b.type = "ramp"
  /\ \A b \in Constants : b.type = "constant"
  /\ \A b \in Frictions : b.type = "friction"
  /\ \A b \in Conditions : b.type = "condition"
BY DEF Nothing, Waves, Ramps, Constants, Frictions, Conditions

LEMMA WireGood ==
  ASSUME WireInv, NEW m \in wire
  PROVE  Good(m) /\ ((Unmasked => ~asked.sent) => CleanBytes(m))
<1>1. CASE asked \in Waves /\ wire = Sent(asked, Wave(asked))
  <2>1. asked.sent \in BOOLEAN /\ asked.period \in Nat
    BY <1>1, Fields, Kinds
  <2>2. (Unmasked => ~asked.sent) => (asked.sent => asked.period >= 150)
    BY <1>1, <2>1, Types DEF Unmasked
  <2> QED BY <1>1, <2>2, WaveGood, DurationGood, Kinds DEF Sent
<1>2. CASE asked \in Ramps /\ wire = Sent(asked, Ramp(asked))
  <2>1. (Unmasked => ~asked.sent) => ~asked.sent
    BY <1>2, Types DEF Unmasked
  <2> QED BY <1>2, <2>1, RampGood, DurationGood, Kinds DEF Sent
<1>3. CASE asked \in Constants /\ wire = Sent(asked, Constant(asked))
  <2>1. (Unmasked => ~asked.sent) =>
          (asked.sent /\ HasEnvelope(asked) => Uint16ToMidiUint14(asked.env.fall) # 0)
    BY <1>3, Types DEF Unmasked
  <2> QED BY <1>3, <2>1, ConstantGood, DurationGood, Kinds DEF Sent
<1>4. CASE asked \in Frictions /\ wire = Sent(asked, Friction(asked))
  BY <1>4, FrictionGood, DurationGood, Kinds DEF Sent
<1>7. CASE asked \in Conditions /\ wire = Sent(asked, Condition(asked))
  BY <1>7, ConditionGood, DurationGood, Kinds DEF Sent
<1>5. CASE \E e \in Eids, op \in 1 .. 3 : wire = {EffectOp(e, op)}
  <2>1. PICK e \in 2 .. 11, op \in 1 .. 3 : m = EffectOp(e, op)
    BY <1>5, MessageAssumption
  <2> QED BY <2>1, EffectOpIs
<1>6. CASE wire \subseteq AutoCenter(TRUE) \cup EnableFFB
  BY <1>6, SetUp
<1> QED BY <1>1, <1>2, <1>3, <1>4, <1>5, <1>6, <1>7 DEF WireInv

\* Every message is a sequence of bytes behind a command, whatever the
\* report asked for (ffb-wheel.c, ffb_sendSysEx); and it is one the wheel can
\* take: its check is right, and unless a modification of a ramp, a fast wave
\* or a constant without a fade time is among them, its data are data bytes.
THEOREM MessagesSafety == Spec => [](TypeOK /\ ValidMessages)
<1>1. WireInv => TypeOK
  BY WireGood DEF TypeOK, Good, Byte
<1>2. WireInv => ValidMessages
  <2> SUFFICES ASSUME WireInv PROVE ValidMessages
    OBVIOUS
  <2>1. (Unmasked => ~asked.sent) => Clean
    BY WireGood DEF Clean, CleanBytes
  <2>2. ASSUME NEW m \in wire
        PROVE  /\ m[1] = 241 => (SumOf(m) - (m[3] - (m[3] % 64))) % 128 = 0
               /\ m[1] = 240 => SumOf(SubSeq(m, 6, Len(m) - 1)) % 128 = 0
               /\ m[1] \in {242, 243} => HalfBytesCancel(m)
    BY WireGood DEF Good
  <2> QED BY <2>1, <2>2 DEF ValidMessages
<1> QED BY <1>1, <1>2, WireInvariant, PTL

-----------------------------------------------------------------------------
(* Stronger requests are never weaker forces. *)

\* The type of a report tells which it is.
LEMMA Which ==
  ASSUME WireInv
  PROVE  /\ asked.type = "wave" => asked \in Waves /\ wire = Sent(asked, Wave(asked))
         /\ asked.type = "constant" => asked \in Constants /\ wire = Sent(asked, Constant(asked))
<1>1. CASE asked \in Waves /\ wire = Sent(asked, Wave(asked))
  BY <1>1, Types
<1>2. CASE asked \in Constants /\ wire = Sent(asked, Constant(asked))
  BY <1>2, Types
<1>3. CASE asked = Nothing \/ asked \in Ramps \/ asked \in Frictions \/ asked \in Conditions
  BY <1>3, Types
<1>4. CASE \E e \in Eids, op \in 1 .. 3 : asked = [type |-> "operation", eid |-> e, op |-> op]
  BY <1>4
<1>5. CASE \E c \in 4 .. 6 : asked = [type |-> "control", control |-> c]
  BY <1>5
<1> QED BY <1>1, <1>2, <1>3, <1>4, <1>5 DEF WireInv

\* The duration of an effect in the wheel is not taken for its strength.
LEMMA SentTells ==
  ASSUME NEW b \in Waves \cup Constants, NEW ms, NEW address \in {70, 71}, NEW place, NEW a,
         Tells(ms, address, place, a)
  PROVE  Tells(Sent(b, ms), address, place, a)
<1> DEFINE m == Modify(b.eid, 0, Dur(b))
<1>1. m[1] = 241 /\ m[3] = 0
  <2>1. PICK e \in Eid : e = b.eid
    BY EidOf, Kinds
  <2>2. PICK v \in Nat : v = Dur(b)
    BY Fields, Kinds, TimesAreData DEF Dur, TwoData
  <2> HIDE DEF m
  <2>3. m = Modify(e, 0, v)
    BY <2>1, <2>2 DEF m
  <2> QED BY <2>3, Addresses, ModifyEffect
<1>2. Sent(b, ms) \subseteq ms \cup {m} /\ ms \subseteq Sent(b, ms)
  BY DEF Sent
<1> HIDE DEF m
<1> QED BY <1>1, <1>2 DEF Tells

\* A request with a larger level, magnitude or gain never puts a smaller
\* strength on the line, for all gains of the report, if it fits in seven
\* bits (as every one does up to the gain 127); and the gain 127 keeps the
\* level of a wave (calcAmplitude and calcForce, ffb.c).
THEOREM Louder == Spec => []LouderNotSofter
<1>1. /\ \A g \in Gains : g \in Gain
      /\ \A l \in Levels : l \in Level
  BY MessageAssumption DEF Level, Gain
<1>2. ASSUME WireInv, asked.type = "wave"
      PROVE  /\ \A l \in Levels, g \in Gains : l >= asked.level /\ g >= asked.gain /\ Fits(l, g) =>
                  Strength(Wave([asked EXCEPT !.level = l, !.gain = g])) >= Strength(wire)
             /\ asked.gain = 127 => Strength(wire) = asked.level
  <2>1. asked \in Waves /\ wire = Sent(asked, Wave(asked))
    BY <1>2, Which
  <2>2. PICK k \in Level, f \in Gain : k = asked.level /\ f = asked.gain
    BY <1>1, <2>1 DEF Waves
  <2>3. ASSUME NEW ms, NEW a \in Data, Tells(ms, 71, 18, a) PROVE Strength(ms) = a
    BY <1>2, <2>3, StrengthIs
  <2>4. Strength(wire) = CalcAmplitude(k, f)
    <3>1. PICK a \in Data : a = CalcAmplitude(k, f) /\ Tells(Wave(asked), 71, 18, a)
      BY <2>1, <2>2, WaveTells
    <3>2. Tells(Sent(asked, Wave(asked)), 71, 18, a)
      BY <2>1, <3>1, SentTells
    <3> QED BY <2>1, <2>3, <3>1, <3>2
  <2>5. ASSUME NEW l \in Levels, NEW g \in Gains, l >= asked.level, g >= asked.gain, Fits(l, g)
        PROVE  Strength(Wave([asked EXCEPT !.level = l, !.gain = g])) >= Strength(wire)
    <3>1. PICK v \in Level, h \in Gain : v = l /\ h = g
      BY <1>1
    <3>2. /\ CalcAmplitude(k, f) <= CalcAmplitude(v, h)
          /\ CalcAmplitude(k, f) \in Level /\ CalcAmplitude(v, h) \in Level
      <4>1. k <= v /\ f <= h /\ Fits(v, h)
        BY <2>2, <2>5, <3>1 DEF Level, Gain
      <4> QED BY <4>1, AmplitudeFaithful
    <3> DEFINE c == [asked EXCEPT !.level = l, !.gain = g]
    <3>3. c \in Waves /\ c.level = v /\ c.gain = h
      <4>1. c \in Waves /\ c.level = l /\ c.gain = g
        BY <2>1 DEF Waves
      <4> HIDE DEF c
      <4> QED BY <3>1, <4>1
    <3> HIDE DEF c
    <3>4. PICK a \in Data : a = CalcAmplitude(v, h) /\ Tells(Wave(c), 71, 18, a)
      BY <3>3, WaveTells
    <3>5. Strength(Wave(c)) = CalcAmplitude(v, h)
      BY <2>3, <3>4
    <3>6. PICK x \in Level, y \in Level : x = CalcAmplitude(k, f) /\ y = CalcAmplitude(v, h)
      BY <3>2
    <3>7. y >= x
      BY <3>2, <3>6 DEF Level
    <3> QED BY <2>4, <3>5, <3>6, <3>7 DEF c
  <2>6. asked.gain = 127 => Strength(wire) = asked.level
    <3>1. CalcAmplitude(k, 127) = k
      <4>1. k <= k /\ 127 <= 127 /\ 127 \in Gain
        BY DEF Level, Gain
      <4> QED BY <4>1, AmplitudeFaithful
    <3> QED BY <2>2, <2>4, <3>1
  <2> QED BY <2>5, <2>6
<1>3. ASSUME WireInv, asked.type = "constant"
      PROVE  \A m \in Magnitudes, g \in Gains :
               /\ AbsOf(m) >= AbsOf(asked.magnitude) /\ g >= asked.gain
               /\ Fits(AbsOf(m) \div 2, g)
               => Strength(Constant([asked EXCEPT !.magnitude = m, !.gain = g])) >= Strength(wire)
  <2>1. asked \in Constants /\ wire = Sent(asked, Constant(asked))
    BY <1>3, Which
  <2>2. PICK k \in -255 .. 255, f \in Gain : k = asked.magnitude /\ f = asked.gain
    BY <1>1, <2>1, Fields DEF Constants
  <2>3. ASSUME NEW ms, NEW a \in Data, Tells(ms, 70, 16, a) PROVE Strength(ms) = a
    BY <1>3, <2>3, StrengthIs
  <2>4. Strength(wire) = CalcForce(k, f)
    <3>1. PICK a \in Data : a = CalcForce(k, f) /\ Tells(Constant(asked), 70, 16, a)
      BY <2>1, <2>2, ConstantTells
    <3>2. Tells(Sent(asked, Constant(asked)), 70, 16, a)
      BY <2>1, <3>1, SentTells
    <3> QED BY <2>1, <2>3, <3>1, <3>2
  <2>5. ASSUME NEW m \in Magnitudes, NEW g \in Gains,
               AbsOf(m) >= AbsOf(asked.magnitude), g >= asked.gain,
               Fits(AbsOf(m) \div 2, g)
        PROVE  Strength(Constant([asked EXCEPT !.magnitude = m, !.gain = g])) >= Strength(wire)
    <3>1. PICK v \in -255 .. 255, h \in Gain : v = m /\ h = g
      <4>1. m \in 0 .. 255
        BY MessageAssumption
      <4>2. m \in -255 .. 255
        BY <4>1
      <4> QED BY <1>1, <4>2
    <3>2. AbsOf(k) <= AbsOf(v) /\ f <= h /\ Fits(AbsOf(v) \div 2, h)
      BY <2>2, <2>5, <3>1 DEF Gain, AbsOf
    <3>3. /\ CalcForce(k, f) <= CalcForce(v, h)
          /\ CalcForce(k, f) \in Level /\ CalcForce(v, h) \in Level
      BY <3>2, ForceFaithful
    <3> DEFINE c == [asked EXCEPT !.magnitude = m, !.gain = g]
    <3>4. c \in Constants /\ c.magnitude = v /\ c.gain = h
      <4>1. c \in Constants /\ c.magnitude = m /\ c.gain = g
        BY <2>1 DEF Constants
      <4> HIDE DEF c
      <4> QED BY <3>1, <4>1
    <3> HIDE DEF c
    <3>5. PICK a \in Data : a = CalcForce(v, h) /\ Tells(Constant(c), 70, 16, a)
      BY <3>4, ConstantTells
    <3>6. Strength(Constant(c)) = CalcForce(v, h)
      BY <2>3, <3>5
    <3>7. PICK x \in Level, y \in Level : x = CalcForce(k, f) /\ y = CalcForce(v, h)
      BY <3>3
    <3>8. y >= x
      BY <3>3, <3>7 DEF Level
    <3> QED BY <2>4, <3>6, <3>7, <3>8 DEF c
  <2> QED BY <2>5
<1>4. WireInv => LouderNotSofter
  BY <1>2, <1>3 DEF LouderNotSofter
<1> QED BY <1>4, WireInvariant, PTL

=============================================================================
