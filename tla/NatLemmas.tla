----------------------------- MODULE NatLemmas -----------------------------
(***************************************************************************)
(* The least element of a set of naturals, for the proofs about the loops  *)
(* of ffb.c that take the first effect, slot or bit; and what follows from *)
(* it: induction over the elements of a set, and with it the sums of       *)
(* Sums, for the proofs about lengths, positions and checksums.            *)
(***************************************************************************)
EXTENDS Sums, FiniteSetsExt, WellFoundedInduction, TLAPS

\* Min, the operator behind the scans of ffb.c for the first slot or block
\* (allocParamBlock, the nextID scan and its rewind, every loop from effect 2
\* up), is a least element of every nonempty set of naturals.
LEMMA MinIsLeast ==
  ASSUME NEW S \in SUBSET Nat, S # {}
  PROVE  Min(S) \in S /\ \A y \in S : Min(S) <= y
<1>1. PICK x \in S : \A y \in S : ~ (<<y, x>> \in OpToRel(<, Nat))
  BY NatLessThanWellFounded, WFMin
<1>2. \A y \in S : x <= y
  <2>1. SUFFICES ASSUME NEW y \in S, y < x PROVE FALSE
    OBVIOUS
  <2>2. <<y, x>> \in {ss \in Nat \X Nat : ss[1] < ss[2]}
    BY <2>1
  <2>3. OpToRel(<, Nat) = {ss \in Nat \X Nat : ss[1] < ss[2]}
    BY DEF OpToRel
  <2>. QED
    BY <1>1, <2>2, <2>3
<1>. QED
  BY <1>2 DEF Min

\* A least element of a set of naturals is its Min.
LEMMA MinIsUnique ==
  ASSUME NEW S \in SUBSET Nat, NEW m \in S, \A y \in S : m <= y
  PROVE  Min(S) = m
<1>1. Min(S) \in S /\ \A y \in S : Min(S) <= y
  BY MinIsLeast
<1>2. Min(S) \in Nat /\ m \in Nat /\ Min(S) <= m /\ m <= Min(S)
  BY <1>1
<1>. QED
  BY <1>2

-----------------------------------------------------------------------------
(* Induction, and sums. *)

\* A set with 0 and with the successor of each of its elements up to k has
\* all numbers up to k.
LEMMA CountTo ==
  ASSUME NEW k \in Nat, NEW G, 0 \in G, \A n \in 0 .. (k - 1) : n \in G => n + 1 \in G
  PROVE  \A n \in 0 .. k : n \in G
<1> DEFINE Bad == (0 .. k) \ G
<1>1. SUFFICES ASSUME Bad # {} PROVE FALSE
  OBVIOUS
<1>2. Min(Bad) \in Bad /\ \A y \in Bad : Min(Bad) <= y
  BY <1>1, MinIsLeast
<1> DEFINE m == Min(Bad)
<1> HIDE DEF m
<1>3. m \in 0 .. k /\ m \notin G /\ \A y \in Bad : m <= y
  BY <1>2 DEF m
<1>4. m # 0 /\ m - 1 \in 0 .. (k - 1)
  BY <1>3
<1>5. m - 1 \in G
  BY <1>3, <1>4
<1>6. (m - 1) + 1 \in G
  BY <1>4, <1>5
<1> QED BY <1>3, <1>6

\* The function SumsOf defines exists.
LEMMA SumsAdd ==
  ASSUME NEW s \in Seq(Int)
  PROVE  /\ SumsOf(s) \in [0 .. Len(s) -> Int]
         /\ SumsOf(s)[0] = 0
         /\ \A n \in 1 .. Len(s) : SumsOf(s)[n] = SumsOf(s)[n - 1] + s[n]
<1> DEFINE Upto(n) == {f \in [0 .. n -> Int] : f[0] = 0 /\ \A m \in 1 .. n : f[m] = f[m - 1] + s[m]}
           G == {n \in 0 .. Len(s) : Upto(n) # {}}
<1>1. Len(s) \in Nat
  OBVIOUS
<1>2. 0 \in G
  <2>1. [m \in 0 .. 0 |-> 0] \in Upto(0)
    OBVIOUS
  <2> QED BY <1>1, <2>1
<1>3. ASSUME NEW n \in 0 .. (Len(s) - 1), n \in G PROVE n + 1 \in G
  <2>1. PICK f \in Upto(n) : TRUE
    BY <1>3
  <2> DEFINE g == [m \in 0 .. n + 1 |-> IF m = n + 1 THEN f[n] + s[n + 1] ELSE f[m]]
  <2>2. s[n + 1] \in Int /\ f[n] \in Int
    BY <1>1, <2>1
  <2>3. g \in [0 .. n + 1 -> Int] /\ g[0] = 0
    BY <2>1, <2>2
  <2>4. ASSUME NEW m \in 1 .. n + 1 PROVE g[m] = g[m - 1] + s[m]
    BY <2>1
  <2>5. g \in Upto(n + 1)
    BY <2>3, <2>4
  <2>6. n + 1 \in 0 .. Len(s) /\ Upto(n + 1) # {}
    <3> HIDE DEF Upto
    <3> QED BY <1>1, <2>5
  <2> QED BY <2>6
<1>4. Len(s) \in G
  <2> HIDE DEF G
  <2>1. \A n \in 0 .. Len(s) : n \in G
    BY <1>1, <1>2, <1>3, CountTo
  <2> QED BY <1>1, <2>1
<1>5. PICK f \in Upto(Len(s)) : TRUE
  <2> HIDE DEF Upto
  <2> QED BY <1>4
<1> DEFINE IsSums(h) == h = [n \in 0 .. Len(s) |-> IF n = 0 THEN 0 ELSE h[n - 1] + s[n]]
<1>6. IsSums(f)
  BY <1>1, <1>5
<1>7. IsSums(SumsOf(s))
  BY <1>6 DEF SumsOf
<1> DEFINE T == {n \in 0 .. Len(s) : SumsOf(s)[n] \in Int}
<1>8. \A n \in 0 .. Len(s) : n \in T
  <2>1. 0 \in T
    BY <1>1, <1>7
  <2>2. ASSUME NEW n \in 0 .. (Len(s) - 1), n \in T PROVE n + 1 \in T
    <3>1. n + 1 \in 1 .. Len(s) /\ s[n + 1] \in Int
      BY <1>1
    <3> QED BY <1>1, <1>7, <2>2, <3>1
  <2> HIDE DEF T
  <2> QED BY <1>1, <2>1, <2>2, CountTo
<1>9. DOMAIN SumsOf(s) = 0 .. Len(s) /\ SumsOf(s) = [n \in DOMAIN SumsOf(s) |-> SumsOf(s)[n]]
  BY <1>7
<1>10. SumsOf(s) \in [0 .. Len(s) -> Int]
  BY <1>8, <1>9
<1>11. 0 \in 0 .. Len(s) /\ SumsOf(s)[0] = 0
  BY <1>1, <1>7
<1>12. ASSUME NEW n \in 1 .. Len(s) PROVE SumsOf(s)[n] = SumsOf(s)[n - 1] + s[n]
  BY <1>1, <1>7
<1> QED BY <1>10, <1>11, <1>12

\* Sums of numbers that are not negative are not negative.
LEMMA SumsOfNat ==
  ASSUME NEW s \in Seq(Nat)
  PROVE  SumsOf(s) \in [0 .. Len(s) -> Nat] /\ SumOf(s) \in Nat
<1> DEFINE G == {n \in 0 .. Len(s) : SumsOf(s)[n] \in Nat}
<1>1. Len(s) \in Nat /\ s \in Seq(Int)
  OBVIOUS
<1>2. 0 \in G
  BY <1>1, SumsAdd
<1>3. ASSUME NEW n \in 0 .. (Len(s) - 1), n \in G PROVE n + 1 \in G
  <2>1. n + 1 \in 1 .. Len(s) /\ s[n + 1] \in Nat
    BY <1>1
  <2> QED BY <1>1, <1>3, <2>1, SumsAdd
<1>4. \A n \in 0 .. Len(s) : n \in G
  <2> HIDE DEF G
  <2> QED BY <1>1, <1>2, <1>3, CountTo
<1> QED BY <1>1, <1>4, SumsAdd DEF SumOf

\* Positive numbers: a longer prefix has the greater sum.
LEMMA SumsGrow ==
  ASSUME NEW s \in Seq(Nat \ {0}), NEW i \in 0 .. Len(s), NEW j \in 0 .. Len(s), i < j
  PROVE  SumsOf(s)[i] < SumsOf(s)[j]
<1> DEFINE k == Len(s) - (i + 1)
           G == {n \in 0 .. k : SumsOf(s)[i] < SumsOf(s)[i + 1 + n]}
<1>1. /\ Len(s) \in Nat /\ s \in Seq(Int) /\ s \in Seq(Nat) /\ k \in Nat /\ i \in Nat /\ j \in Nat
      /\ \A n \in 1 .. Len(s) : s[n] \in Nat /\ s[n] > 0
  OBVIOUS
<1>2. /\ \A n \in 0 .. Len(s) : SumsOf(s)[n] \in Nat
      /\ \A n \in 1 .. Len(s) : SumsOf(s)[n] = SumsOf(s)[n - 1] + s[n]
  BY <1>1, SumsAdd, SumsOfNat
<1>3. 0 \in G
  <2>1. i + 1 \in 1 .. Len(s) /\ (i + 1) - 1 = i
    BY <1>1
  <2> QED BY <1>1, <1>2, <2>1
<1>4. ASSUME NEW n \in 0 .. (k - 1), n \in G PROVE n + 1 \in G
  <2>1. i + 1 + (n + 1) \in 1 .. Len(s) /\ (i + 1 + (n + 1)) - 1 = i + 1 + n /\ i + 1 + n \in 0 .. Len(s)
    BY <1>1
  <2>2. SumsOf(s)[i + 1 + (n + 1)] = SumsOf(s)[i + 1 + n] + s[i + 1 + (n + 1)]
    BY <1>2, <2>1
  <2>3. s[i + 1 + (n + 1)] \in Nat /\ s[i + 1 + (n + 1)] > 0 /\ SumsOf(s)[i + 1 + n] \in Nat
        /\ SumsOf(s)[i] \in Nat /\ SumsOf(s)[i] < SumsOf(s)[i + 1 + n]
    BY <1>1, <1>2, <1>4, <2>1
  <2>4. SumsOf(s)[i] < SumsOf(s)[i + 1 + (n + 1)] /\ n + 1 \in 0 .. k
    BY <1>1, <2>2, <2>3
  <2> QED BY <2>4
<1>5. \A n \in 0 .. k : n \in G
  <2> HIDE DEF G, k
  <2> QED BY <1>1, <1>3, <1>4, CountTo
<1>6. j - (i + 1) \in 0 .. k /\ i + 1 + (j - (i + 1)) = j
  BY <1>1
<1> QED BY <1>5, <1>6

\* The sums of a sequence do not depend on what comes after.
LEMMA SumsOfPrefix ==
  ASSUME NEW s \in Seq(Int), NEW t \in Seq(Int), Len(s) <= Len(t), \A i \in 1 .. Len(s) : t[i] = s[i]
  PROVE  \A n \in 0 .. Len(s) : SumsOf(t)[n] = SumsOf(s)[n]
<1> DEFINE G == {n \in 0 .. Len(s) : SumsOf(t)[n] = SumsOf(s)[n]}
<1>1. Len(s) \in Nat /\ Len(t) \in Nat
  OBVIOUS
<1>2. 0 \in G
  BY <1>1, SumsAdd
<1>3. ASSUME NEW n \in 0 .. (Len(s) - 1), n \in G PROVE n + 1 \in G
  <2>1. n + 1 \in 1 .. Len(s) /\ n + 1 \in 1 .. Len(t) /\ (n + 1) - 1 = n
    BY <1>1
  <2> QED BY <1>3, <2>1, SumsAdd
<1>4. \A n \in 0 .. Len(s) : n \in G
  <2> HIDE DEF G
  <2> QED BY <1>1, <1>2, <1>3, CountTo
<1> QED BY <1>4

\* One more element.
LEMMA SumOfAppend ==
  ASSUME NEW s \in Seq(Int), NEW x \in Int
  PROVE  SumOf(Append(s, x)) = SumOf(s) + x
<1> DEFINE t == Append(s, x)
<1>1. t \in Seq(Int) /\ Len(t) = Len(s) + 1 /\ Len(s) \in Nat
  OBVIOUS
<1>2. (\A i \in 1 .. Len(s) : t[i] = s[i]) /\ t[Len(s) + 1] = x
  OBVIOUS
<1> HIDE DEF t
<1>3. SumsOf(t)[Len(s)] = SumsOf(s)[Len(s)]
  BY <1>1, <1>2, SumsOfPrefix
<1>4. SumsOf(t)[Len(s) + 1] = SumsOf(t)[Len(s)] + x
  <2>1. Len(s) + 1 \in 1 .. Len(t) /\ (Len(s) + 1) - 1 = Len(s)
    BY <1>1
  <2> QED BY <1>1, <1>2, <2>1, SumsAdd
<1>5. SumOf(t) = SumOf(s) + x
  BY <1>1, <1>3, <1>4 DEF SumOf
<1> QED BY <1>5 DEF t

=============================================================================
