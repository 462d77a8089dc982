-------------------------------- MODULE Sums --------------------------------
(***************************************************************************)
(* Sums over a sequence of numbers, as a recursive function.               *)
(***************************************************************************)
EXTENDS Integers, Sequences

\* The sum of the first n elements of s, for each n.
SumsOf(s) == LET sums[n \in 0 .. Len(s)] == IF n = 0 THEN 0 ELSE sums[n - 1] + s[n]
             IN  sums

SumOf(s) == SumsOf(s)[Len(s)]

=============================================================================
