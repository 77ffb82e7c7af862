-------------------------------- MODULE Sums --------------------------------
(***************************************************************************)
(* Running totals.  The contracts accumulate totals in loops over arrays;  *)
(* SumTo is that loop, written as a recursive function so that it can be   *)
(* evaluated by TLC and reasoned about by TLAPS (see SumLemmas).           *)
(***************************************************************************)
EXTENDS Integers

\* The sum g[1] + ... + g[n].
SumTo(g, n) ==
  LET s[i \in 0 .. n] == IF i = 0 THEN 0 ELSE s[i - 1] + g[i] IN s[n]

AtMost(a, b) == IF a <= b THEN a ELSE b
=============================================================================
