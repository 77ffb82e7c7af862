----------------------------- MODULE SumLemmas ------------------------------
(***************************************************************************)
(* Facts about SumTo.  Induction over the naturals is done by smallest     *)
(* counterexample (LeastNatural), which needs no operator parameter.       *)
(***************************************************************************)
EXTENDS Sums, TLAPS, WellFoundedInduction

\* Every non-empty set of naturals has a least member.
LEMMA LeastNatural ==
  ASSUME NEW T \in SUBSET Nat, T # {}
  PROVE  \E m \in T : \A k \in T : m <= k
<1> DEFINE R == { p \in Nat \X Nat : p[1] < p[2] }
<1>1. IsWellFoundedOn(R, Nat)
  BY NatLessThanWellFounded DEF OpToRel
<1>2. PICK x \in T : \A y \in T : ~ (<<y, x>> \in R)
  <2> HIDE DEF R
  <2> QED BY <1>1, WFMin, Zenon
<1>3. ASSUME NEW y \in T PROVE x <= y
  <2>1. ~ (<<y, x>> \in R) BY <1>2
  <2> QED BY <2>1
<1> QED BY <1>3

\* A set that holds 0 and, with n, also n + 1, holds 0 .. N.
LEMMA UpTo ==
  ASSUME NEW N \in Nat, NEW T, 0 \in T, \A n \in 0 .. N - 1 : n \in T => n + 1 \in T
  PROVE  \A n \in 0 .. N : n \in T
<1> DEFINE Bad == {n \in 0 .. N : n \notin T}
<1> SUFFICES ASSUME Bad # {} PROVE FALSE
  OBVIOUS
<1>1. PICK m \in Bad : \A k \in Bad : m <= k
  <2>1. Bad \in SUBSET Nat OBVIOUS
  <2> HIDE DEF Bad
  <2> QED BY <2>1, LeastNatural
<1>2. m \in 0 .. N /\ m \notin T /\ m # 0
  OBVIOUS
<1>3. m - 1 \in 0 .. N - 1 /\ m - 1 \in T
  <2>1. m - 1 \in 0 .. N - 1 BY <1>2
  <2>2. CASE m - 1 \notin T
    <3>1. m - 1 \in Bad BY <2>1, <2>2
    <3>2. m <= m - 1
      <4> HIDE DEF Bad
      <4> QED BY <3>1, <1>1
    <3> QED BY <3>2, <1>2
  <2> QED BY <2>1, <2>2
<1>4. (m - 1) + 1 \in T
  BY <1>3
<1> QED BY <1>2, <1>4

-----------------------------------------------------------------------------
\* s holds the running totals of g up to n.
Totals(s, g, n) == s = [i \in 0 .. n |-> IF i = 0 THEN 0 ELSE s[i - 1] + g[i]]

\* The loop has a result after every number of iterations.
LEMMA TotalsExist ==
  ASSUME NEW N \in Nat, NEW g, \A i \in 1 .. N : g[i] \in Int
  PROVE  \A n \in 0 .. N : \E s \in [0 .. n -> Int] : Totals(s, g, n)
<1> DEFINE T == {n \in 0 .. N : \E s \in [0 .. n -> Int] : Totals(s, g, n)}
<1>1. 0 \in T
  <2>1. [i \in 0 .. 0 |-> 0] \in [0 .. 0 -> Int] OBVIOUS
  <2>2. Totals([i \in 0 .. 0 |-> 0], g, 0) BY DEF Totals
  <2> QED BY <2>1, <2>2
<1>2. ASSUME NEW n \in 0 .. N - 1, n \in T PROVE n + 1 \in T
  <2>1. PICK s \in [0 .. n -> Int] : Totals(s, g, n) BY <1>2
  <2> DEFINE t == [i \in 0 .. n + 1 |-> IF i = n + 1 THEN s[n] + g[n + 1] ELSE s[i]]
  <2>2. g[n + 1] \in Int /\ n + 1 \in 0 .. N OBVIOUS
  <2>3. t \in [0 .. n + 1 -> Int] BY <2>2
  <2>4. \A i \in 0 .. n : t[i] = s[i] OBVIOUS
  <2>5. t[n + 1] = s[n] + g[n + 1] OBVIOUS
  <2>6. \A i \in 0 .. n : s[i] = IF i = 0 THEN 0 ELSE s[i - 1] + g[i]
    BY <2>1 DEF Totals
  <2>7. t = [i \in 0 .. n + 1 |-> t[i]] BY <2>3
  <2> HIDE DEF t
  <2>8. ASSUME NEW i \in 0 .. n + 1
        PROVE  t[i] = IF i = 0 THEN 0 ELSE t[i - 1] + g[i]
    <3>1. CASE i = n + 1 
      <4>1. t[i - 1] = s[n] BY <2>4, <3>1
      <4> QED BY <4>1, <2>5, <3>1
    <3>2. CASE i \in 0 .. n 
      <4>1. CASE i = 0 BY <4>1, <2>4, <2>6
      <4>2. CASE i # 0 
        <5>1. i - 1 \in 0 .. n BY <4>2, <3>2
        <5> QED BY <5>1, <3>2, <4>2, <2>4, <2>6
      <4> QED BY <4>1, <4>2
    <3> QED BY <3>1, <3>2
  <2>9. Totals(t, g, n + 1)
    <3>1. [i \in 0 .. n + 1 |-> t[i]] =
          [i \in 0 .. n + 1 |-> IF i = 0 THEN 0 ELSE t[i - 1] + g[i]]
      BY <2>8, Zenon
    <3> QED BY <3>1, <2>7, Zenon DEF Totals
  <2> QED BY <2>2, <2>3, <2>9
<1>3. \A n \in 0 .. N : n \in T
  <2> HIDE DEF T
  <2> QED BY <1>1, <1>2, UpTo, Zenon
<1> QED BY <1>3

\* Two tables of running totals agree as far as both go.
LEMMA TotalsAgree ==
  ASSUME NEW N \in Nat, NEW M \in Nat, N <= M, NEW g, NEW s, NEW t,
         Totals(s, g, N), Totals(t, g, M)
  PROVE  \A n \in 0 .. N : s[n] = t[n]
<1> DEFINE T == {n \in 0 .. N : s[n] = t[n]}
<1>s. \A i \in 0 .. N : s[i] = IF i = 0 THEN 0 ELSE s[i - 1] + g[i]
  BY DEF Totals
<1>t. \A i \in 0 .. M : t[i] = IF i = 0 THEN 0 ELSE t[i - 1] + g[i]
  BY DEF Totals
<1>1. 0 \in T
  BY <1>s, <1>t
<1>2. ASSUME NEW n \in 0 .. N - 1, n \in T PROVE n + 1 \in T
  <2>1. n + 1 \in 0 .. N /\ n + 1 \in 0 .. M /\ n + 1 # 0 /\ (n + 1) - 1 = n
    OBVIOUS
  <2>2. s[n + 1] = s[n] + g[n + 1] BY <2>1, <1>s
  <2>3. t[n + 1] = t[n] + g[n + 1] BY <2>1, <1>t
  <2> QED BY <2>1, <2>2, <2>3, <1>2
<1>3. \A n \in 0 .. N : n \in T
  <2> HIDE DEF T
  <2> QED BY <1>1, <1>2, UpTo, Zenon
<1> QED BY <1>3

\* SumTo is the last running total.
LEMMA SumIsTotal ==
  ASSUME NEW N \in Nat, NEW g, \A i \in 1 .. N : g[i] \in Int
  PROVE  \E s \in [0 .. N -> Int] : Totals(s, g, N) /\ SumTo(g, N) = s[N]
<1>1. PICK r \in [0 .. N -> Int] : Totals(r, g, N)
  <2>1. N \in 0 .. N OBVIOUS
  <2> QED BY <2>1, TotalsExist, Zenon
<1> DEFINE s == CHOOSE s : s = [i \in 0 .. N |-> IF i = 0 THEN 0 ELSE s[i - 1] + g[i]]
<1>2. Totals(s, g, N)
  BY <1>1 DEF Totals
<1>3. SumTo(g, N) = s[N]
  BY DEF SumTo
<1>4. s[N] = r[N]
  <2> HIDE DEF s
  <2> QED BY <1>1, <1>2, TotalsAgree
<1> QED BY <1>1, <1>3, <1>4

-----------------------------------------------------------------------------
\* A sum of integers is an integer.
LEMMA SumInt ==
  ASSUME NEW N \in Nat, NEW g, \A i \in 1 .. N : g[i] \in Int
  PROVE  SumTo(g, N) \in Int
BY SumIsTotal

\* A sum of no terms is zero.
LEMMA SumZero ==
  ASSUME NEW g PROVE SumTo(g, 0) = 0
<1>1. PICK s : Totals(s, g, 0) /\ SumTo(g, 0) = s[0]
  <2>1. 0 \in Nat /\ \A i \in 1 .. 0 : g[i] \in Int OBVIOUS
  <2> QED BY <2>1, SumIsTotal, Zenon
<1> QED BY <1>1 DEF Totals

\* One more iteration of the loop.
LEMMA SumStep ==
  ASSUME NEW N \in Nat, NEW g, \A i \in 1 .. N : g[i] \in Int, NEW n \in 0 .. N - 1
  PROVE  SumTo(g, n + 1) = SumTo(g, n) + g[n + 1]
<1>0. /\ n \in Nat /\ n + 1 \in Nat /\ n <= n + 1 /\ n \in 0 .. n
      /\ \A i \in 1 .. n : g[i] \in Int
      /\ \A i \in 1 .. n + 1 : g[i] \in Int
  OBVIOUS
<1>1. PICK s \in [0 .. n -> Int] : Totals(s, g, n) /\ SumTo(g, n) = s[n]
  BY <1>0, SumIsTotal, Zenon
<1>2. PICK t \in [0 .. n + 1 -> Int] : Totals(t, g, n + 1) /\ SumTo(g, n + 1) = t[n + 1]
  BY <1>0, SumIsTotal, Zenon
<1>3. s[n] = t[n]
  <2>1. Totals(s, g, n) /\ Totals(t, g, n + 1) BY <1>1, <1>2
  <2>2. \A k \in 0 .. n : s[k] = t[k] BY <2>1, <1>0, TotalsAgree
  <2> QED BY <2>2, <1>0
<1>4. t[n + 1] = t[n] + g[n + 1]
  BY <1>2 DEF Totals
<1> QED BY <1>1, <1>2, <1>3, <1>4

\* A sum of naturals is a natural.
LEMMA SumNat ==
  ASSUME NEW N \in Nat, NEW g, \A i \in 1 .. N : g[i] \in Nat
  PROVE  SumTo(g, N) \in Nat
<1> DEFINE T == {n \in 0 .. N : SumTo(g, n) \in Nat}
<1>1. 0 \in T
  BY SumZero
<1>2. ASSUME NEW n \in 0 .. N - 1, n \in T PROVE n + 1 \in T
  <2>1. SumTo(g, n + 1) = SumTo(g, n) + g[n + 1] BY SumStep
  <2>2. g[n + 1] \in Nat /\ n + 1 \in 0 .. N OBVIOUS
  <2> QED BY <1>2, <2>1, <2>2
<1>3. \A n \in 0 .. N : n \in T
  <2> HIDE DEF T
  <2> QED BY <1>1, <1>2, UpTo, Zenon
<1> QED BY <1>3

\* A sum of naturals only grows with the number of terms.
LEMMA SumMonotonic ==
  ASSUME NEW N \in Nat, NEW g, \A i \in 1 .. N : g[i] \in Nat, NEW m \in 0 .. N
  PROVE  SumTo(g, m) <= SumTo(g, N)
<1> DEFINE T == {n \in 0 .. N : m <= n => SumTo(g, m) <= SumTo(g, n)}
<1>0. \A n \in 0 .. N : SumTo(g, n) \in Nat
  <2> TAKE n \in 0 .. N
  <2>1. n \in Nat /\ \A i \in 1 .. n : g[i] \in Nat OBVIOUS
  <2> QED BY <2>1, SumNat, Zenon
<1>1. 0 \in T
  BY <1>0
<1>2. ASSUME NEW n \in 0 .. N - 1, n \in T PROVE n + 1 \in T
  <2>1. SumTo(g, n + 1) = SumTo(g, n) + g[n + 1] BY SumStep
  <2>2. g[n + 1] \in Nat /\ n + 1 \in 0 .. N OBVIOUS
  <2>3. SumTo(g, n) <= SumTo(g, n + 1) BY <2>1, <2>2, <1>0
  <2>4. CASE m = n + 1 BY <2>4, <2>2, <1>0
  <2>5. CASE m <= n BY <2>5, <2>2, <2>3, <1>2, <1>0
  <2>6. CASE m > n + 1 BY <2>6, <2>2
  <2> QED BY <2>4, <2>5, <2>6
<1>3. \A n \in 0 .. N : n \in T
  <2> HIDE DEF T
  <2> QED BY <1>1, <1>2, UpTo, Zenon
<1>4. N \in 0 .. N
  OBVIOUS
<1> QED BY <1>3, <1>4

\* Changing one term changes the sum by the difference.
LEMMA SumUpdate ==
  ASSUME NEW N \in Nat, NEW g, NEW f, NEW k \in 1 .. N,
         \A i \in 1 .. N : g[i] \in Int, \A i \in 1 .. N : f[i] \in Int,
         \A i \in 1 .. N : i # k => f[i] = g[i]
  PROVE  SumTo(f, N) = SumTo(g, N) + (f[k] - g[k])
<1> DEFINE T == {n \in 0 .. N : SumTo(f, n) = SumTo(g, n) +
                                  (IF k <= n THEN f[k] - g[k] ELSE 0)}
<1>0. \A n \in 0 .. N : SumTo(g, n) \in Int /\ SumTo(f, n) \in Int
  <2> TAKE n \in 0 .. N
  <2>1. /\ n \in Nat /\ \A i \in 1 .. n : g[i] \in Int
        /\ \A i \in 1 .. n : f[i] \in Int
    OBVIOUS
  <2> QED BY <2>1, SumInt, Zenon
<1>1. 0 \in T
  BY SumZero
<1>2. ASSUME NEW n \in 0 .. N - 1, n \in T PROVE n + 1 \in T
  <2>1. SumTo(g, n + 1) = SumTo(g, n) + g[n + 1] BY SumStep
  <2>2. SumTo(f, n + 1) = SumTo(f, n) + f[n + 1] BY SumStep
  <2>3. n + 1 \in 1 .. N /\ n + 1 \in 0 .. N /\ n \in 0 .. N OBVIOUS
  <2>4. CASE k = n + 1 BY <2>4, <2>1, <2>2, <2>3, <1>0, <1>2
  <2>5. CASE k # n + 1 BY <2>5, <2>1, <2>2, <2>3, <1>0, <1>2
  <2> QED BY <2>4, <2>5
<1>3. \A n \in 0 .. N : n \in T
  <2> HIDE DEF T
  <2> QED BY <1>1, <1>2, UpTo, Zenon
<1>4. N \in 0 .. N /\ k <= N
  OBVIOUS
<1> QED BY <1>3, <1>4

\* Equal terms, equal sums.
LEMMA SumSame ==
  ASSUME NEW N \in Nat, NEW g, NEW f, \A i \in 1 .. N : g[i] \in Int,
         \A i \in 1 .. N : f[i] = g[i]
  PROVE  SumTo(f, N) = SumTo(g, N)
<1>1. CASE N = 0
  BY <1>1, SumZero
<1>2. CASE N # 0
  <2>1. 1 \in 1 .. N /\ \A i \in 1 .. N : f[i] \in Int BY <1>2
  <2>2. SumTo(f, N) = SumTo(g, N) + (f[1] - g[1]) BY <2>1, SumUpdate
  <2>3. f[1] = g[1] /\ g[1] \in Int /\ SumTo(g, N) \in Int BY <2>1, SumInt
  <2> QED BY <2>2, <2>3
<1> QED BY <1>1, <1>2

\* A sum of zeros is zero.
LEMMA SumOfZeros ==
  ASSUME NEW N \in Nat, NEW g, \A i \in 1 .. N : g[i] = 0
  PROVE  SumTo(g, N) = 0
<1> DEFINE T == {n \in 0 .. N : SumTo(g, n) = 0}
<1>1. 0 \in T
  BY SumZero
<1>2. ASSUME NEW n \in 0 .. N - 1, n \in T PROVE n + 1 \in T
  <2>1. \A i \in 1 .. N : g[i] \in Int OBVIOUS
  <2>2. SumTo(g, n + 1) = SumTo(g, n) + g[n + 1] BY <2>1, SumStep
  <2>3. g[n + 1] = 0 /\ n + 1 \in 0 .. N OBVIOUS
  <2> QED BY <1>2, <2>2, <2>3
<1>3. \A n \in 0 .. N : n \in T
  <2> HIDE DEF T
  <2> QED BY <1>1, <1>2, UpTo, Zenon
<1> QED BY <1>3

\* A sum of ones counts its terms.
LEMMA SumOfOnes ==
  ASSUME NEW N \in Nat, NEW g, \A i \in 1 .. N : g[i] = 1
  PROVE  SumTo(g, N) = N
<1> DEFINE T == {n \in 0 .. N : SumTo(g, n) = n}
<1>1. 0 \in T
  BY SumZero
<1>2. ASSUME NEW n \in 0 .. N - 1, n \in T PROVE n + 1 \in T
  <2>1. \A i \in 1 .. N : g[i] \in Int OBVIOUS
  <2>2. SumTo(g, n + 1) = SumTo(g, n) + g[n + 1] BY <2>1, SumStep
  <2>3. g[n + 1] = 1 /\ n + 1 \in 0 .. N OBVIOUS
  <2> QED BY <1>2, <2>2, <2>3
<1>3. \A n \in 0 .. N : n \in T
  <2> HIDE DEF T
  <2> QED BY <1>1, <1>2, UpTo, Zenon
<1> QED BY <1>3

\* A sum of terms that are each at most another's is at most the other.
LEMMA SumAtMost ==
  ASSUME NEW N \in Nat, NEW f, NEW g, \A i \in 1 .. N : f[i] \in Int /\ g[i] \in Int,
         \A i \in 1 .. N : f[i] <= g[i]
  PROVE  SumTo(f, N) <= SumTo(g, N)
<1> DEFINE T == {n \in 0 .. N : SumTo(f, n) <= SumTo(g, n)}
<1>1. 0 \in T
  BY SumZero
<1>2. ASSUME NEW n \in 0 .. N - 1, n \in T PROVE n + 1 \in T
  <2>1. /\ SumTo(f, n + 1) = SumTo(f, n) + f[n + 1]
        /\ SumTo(g, n + 1) = SumTo(g, n) + g[n + 1]
    BY SumStep
  <2>2. /\ n \in Nat /\ n + 1 \in 1 .. N /\ n + 1 \in 0 .. N
        /\ \A i \in 1 .. n : f[i] \in Int /\ g[i] \in Int
    OBVIOUS
  <2>3. SumTo(f, n) \in Int /\ SumTo(g, n) \in Int
    BY <2>2, SumInt, Zenon
  <2> QED BY <1>2, <2>1, <2>2, <2>3
<1>3. \A n \in 0 .. N : n \in T
  <2> HIDE DEF T
  <2> QED BY <1>1, <1>2, UpTo, Zenon
<1> QED BY <1>3

\* A common factor of the terms is one of the sum.
LEMMA SumScaled ==
  ASSUME NEW N \in Nat, NEW f, NEW g, NEW c \in Nat, \A i \in 1 .. N : g[i] \in Nat,
         \A i \in 1 .. N : f[i] = c * g[i]
  PROVE  SumTo(f, N) = c * SumTo(g, N)
<1> DEFINE T == {n \in 0 .. N : SumTo(f, n) = c * SumTo(g, n)}
<1>1. 0 \in T
  BY SumZero
<1>2. ASSUME NEW n \in 0 .. N - 1, n \in T PROVE n + 1 \in T
  <2>1. /\ n \in Nat /\ n + 1 \in 1 .. N /\ n + 1 \in 0 .. N
        /\ \A i \in 1 .. n : g[i] \in Nat
        /\ \A i \in 1 .. N : f[i] \in Int /\ g[i] \in Int
    OBVIOUS
  <2>2. /\ SumTo(f, n + 1) = SumTo(f, n) + f[n + 1]
        /\ SumTo(g, n + 1) = SumTo(g, n) + g[n + 1]
    BY <2>1, SumStep
  <2>3. PICK s \in Nat : s = SumTo(g, n)
    <3>1. SumTo(g, n) \in Nat BY <2>1, SumNat, Zenon
    <3> QED BY <3>1
  <2>4. PICK t \in Nat : t = g[n + 1] BY <2>1
  <2>5. c * (s + t) = c * s + c * t
    BY SMT
  <2> QED BY <1>2, <2>1, <2>2, <2>3, <2>4, <2>5
<1>3. \A n \in 0 .. N : n \in T
  <2> HIDE DEF T
  <2> QED BY <1>1, <1>2, UpTo, Zenon
<1> QED BY <1>3

\* Division rounds down, by less than the divisor.
LEMMA DivBounds ==
  ASSUME NEW a \in Nat, NEW t \in Nat \ {0}
  PROVE  /\ a \div t \in Nat
         /\ t * (a \div t) <= a
         /\ a < t * (a \div t) + t
BY SMTT(30)

\* Division undoes a multiplication.
LEMMA DivExact ==
  ASSUME NEW r \in Nat, NEW t \in Nat \ {0}
  PROVE  (r * t) \div t = r
<1> DEFINE q == (r * t) \div t
<1>1. r * t \in Nat
  BY SMT
<1>2. q \in Nat /\ t * q <= r * t /\ r * t < t * q + t
  BY <1>1, DivBounds
<1> HIDE DEF q
<1>3. ~ (q < r)
  <2>1. SUFFICES ASSUME q + 1 <= r PROVE FALSE
     BY <1>2
  <2>2. t * (q + 1) <= t * r
     BY <1>2, <2>1, SMT
  <2>3. t * (q + 1) = t * q + t
     BY <1>2, SMT
  <2> QED BY <1>2, <2>2, <2>3, SMT
<1>4. ~ (r < q)
  <2>1. SUFFICES ASSUME r + 1 <= q PROVE FALSE
     BY <1>2
  <2>2. t * (r + 1) <= t * q
     BY <1>2, <2>1, SMT
  <2>3. t * (r + 1) = t * r + t
     BY <1>2, SMT
  <2> QED BY <1>2, <2>2, <2>3, SMT
<1>5. q = r
  BY <1>2, <1>3, <1>4
<1> QED BY <1>5 DEF q

\* h has M terms of f, and then N terms of g.
Joined(h, f, M, g, N) ==
  /\ \A i \in 1 .. M : f[i] \in Int /\ h[i] = f[i]
  /\ \A i \in 1 .. N : g[i] \in Int /\ h[M + i] = g[i]

\* The sum of such a list is the sum of its two parts.
LEMMA SumConcat ==
  ASSUME NEW M \in Nat, NEW N \in Nat, NEW f, NEW g, NEW h, Joined(h, f, M, g, N)
  PROVE  SumTo(h, M + N) = SumTo(f, M) + SumTo(g, N)
<1> USE DEF Joined
<1> DEFINE T == {n \in 0 .. N : SumTo(h, M + n) = SumTo(f, M) + SumTo(g, n)}
<1>0. M + N \in Nat /\ \A i \in 1 .. M + N : h[i] \in Int
  <2> SUFFICES ASSUME NEW i \in 1 .. M + N PROVE h[i] \in Int
    OBVIOUS
  <2>1. CASE i <= M
    <3>1. i \in 1 .. M BY <2>1
    <3> QED BY <3>1
  <2>2. CASE i > M
    <3>1. i - M \in 1 .. N /\ i = M + (i - M) BY <2>2
    <3> QED BY <3>1
  <2> QED BY <2>1, <2>2
<1>1. 0 \in T
  <2>1. SumTo(h, M) = SumTo(f, M) BY SumSame, Zenon
  <2>2. SumTo(f, M) \in Int /\ SumTo(g, 0) = 0 BY SumInt, SumZero
  <2>3. M + 0 = M /\ 0 \in 0 .. N OBVIOUS
  <2> QED BY <2>1, <2>2, <2>3
<1>2. ASSUME NEW n \in 0 .. N - 1, n \in T PROVE n + 1 \in T
  <2>1. M + n \in 0 .. (M + N) - 1 /\ M + (n + 1) = (M + n) + 1 /\ n + 1 \in 1 .. N
        /\ n \in 0 .. N /\ n \in Nat
    OBVIOUS
  <2>2. SumTo(h, (M + n) + 1) = SumTo(h, M + n) + h[(M + n) + 1]
    BY <1>0, <2>1, SumStep, Zenon
  <2>3. SumTo(g, n + 1) = SumTo(g, n) + g[n + 1]
    BY SumStep
  <2>4. h[M + (n + 1)] = g[n + 1] /\ g[n + 1] \in Int
    BY <2>1
  <2>5. SumTo(f, M) \in Int BY SumInt
  <2>6. SumTo(g, n) \in Int
    <3>1. \A i \in 1 .. n : g[i] \in Int BY <2>1
    <3> QED BY <2>1, <3>1, SumInt, Zenon
  <2>7. SumTo(h, M + n) = SumTo(f, M) + SumTo(g, n) BY <1>2
  <2>8. SumTo(h, M + (n + 1)) = SumTo(f, M) + SumTo(g, n + 1)
    <3>1. SumTo(h, M + (n + 1)) = SumTo(h, M + n) + g[n + 1]
      BY <2>1, <2>2, <2>4
    <3> QED BY <2>3, <2>4, <2>5, <2>6, <2>7, <3>1
  <2> QED BY <2>1, <2>8
<1>3. \A n \in 0 .. N : n \in T
  <2> HIDE DEF T
  <2> QED BY <1>1, <1>2, UpTo, Zenon
<1>4. N \in 0 .. N
  OBVIOUS
<1> QED BY <1>3, <1>4

\* What is divided by weights and rounded down is no more than there was.
LEMMA SumOfParts ==
  ASSUME NEW N \in Nat, NEW s, NEW p, NEW r \in Nat, NEW t \in Nat \ {0},
         \A i \in 1 .. N : s[i] \in Nat, SumTo(s, N) <= t,
         \A i \in 1 .. N : p[i] = (r * s[i]) \div t
  PROVE  /\ \A i \in 1 .. N : p[i] \in Nat
         /\ SumTo(p, N) <= r
<1> DEFINE T == {n \in 0 .. N : t * SumTo(p, n) <= r * SumTo(s, n)}
<1>1. \A i \in 1 .. N : p[i] \in Nat /\ t * p[i] <= r * s[i]
  <2> TAKE i \in 1 .. N
  <2>1. s[i] \in Nat /\ r * s[i] \in Nat BY SMT
  <2> QED BY <2>1, DivBounds
<1>2. \A n \in 0 .. N : SumTo(p, n) \in Nat /\ SumTo(s, n) \in Nat
  <2> TAKE n \in 0 .. N
  <2>1. n \in Nat /\ (\A i \in 1 .. n : p[i] \in Nat) /\ (\A i \in 1 .. n : s[i] \in Nat)
    BY <1>1
  <2> QED BY <2>1, SumNat, Zenon
<1>3. 0 \in T
  <2>1. SumTo(p, 0) = 0 /\ SumTo(s, 0) = 0 BY SumZero
  <2> QED BY <2>1
<1>4. ASSUME NEW n \in 0 .. N - 1, n \in T PROVE n + 1 \in T
  <2>0. n + 1 \in 1 .. N /\ n + 1 \in 0 .. N /\ n \in 0 .. N OBVIOUS
  <2>1. SumTo(p, n + 1) = SumTo(p, n) + p[n + 1]
    <3>1. \A i \in 1 .. N : p[i] \in Int BY <1>1
    <3> QED BY <3>1, SumStep, Zenon
  <2>2. SumTo(s, n + 1) = SumTo(s, n) + s[n + 1]
    <3>1. \A i \in 1 .. N : s[i] \in Int OBVIOUS
    <3> QED BY <3>1, SumStep, Zenon
  <2>3. PICK a \in Nat : a = SumTo(p, n) BY <1>2, <2>0
  <2>4. PICK b \in Nat : b = SumTo(s, n) BY <1>2, <2>0
  <2>5. PICK c \in Nat : c = p[n + 1] BY <1>1, <2>0
  <2>6. PICK d \in Nat : d = s[n + 1] BY <2>0
  <2>7. t * a <= r * b BY <1>4, <2>3, <2>4
  <2>8. t * c <= r * d BY <1>1, <2>0, <2>5, <2>6
  <2>9. t * (a + c) = t * a + t * c /\ r * (b + d) = r * b + r * d
    BY SMT
  <2>10. t * a \in Int /\ t * c \in Int /\ r * b \in Int /\ r * d \in Int
    BY SMT
  <2>11. t * (a + c) <= r * (b + d)
    BY <2>7, <2>8, <2>9, <2>10
  <2> QED BY <2>0, <2>1, <2>2, <2>3, <2>4, <2>5, <2>6, <2>11
<1>5. N \in T
  <2> HIDE DEF T
  <2>1. \A n \in 0 .. N : n \in T
    BY <1>3, <1>4, UpTo, Zenon
  <2> QED BY <2>1
<1>6. PICK a \in Nat : a = SumTo(p, N) BY <1>2
<1>7. t * a <= r * t
  <2>1. PICK b \in Nat : b = SumTo(s, N) BY <1>2
  <2>2. r * b <= r * t BY <2>1, SMT
  <2>3. t * a <= r * b BY <1>5, <1>6, <2>1
  <2>4. t * a \in Int /\ r * b \in Int /\ r * t \in Int BY SMT
  <2> QED BY <2>2, <2>3, <2>4
<1>8. a <= r
  <2> SUFFICES ASSUME r + 1 <= a PROVE FALSE
    OBVIOUS
  <2>1. t * (r + 1) <= t * a BY SMT
  <2>2. t * (r + 1) = t * r + t BY SMT
  <2> QED BY <1>7, <2>1, <2>2, SMT
<1> QED BY <1>1, <1>6, <1>8
=============================================================================
