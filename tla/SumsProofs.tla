----------------------------- MODULE SumsProofs -----------------------------
(***************************************************************************)
(* What sums over 1..n satisfy, proved from their recursive definition by  *)
(* looking at the least index at which a fact would fail.                  *)
(***************************************************************************)
EXTENDS Sums, TLAPS, WellFoundedInduction

\* Least-counterexample induction over an initial segment of Nat, for a set of indices.
LEMMA SegmentInduction ==
  ASSUME NEW n \in Nat, NEW G, 0 \in G,
         \A i \in 0..n : (i # 0 /\ i - 1 \in G) => i \in G
  PROVE  0..n \subseteq G
<1> DEFINE Bad == (0..n) \ G
<1> SUFFICES ASSUME Bad # {} PROVE FALSE
  OBVIOUS
<1>1. Bad \subseteq Nat
  OBVIOUS
<1>2. PICK x \in Bad : \A y \in Bad : ~(<<y, x>> \in OpToRel(<, Nat))
  BY <1>1, NatLessThanWellFounded, WFMin
<1>3. x # 0 /\ x - 1 \in 0..n /\ x \in Nat
  OBVIOUS
<1>4. <<x - 1, x>> \in OpToRel(<, Nat)
  BY <1>3 DEF OpToRel
<1>5. x - 1 \in G
  BY <1>2, <1>3, <1>4
<1> QED
  BY <1>3, <1>5

\* The recursion that defines PartialSums has a solution.
LEMMA PartialSumsExist ==
  ASSUME NEW n \in Nat, NEW f
  PROVE  \E g : g = [i \in 0..n |-> IF i = 0 THEN 0 ELSE g[i - 1] + f[i]]
<1> DEFINE Solves(g, k) == g = [i \in 0..k |-> IF i = 0 THEN 0 ELSE g[i - 1] + f[i]]
           G == {k \in 0..n : \E g : Solves(g, k)}
<1>1. 0 \in G
  <2>1. Solves([i \in 0..0 |-> 0], 0)
    OBVIOUS
  <2>2. \E g : Solves(g, 0)
    <3> HIDE DEF Solves
    <3> QED BY <2>1
  <2> HIDE DEF Solves
  <2> QED
    BY <2>2
<1>2. ASSUME NEW k \in 0..n, k # 0, k - 1 \in G
      PROVE  k \in G
  <2>1. PICK g : Solves(g, k - 1)
    BY <1>2
  <2> DEFINE h == [i \in 0..k |-> IF i = k THEN g[k - 1] + f[k] ELSE g[i]]
  <2>2. ASSUME NEW i \in 0..k
        PROVE  h[i] = IF i = 0 THEN 0 ELSE h[i - 1] + f[i]
    <3>1. CASE i = k
      BY <3>1, <1>2
    <3>2. CASE i # k
      <4>1. i \in 0..(k - 1)
        BY <3>2
      <4>2. g[i] = IF i = 0 THEN 0 ELSE g[i - 1] + f[i]
        BY <2>1, <4>1
      <4> QED
        BY <3>2, <4>1, <4>2
    <3> QED
      BY <3>1, <3>2
  <2>3. h = [i \in 0..k |-> IF i = 0 THEN 0 ELSE h[i - 1] + f[i]]
    BY <2>2
  <2>4. Solves(h, k)
    BY <2>3
  <2> HIDE DEF h, Solves
  <2> QED
    BY <2>4
<1> HIDE DEF G
<1>3. 0..n \subseteq G
  BY <1>1, <1>2, SegmentInduction
<1> QED
  BY <1>3 DEF G

\* PartialSums satisfies the recursion that defines it.
LEMMA PartialSumsDef ==
  ASSUME NEW n \in Nat, NEW f
  PROVE  PartialSums(f, n) = [i \in 0..n |-> IF i = 0 THEN 0 ELSE PartialSums(f, n)[i - 1] + f[i]]
<1> DEFINE g == CHOOSE g : g = [i \in 0..n |-> IF i = 0 THEN 0 ELSE g[i - 1] + f[i]]
<1>1. g = [i \in 0..n |-> IF i = 0 THEN 0 ELSE g[i - 1] + f[i]]
  BY PartialSumsExist, Zenon
<1>2. PartialSums(f, n) = g
  BY Zenon DEF PartialSums
<1> QED
  BY <1>1, <1>2, Zenon

\* The two equations of the recursion, as the other lemmas use them.
LEMMA PartialSumsStep ==
  ASSUME NEW n \in Nat, NEW f
  PROVE  /\ PartialSums(f, n)[0] = 0
         /\ \A i \in 1..n : PartialSums(f, n)[i] = PartialSums(f, n)[i - 1] + f[i]
<1> DEFINE s == PartialSums(f, n)
<1>1. s = [i \in 0..n |-> IF i = 0 THEN 0 ELSE s[i - 1] + f[i]]
  BY PartialSumsDef, Zenon
<1> HIDE DEF s
<1>2. s[0] = 0 /\ \A i \in 1..n : s[i] = s[i - 1] + f[i]
  BY <1>1
<1> QED
  BY <1>2, Zenon DEF s

\* A sum of natural numbers is a natural number, at least as large as each of them.
LEMMA SumNat ==
  ASSUME NEW n \in Nat, NEW f \in [1..n -> Nat]
  PROVE  /\ SumTo(f, n) \in Nat
         /\ \A k \in 1..n : f[k] <= SumTo(f, n)
<1> DEFINE s == PartialSums(f, n)
           G == {i \in 0..n : s[i] \in Nat /\ \A k \in 1..i : f[k] <= s[i]}
<1>1. s[0] = 0 /\ \A i \in 1..n : s[i] = s[i - 1] + f[i]
  BY PartialSumsStep, Zenon
<1> HIDE DEF s
<1>2. 0 \in G
  BY <1>1
<1>3. ASSUME NEW i \in 0..n, i # 0, i - 1 \in G
      PROVE  i \in G
  <2>1. s[i] = s[i - 1] + f[i] /\ f[i] \in Nat /\ s[i - 1] \in Nat
    BY <1>1, <1>3
  <2>2. ASSUME NEW k \in 1..i PROVE f[k] <= s[i]
    <3>1. CASE k = i
      BY <2>1, <3>1
    <3>2. CASE k # i
      <4>1. k \in 1..(i - 1) /\ f[k] \in Nat
        BY <3>2
      <4>2. f[k] <= s[i - 1]
        BY <1>3, <4>1
      <4> QED
        BY <2>1, <4>1, <4>2
    <3> QED
      BY <3>1, <3>2
  <2> QED
    BY <2>1, <2>2
<1> HIDE DEF G
<1>4. 0..n \subseteq G
  BY <1>2, <1>3, SegmentInduction
<1>5. n \in G
  BY <1>4
<1> QED
  BY <1>5 DEF G, s, SumTo

\* A sum of integers is an integer.
LEMMA SumInt ==
  ASSUME NEW n \in Nat, NEW f \in [1..n -> Int]
  PROVE  /\ PartialSums(f, n) \in [0..n -> Int]
         /\ SumTo(f, n) \in Int
<1> DEFINE s == PartialSums(f, n)
           G == {i \in 0..n : s[i] \in Int}
<1>0. s = [i \in 0..n |-> IF i = 0 THEN 0 ELSE s[i - 1] + f[i]]
  BY PartialSumsDef, Zenon
<1>1. s[0] = 0 /\ \A i \in 1..n : s[i] = s[i - 1] + f[i]
  BY PartialSumsStep, Zenon
<1> HIDE DEF s
<1>2. 0 \in G
  BY <1>1
<1>3. ASSUME NEW i \in 0..n, i # 0, i - 1 \in G
      PROVE  i \in G
  BY <1>1, <1>3
<1> HIDE DEF G
<1>4. 0..n \subseteq G
  BY <1>2, <1>3, SegmentInduction
<1>5. \A i \in 0..n : s[i] \in Int
  BY <1>4 DEF G
<1>6. s \in [0..n -> Int]
  BY <1>0, <1>5
<1> QED
  BY <1>5, <1>6 DEF s, SumTo

\* Sums are additive: the sum of f + c * g is the sum of f plus c times the sum of g.
LEMMA SumLinear ==
  ASSUME NEW n \in Nat, NEW f \in [1..n -> Int], NEW g \in [1..n -> Int],
         NEW h \in [1..n -> Int], NEW c \in Int,
         \A i \in 1..n : h[i] = f[i] + c * g[i]
  PROVE  SumTo(h, n) = SumTo(f, n) + c * SumTo(g, n)
<1> DEFINE sf == PartialSums(f, n)
           sg == PartialSums(g, n)
           sh == PartialSums(h, n)
           G == {i \in 0..n : sh[i] = sf[i] + c * sg[i]}
<1>1. /\ sf[0] = 0 /\ \A i \in 1..n : sf[i] = sf[i - 1] + f[i]
      /\ sg[0] = 0 /\ \A i \in 1..n : sg[i] = sg[i - 1] + g[i]
      /\ sh[0] = 0 /\ \A i \in 1..n : sh[i] = sh[i - 1] + h[i]
  BY PartialSumsStep, Zenon
<1>2. \A i \in 0..n : sf[i] \in Int /\ sg[i] \in Int
  BY SumInt
<1> HIDE DEF sf, sg, sh
<1>3. 0 \in G
  BY <1>1
<1>4. ASSUME NEW i \in 0..n, i # 0, i - 1 \in G
      PROVE  i \in G
  <2>1. /\ i \in 1..n /\ i - 1 \in 0..n
        /\ f[i] \in Int /\ g[i] \in Int /\ sf[i - 1] \in Int /\ sg[i - 1] \in Int
        /\ h[i] = f[i] + c * g[i]
    BY <1>2, <1>4
  <2>2. c * (sg[i - 1] + g[i]) = c * sg[i - 1] + c * g[i]
    BY <2>1
  <2>3. sh[i - 1] = sf[i - 1] + c * sg[i - 1]
    BY <1>4
  <2>4. /\ sf[i] = sf[i - 1] + f[i]
        /\ sg[i] = sg[i - 1] + g[i]
        /\ sh[i] = sh[i - 1] + h[i]
    BY <1>1, <2>1
  <2>5. c * g[i] \in Int /\ c * sg[i - 1] \in Int
    BY <2>1
  <2>6. sh[i] = (sf[i - 1] + f[i]) + (c * sg[i - 1] + c * g[i])
    <3> DEFINE a == c * g[i]
               b == c * sg[i - 1]
    <3> HIDE DEF a, b
    <3>1. a \in Int /\ b \in Int
      BY <2>5 DEF a, b
    <3>2. sh[i - 1] = sf[i - 1] + b /\ h[i] = f[i] + a
      BY <2>1, <2>3 DEF a, b
    <3>3. sh[i] = (sf[i - 1] + f[i]) + (b + a)
      BY <2>1, <2>4, <3>1, <3>2
    <3> QED
      BY <3>3 DEF a, b
  <2>7. sh[i] = sf[i] + c * sg[i]
    BY <2>2, <2>4, <2>6
  <2> QED
    BY <2>7
<1> HIDE DEF G
<1>5. 0..n \subseteq G
  BY <1>3, <1>4, SegmentInduction
<1>6. n \in G
  BY <1>5
<1> QED
  BY <1>6 DEF G, sf, sg, sh, SumTo

\* Sums are monotone.
LEMMA SumMonotone ==
  ASSUME NEW n \in Nat, NEW f \in [1..n -> Int], NEW g \in [1..n -> Int],
         \A i \in 1..n : f[i] <= g[i]
  PROVE  SumTo(f, n) <= SumTo(g, n)
<1> DEFINE d == [i \in 1..n |-> g[i] - f[i]]
<1>1. d \in [1..n -> Nat]
  OBVIOUS
<1>2. SumTo(d, n) \in Nat
  BY <1>1, SumNat
<1>3. d \in [1..n -> Int] /\ \A i \in 1..n : g[i] = f[i] + 1 * d[i]
  OBVIOUS
<1>4. SumTo(g, n) = SumTo(f, n) + 1 * SumTo(d, n)
  <2>1. 1 \in Int
    OBVIOUS
  <2> HIDE DEF d
  <2> QED
    BY <1>3, <2>1, SumLinear, Zenon
<1>5. SumTo(f, n) \in Int
  BY SumInt
<1> QED
  BY <1>2, <1>4, <1>5

\* Changing one term of a sum changes the sum by the same amount.
LEMMA SumUpdate ==
  ASSUME NEW n \in Nat, NEW f \in [1..n -> Int], NEW g \in [1..n -> Int],
         NEW k \in 1..n, \A i \in 1..n : i # k => g[i] = f[i]
  PROVE  SumTo(g, n) = SumTo(f, n) + (g[k] - f[k])
<1> DEFINE sf == PartialSums(f, n)
           sg == PartialSums(g, n)
           G == {i \in 0..n : sg[i] = sf[i] + IF i < k THEN 0 ELSE g[k] - f[k]}
<1>1. /\ sf[0] = 0 /\ \A i \in 1..n : sf[i] = sf[i - 1] + f[i]
      /\ sg[0] = 0 /\ \A i \in 1..n : sg[i] = sg[i - 1] + g[i]
  BY PartialSumsStep, Zenon
<1>2. \A i \in 0..n : sf[i] \in Int /\ sg[i] \in Int
  BY SumInt
<1> HIDE DEF sf, sg
<1>3. 0 \in G
  BY <1>1
<1>4. ASSUME NEW i \in 0..n, i # 0, i - 1 \in G
      PROVE  i \in G
  <2>1. /\ i \in 1..n /\ i - 1 \in 0..n
        /\ f[i] \in Int /\ g[i] \in Int /\ f[k] \in Int /\ g[k] \in Int
        /\ sf[i - 1] \in Int /\ sg[i - 1] \in Int
    BY <1>2, <1>4
  <2>2. sf[i] = sf[i - 1] + f[i] /\ sg[i] = sg[i - 1] + g[i]
    BY <1>1, <2>1
  <2>3. sg[i - 1] = sf[i - 1] + IF i - 1 < k THEN 0 ELSE g[k] - f[k]
    BY <1>4
  <2>4. CASE i = k
    BY <2>1, <2>2, <2>3, <2>4
  <2>5. CASE i # k
    <3>1. g[i] = f[i]
      BY <2>1, <2>5
    <3>2. i - 1 < k <=> i < k
      BY <2>1, <2>5
    <3>3. sg[i] = sf[i] + IF i < k THEN 0 ELSE g[k] - f[k]
      <4> DEFINE a == sf[i - 1]
                 b == sg[i - 1]
                 c == f[i]
                 e == g[k] - f[k]
      <4>1. a \in Int /\ c \in Int /\ e \in Int
        BY <2>1
      <4>2. b = a + IF i < k THEN 0 ELSE e
        BY <2>3, <3>2
      <4>3. sg[i] = b + c /\ sf[i] = a + c
        BY <2>2, <3>1
      <4> HIDE DEF a, b, c, e
      <4>4. sg[i] = sf[i] + IF i < k THEN 0 ELSE e
        BY <4>1, <4>2, <4>3
      <4> QED
        BY <4>4 DEF e
    <3> QED
      BY <3>3
  <2> QED
    BY <2>4, <2>5
<1> HIDE DEF G
<1>5. 0..n \subseteq G
  BY <1>3, <1>4, SegmentInduction
<1>6. n \in G
  BY <1>5
<1> QED
  BY <1>6 DEF G, sf, sg, SumTo

\* The sum of n equal terms.
LEMMA SumConstant ==
  ASSUME NEW n \in Nat, NEW f \in [1..n -> Int], NEW c \in Int, \A i \in 1..n : f[i] = c
  PROVE  SumTo(f, n) = n * c
<1> DEFINE s == PartialSums(f, n)
           G == {i \in 0..n : s[i] = i * c}
<1>1. s[0] = 0 /\ \A i \in 1..n : s[i] = s[i - 1] + f[i]
  BY PartialSumsStep, Zenon
<1> HIDE DEF s
<1>2. 0 \in G
  BY <1>1
<1>3. ASSUME NEW i \in 0..n, i # 0, i - 1 \in G
      PROVE  i \in G
  <2>1. s[i] = (i - 1) * c + c
    BY <1>1, <1>3
  <2>2. (i - 1) * c + c = i * c
    OBVIOUS
  <2> QED
    BY <2>1, <2>2
<1> HIDE DEF G
<1>4. 0..n \subseteq G
  BY <1>2, <1>3, SegmentInduction
<1>5. n \in G
  BY <1>4
<1> QED
  BY <1>5 DEF G, s, SumTo

\* The sum of differences is the difference of the sums.
LEMMA SumMinus ==
  ASSUME NEW n \in Nat, NEW f \in [1..n -> Int], NEW g \in [1..n -> Int],
         NEW h \in [1..n -> Int], \A i \in 1..n : h[i] = f[i] - g[i]
  PROVE  SumTo(h, n) = SumTo(f, n) - SumTo(g, n)
<1>1. 1 \in Int /\ \A i \in 1..n : f[i] = g[i] + 1 * h[i]
  OBVIOUS
<1>2. SumTo(f, n) = SumTo(g, n) + 1 * SumTo(h, n)
  BY <1>1, SumLinear, Zenon
<1>3. SumTo(g, n) \in Int /\ SumTo(h, n) \in Int
  BY SumInt
<1> QED
  BY <1>2, <1>3

\* Differences that are ordered term by term are ordered when summed.
LEMMA SumDifferences ==
  ASSUME NEW n \in Nat, NEW x \in [1..n -> Int], NEW y \in [1..n -> Int],
         NEW u \in [1..n -> Int], NEW v \in [1..n -> Int],
         \A i \in 1..n : y[i] - x[i] <= v[i] - u[i]
  PROVE  SumTo(y, n) - SumTo(x, n) <= SumTo(v, n) - SumTo(u, n)
<1> DEFINE d == [i \in 1..n |-> y[i] - x[i]]
           e == [i \in 1..n |-> v[i] - u[i]]
<1>1. d \in [1..n -> Int] /\ e \in [1..n -> Int] /\ \A i \in 1..n : d[i] <= e[i]
  OBVIOUS
<1>2. \A i \in 1..n : d[i] = y[i] - x[i]
  OBVIOUS
<1>3. \A i \in 1..n : e[i] = v[i] - u[i]
  OBVIOUS
<1> HIDE DEF d, e
<1>4. SumTo(d, n) = SumTo(y, n) - SumTo(x, n)
  BY <1>1, <1>2, SumMinus, Zenon
<1>5. SumTo(e, n) = SumTo(v, n) - SumTo(u, n)
  BY <1>1, <1>3, SumMinus, Zenon
<1>6. SumTo(d, n) <= SumTo(e, n)
  BY <1>1, SumMonotone, Zenon
<1> QED
  BY <1>4, <1>5, <1>6

\* A common factor.
LEMMA SumTimes ==
  ASSUME NEW n \in Nat, NEW f \in [1..n -> Int], NEW c \in Int, NEW h \in [1..n -> Int],
         \A i \in 1..n : h[i] = c * f[i]
  PROVE  SumTo(h, n) = c * SumTo(f, n)
<1> DEFINE zero == [i \in 1..n |-> 0]
<1>1. zero \in [1..n -> Int] /\ 0 \in Int /\ \A i \in 1..n : zero[i] = 0
  OBVIOUS
<1>2. \A i \in 1..n : h[i] = zero[i] + c * f[i]
  <2> SUFFICES ASSUME NEW i \in 1..n PROVE h[i] = zero[i] + c * f[i]
    OBVIOUS
  <2>1. f[i] \in Int /\ c * f[i] \in Int /\ h[i] = c * f[i]
    OBVIOUS
  <2> QED
    BY <2>1
<1> HIDE DEF zero
<1>3. SumTo(zero, n) = n * 0
  BY <1>1, SumConstant, Zenon
<1>4. SumTo(h, n) = SumTo(zero, n) + c * SumTo(f, n)
  BY <1>1, <1>2, SumLinear, Zenon
<1>5. SumTo(f, n) \in Int
  BY SumInt
<1>6. n * 0 = 0 /\ c * SumTo(f, n) \in Int
  BY <1>5
<1> QED
  BY <1>3, <1>4, <1>6
=============================================================================
